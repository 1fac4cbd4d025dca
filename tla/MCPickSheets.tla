------------------------------ MODULE MCPickSheets ------------------------------
(***************************************************************************)
(* An instance of DivisionsForm, AwardsForm and SeriesForm for TLC.  The   *)
(* sheets share no state, so a behaviour is that of one of them.           *)
(***************************************************************************)
EXTENDS DivisionsForm, AwardsForm, SeriesForm, TLC

CONSTANTS a, b, c, d, e, f, g, h, inner, outer, coast, plain, east, west,
          s1, s2, g1, g2, hart, vezina, skater, goalie, m1, m2

In(division, conference) == [division |-> division, conference |-> conference]

(* A division larger than the cap, and others no larger than it.  In the   *)
(* second season c has moved to the other division and b to the other      *)
(* conference, so that some forms of a stale page are still legal and some *)
(* are not; then there is a file without any team.                         *)
FirstSeason ==
    a :> In(inner, east) @@ b :> In(inner, east) @@ c :> In(inner, east) @@
    d :> In(outer, east) @@ e :> In(outer, east) @@
    f :> In(coast, west) @@ g :> In(coast, west) @@ h :> In(plain, west)

SecondSeason ==
    a :> In(inner, east) @@ c :> In(outer, east) @@ d :> In(outer, east) @@
    e :> In(outer, east) @@ b :> In(plain, west) @@
    f :> In(coast, west) @@ g :> In(coast, west) @@ h :> In(plain, west)

TeamLists == {FirstSeason, SecondSeason, NoTeams}

EligibleFor == hart :> skater @@ vezina :> goalie

(* In the second list s2 has been removed and g2 become a skater.          *)
NHLPlayersBefore == s1 :> skater @@ s2 :> skater @@ g1 :> goalie @@ g2 :> goalie

NHLPlayers == {NHLPlayersBefore, s1 :> skater @@ g1 :> goalie @@ g2 :> skater}

(* In the second list the sides of m1 were corrected, m2 taken back.       *)
FirstRound == m1 :> {a, b} @@ m2 :> {c, d}

Rounds == {FirstRound, m1 :> {a, c}}

VARIABLE sheet      \* which of the sheets the player is at

Init ==
    /\ sheet \in {"divisions", "awards", "series"}
    /\ DivisionsInit
    /\ AwardsInit
    /\ SeriesInit
    /\ sheet # "divisions" => roster = NoTeams
    /\ sheet # "awards" => players = NHLPlayersBefore
    /\ sheet # "series" => matchups = FirstRound

Next ==
    \/ /\ sheet = "divisions"
       /\ DivisionsNext
       /\ UNCHANGED <<sheet, awardsVars, seriesVars>>
    \/ /\ sheet = "awards"
       /\ AwardsNext
       /\ UNCHANGED <<sheet, divisionsVars, seriesVars>>
    \/ /\ sheet = "series"
       /\ SeriesNext
       /\ UNCHANGED <<sheet, divisionsVars, awardsVars>>

Spec == Init /\ [][Next]_<<sheet, divisionsVars, awardsVars, seriesVars>>
=============================================================================
