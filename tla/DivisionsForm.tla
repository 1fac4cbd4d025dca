----------------------------- MODULE DivisionsForm -----------------------------
(***************************************************************************)
(* The "divisions" sheet: a page of checkboxes, one per team, grouped by   *)
(* division and conference, and the handler that receives it.  A player    *)
(* may take at most MaxTeamsPerDivision teams of a division and must take  *)
(* exactly RequiredPerConference of a conference.  The browser's script    *)
(* (divisions.js) disables boxes and the submit button; the server         *)
(* (sheet_divisions.go) counts again, over the teams it knows by then: the *)
(* operator may have edited them while the page was open.                  *)
(*                                                                         *)
(* A browser without the script lets any box be checked and leaves the     *)
(* submit button as it was rendered.  Division winners are no part of the  *)
(* counting: of them only remains that the server may refuse one who was   *)
(* chosen on a page over other teams.  The deadline and the store are the  *)
(* subject of SheetSubmit and Store.                                       *)
(* Every team is listed once and the teams of a division name the same     *)
(* conference; the code takes the conference of the division's first team. *)
(***************************************************************************)
EXTENDS Integers, FiniteSets

CONSTANTS
    Team, Division, Conference,
    Rosters,                \* the team lists the operator may put in the file
    MaxTeamsPerDivision,    \* 5, and DIVISION_CAP of the script
    RequiredPerConference   \* 8, and CONFERENCE_CAP of the script

Place == [division : Division, conference : Conference]

ASSUME RosterAssumption ==
    /\ IsFiniteSet(Team)
    /\ \A r \in Rosters :
        /\ DOMAIN r \subseteq Team
        /\ r \in [DOMAIN r -> Place]
        /\ \A t, u \in DOMAIN r :
            r[t].division = r[u].division => r[t].conference = r[u].conference
    /\ MaxTeamsPerDivision \in Nat
    /\ RequiredPerConference \in Nat

VARIABLES
    roster,         \* the teams, as the server loaded them
    lists,          \* the player's saved playoff teams of each division
    divisionsPage,  \* the page in the browser: whether the script runs, the
                    \* teams it was rendered from, the boxes checked and
                    \* whether the submit button is enabled
    divisionsAt     \* where the player is: away, editing, or waiting for the
                    \* answer to a form

divisionsVars == <<roster, lists, divisionsPage, divisionsAt>>

(***************************************************************************)
(* Teams, divisions and conferences                                        *)
(***************************************************************************)

(* groupTeamsByDivision, groupDivisionsByConference.                       *)
TeamsOf(r, d) == {t \in DOMAIN r : r[t].division = d}

Conferences(r) == {r[t].conference : t \in DOMAIN r}

ConferenceOf(r, d) == r[CHOOSE t \in TeamsOf(r, d) : TRUE].conference

(* What a form says: the checked teams of each division's field.           *)
Forms == [Division -> SUBSET Team]

(***************************************************************************)
(* The server                                                              *)
(***************************************************************************)
HasInvalidPlayoffTeam(r, f) == \E d \in Division : ~(f[d] \subseteq TeamsOf(r, d))

CountsExceedCap(f) ==
    \E d \in Division : Cardinality(f[d]) > MaxTeamsPerDivision

(* The counts of a conference's divisions added up, as the number of       *)
(* (division, team) pairs: a team in two fields would count twice.         *)
ConferenceTotal(r, f, c) ==
    Cardinality({e \in Division \X Team : /\ TeamsOf(r, e[1]) # {}
                                          /\ ConferenceOf(r, e[1]) = c
                                          /\ e[2] \in f[e[1]]})

(* No conference at all is never valid here.                               *)
ConferenceTotalsValid(r, f) ==
    /\ Conferences(r) # {}
    /\ \A c \in Conferences(r) : ConferenceTotal(r, f, c) = RequiredPerConference

(* Mutant: the server trusts the script with the cap of a division.        *)
AcceptsAnySplit(r, f) ==
    /\ ~HasInvalidPlayoffTeam(r, f)
    /\ ConferenceTotalsValid(r, f)

Accepts(r, f) ==
    /\ ~HasInvalidPlayoffTeam(r, f)
    /\ ~CountsExceedCap(f)
    /\ ConferenceTotalsValid(r, f)

(***************************************************************************)
(* The page                                                                *)
(***************************************************************************)
CheckedIn(r, checked, d) == {t \in checked : r[t].division = d}

CheckedOf(r, checked, c) == {t \in checked : r[t].conference = c}

(* allConferencesValid when the page is rendered, updateSubmitState after. *)
AllValid(r, checked) ==
    \A c \in Conferences(r) :
        Cardinality(CheckedOf(r, checked, c)) = RequiredPerConference

(* Mutants: the conference's pass overrides the division's; the conference *)
(* closes one team early.                                                  *)
CappedByConference(p, t) ==
    Cardinality(CheckedOf(p.teams, p.checked, p.teams[t].conference))
        >= RequiredPerConference

CappedEarly(p, t) ==
    \/ Cardinality(CheckedIn(p.teams, p.checked, p.teams[t].division))
         >= MaxTeamsPerDivision
    \/ Cardinality(CheckedOf(p.teams, p.checked, p.teams[t].conference))
         >= RequiredPerConference - 1

(* applyCaps: an unchecked box is disabled by either count.                *)
Capped(p, t) ==
    \/ Cardinality(CheckedIn(p.teams, p.checked, p.teams[t].division))
         >= MaxTeamsPerDivision
    \/ Cardinality(CheckedOf(p.teams, p.checked, p.teams[t].conference))
         >= RequiredPerConference

(* selectedDivisionTeams: of a division's saved or submitted list, what    *)
(* the server still knows as a team of that division.                      *)
Selected(r, f) == {t \in DOMAIN r : t \in f[r[t].division]}

Rendered(r, f, script) ==
    [script |-> script, teams |-> r, checked |-> Selected(r, f),
     submit |-> AllValid(r, Selected(r, f))]

(* parseDivisionsSubmission: the checked boxes under their division's name.*)
Submission(p) == [d \in Division |-> CheckedIn(p.teams, p.checked, d)]

NoTeams == [t \in {} |-> t]
NoPage == [script |-> FALSE, teams |-> NoTeams, checked |-> {}, submit |-> FALSE]

(***************************************************************************)
(* Behaviour                                                               *)
(***************************************************************************)
DivisionsInit ==
    /\ roster \in Rosters
    /\ lists = [d \in Division |-> {}]
    /\ divisionsPage = NoPage
    /\ divisionsAt = "away"

(* GET /predict/divisions, in a browser with or without the script.        *)
OpenDivisions ==
    /\ divisionsAt # "posted"
    /\ \E script \in BOOLEAN : divisionsPage' = Rendered(roster, lists, script)
    /\ divisionsAt' = "editing"
    /\ UNCHANGED <<roster, lists>>

Flipped(checked, t) == IF t \in checked THEN checked \ {t} ELSE checked \cup {t}

Toggle(t) ==
    /\ divisionsAt = "editing"
    /\ t \in DOMAIN divisionsPage.teams
    /\ divisionsPage.script /\ t \notin divisionsPage.checked => ~Capped(divisionsPage, t)
    /\ LET checked == Flipped(divisionsPage.checked, t)
       IN  divisionsPage' =
             [divisionsPage EXCEPT !.checked = checked,
                !.submit = IF divisionsPage.script
                             THEN AllValid(divisionsPage.teams, checked) ELSE @]
    /\ UNCHANGED <<roster, lists, divisionsAt>>

PostDivisions ==
    /\ divisionsAt = "editing"
    /\ divisionsPage.submit
    /\ divisionsAt' = "posted"
    /\ UNCHANGED <<roster, lists, divisionsPage>>

(* handleDivisionsSubmit: every division's list is saved in one call, and  *)
(* the player is sent back to the list of sets.                            *)
SaveDivisions ==
    /\ divisionsAt = "posted"
    /\ Accepts(roster, Submission(divisionsPage))
    /\ lists' = Submission(divisionsPage)
    /\ divisionsPage' = NoPage
    /\ divisionsAt' = "away"
    /\ UNCHANGED roster

DivisionsSaveFails ==
    /\ divisionsAt = "posted"
    /\ Accepts(roster, Submission(divisionsPage))
    /\ divisionsPage' = NoPage
    /\ divisionsAt' = "away"
    /\ UNCHANGED <<roster, lists>>

(* renderRejectedDivisionsPick: the form again, over today's teams.        *)
ShowDivisionsAgain ==
    /\ divisionsPage' =
         Rendered(roster, Submission(divisionsPage), divisionsPage.script)
    /\ divisionsAt' = "editing"
    /\ UNCHANGED <<roster, lists>>

RejectDivisions ==
    /\ divisionsAt = "posted"
    /\ ~Accepts(roster, Submission(divisionsPage))
    /\ ShowDivisionsAgain

(* divisionsHaveAnInvalidWinner, of lists that are fine.                   *)
RejectWinners ==
    /\ divisionsAt = "posted"
    /\ Accepts(roster, Submission(divisionsPage))
    /\ divisionsPage.teams # roster
    /\ ShowDivisionsAgain

(* The operator restarts the server on another team list; a form under way *)
(* is lost and the player goes back to the page.                           *)
EditTeams(r) ==
    /\ roster' = r
    /\ divisionsAt' = IF divisionsAt = "posted" THEN "editing" ELSE divisionsAt
    /\ UNCHANGED <<lists, divisionsPage>>

DivisionsNext ==
    \/ OpenDivisions
    \/ \E t \in Team : Toggle(t)
    \/ PostDivisions
    \/ SaveDivisions
    \/ DivisionsSaveFails
    \/ RejectDivisions
    \/ RejectWinners
    \/ \E r \in Rosters : EditTeams(r)

DivisionsSpec == DivisionsInit /\ [][DivisionsNext]_divisionsVars

(***************************************************************************)
(* Properties                                                              *)
(***************************************************************************)
DivisionsTypeOK ==
    /\ roster \in Rosters
    /\ lists \in Forms
    /\ divisionsPage.script \in BOOLEAN
    /\ divisionsPage.submit \in BOOLEAN
    /\ divisionsPage.teams \in Rosters \cup {NoTeams}
    /\ divisionsPage.checked \subseteq DOMAIN divisionsPage.teams
    /\ divisionsPage =
         [script |-> divisionsPage.script, teams |-> divisionsPage.teams,
          checked |-> divisionsPage.checked, submit |-> divisionsPage.submit]
    /\ divisionsAt \in {"away", "editing", "posted"}

WithinCap(f) == \A d \in Division : Cardinality(f[d]) <= MaxTeamsPerDivision

(* The inductive invariant: no saved list and no page under the script has *)
(* ever more teams of a division than the cap, however the page came to be *)
(* (rendered from lists saved under another roster, or from a rejected     *)
(* form), and the button follows the boxes.                                *)
DivisionsIInv ==
    /\ DivisionsTypeOK
    /\ WithinCap(lists)
    /\ divisionsPage.script =>
        /\ WithinCap(Submission(divisionsPage))
        /\ divisionsPage.submit = AllValid(divisionsPage.teams, divisionsPage.checked)

(* The script and the server agree: on a page over the server's own teams  *)
(* the submit button is enabled exactly when handleDivisionsSubmit would   *)
(* accept the form, although the button looks only at the conferences.     *)
(* With no team in the file at all the page is vacuously valid; the code   *)
(* documents and accepts that.                                             *)
PageMatchesServer ==
    divisionsAt = "editing" /\ divisionsPage.script /\ divisionsPage.teams = roster
      /\ DOMAIN roster # {} =>
        (divisionsPage.submit <=> Accepts(roster, Submission(divisionsPage)))

(* "8 teams per conference - either a 4/4 split, or 5 in one division and  *)
(* 3 in the other": each team on one list, that of its own division.       *)
Legal(r, f) ==
    LET picked == UNION {f[d] : d \in Division}
    IN  /\ picked \subseteq DOMAIN r
        /\ \A d \in Division : f[d] = {t \in picked : r[t].division = d}
        /\ WithinCap(f)
        /\ AllValid(r, picked)

(* The teams of a roster can be picked as the rules ask.                   *)
Fillable(r) ==
    \E picked \in SUBSET DOMAIN r :
        Legal(r, [d \in Division |-> CheckedIn(r, picked, d)])

(* The script leaves a way on: as long as a conference lacks teams, one of *)
(* its boxes can still be checked, whatever was checked before.            *)
NoDeadEnd ==
    divisionsPage.script /\ Fillable(divisionsPage.teams) =>
        \A c \in Conferences(divisionsPage.teams) :
            Cardinality(CheckedOf(divisionsPage.teams, divisionsPage.checked, c))
                < RequiredPerConference =>
              \E t \in DOMAIN divisionsPage.teams \ divisionsPage.checked :
                divisionsPage.teams[t].conference = c /\ ~Capped(divisionsPage, t)

(* Whatever page a form comes from, with the script or without, rendered   *)
(* from these teams or from others: the lists on file are only ever        *)
(* replaced by lists the rules allow for the teams as they are.            *)
ListsLegalWhenSaved == [][lists' # lists => Legal(roster, lists')]_divisionsVars
=============================================================================
