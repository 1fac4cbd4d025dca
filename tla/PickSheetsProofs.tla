---------------------------- MODULE PickSheetsProofs ----------------------------
(***************************************************************************)
(* Proofs about DivisionsForm, AwardsForm and SeriesForm: for any teams,   *)
(* divisions and conferences, any rosters that list a team once, any cap   *)
(* and required total; any awards, slots, NHL players and edits of them;   *)
(* any series, counts of games and corrections of the matchups.  The pages *)
(* share no state, so each has its own part.                               *)
(***************************************************************************)
EXTENDS DivisionsForm, AwardsForm, SeriesForm, FiniteSetTheorems, TLAPS

(***************************************************************************)
(* The divisions page                                                      *)
(***************************************************************************)

(***************************************************************************)
(* Boxes and lists                                                         *)
(***************************************************************************)

Legit(r) == r \in Rosters \cup {NoTeams}

(* What a roster is, the empty one included.                               *)
LEMMA RosterFacts ==
    ASSUME NEW r, Legit(r)
    PROVE  /\ DOMAIN r \subseteq Team
           /\ \A t \in DOMAIN r : r[t] \in Place
           /\ \A t, u \in DOMAIN r : r[t].division = r[u].division =>
                                       r[t].conference = r[u].conference
<1>1. CASE r \in Rosters
  BY <1>1, RosterAssumption
<1>2. CASE r = NoTeams
  <2>1. DOMAIN r = {}
    BY <1>2 DEF NoTeams
  <2> QED
    BY <2>1
<1> QED
  BY <1>1, <1>2 DEF Legit

(* Any set of teams is finite, and a part of it is no larger.              *)
LEMMA TeamsFinite ==
    ASSUME NEW S \in SUBSET Team
    PROVE  IsFiniteSet(S) /\ Cardinality(S) \in Nat
BY RosterAssumption, FS_Subset, FS_CardinalityType

LEMMA PartNoLarger ==
    ASSUME NEW S \in SUBSET Team, NEW P \in SUBSET S
    PROVE  Cardinality(P) <= Cardinality(S)
BY TeamsFinite, FS_Subset

(* The division of a listed team has a team, and its conference is that of *)
(* each of them.                                                           *)
LEMMA ConferenceOfTeam ==
    ASSUME NEW r, Legit(r), NEW t \in DOMAIN r
    PROVE  /\ TeamsOf(r, r[t].division) # {}
           /\ ConferenceOf(r, r[t].division) = r[t].conference
<1>1. t \in TeamsOf(r, r[t].division)
  BY DEF TeamsOf
<1>2. PICK u \in TeamsOf(r, r[t].division) :
        u = (CHOOSE x \in TeamsOf(r, r[t].division) : TRUE)
  BY <1>1
<1>3. u \in DOMAIN r /\ r[u].division = r[t].division
  BY DEF TeamsOf
<1> QED
  BY <1>1, <1>2, <1>3, RosterFacts DEF ConferenceOf

(* What a form makes of the boxes: the lists are forms, each of teams of   *)
(* its own division.                                                       *)
LEMMA SubmissionOfBoxes ==
    ASSUME NEW p, Legit(p.teams), p.checked \subseteq DOMAIN p.teams
    PROVE  /\ Submission(p) \in Forms
           /\ \A d \in Division :
                /\ Submission(p)[d] = CheckedIn(p.teams, p.checked, d)
                /\ Submission(p)[d] \subseteq TeamsOf(p.teams, d)
BY RosterFacts DEF Submission, CheckedIn, Forms, TeamsOf

(* The server's sum over a conference's divisions is the script's count of *)
(* the boxes checked in the conference.                                    *)
LEMMA TotalsAreBoxes ==
    ASSUME NEW r, Legit(r), NEW checked \in SUBSET DOMAIN r, NEW f \in Forms,
           \A d \in Division : f[d] = CheckedIn(r, checked, d), NEW c
    PROVE  ConferenceTotal(r, f, c) = Cardinality(CheckedOf(r, checked, c))
<1> DEFINE Boxes == CheckedOf(r, checked, c)
           Pairs == {e \in Division \X Team : /\ TeamsOf(r, e[1]) # {}
                                              /\ ConferenceOf(r, e[1]) = c
                                              /\ e[2] \in f[e[1]]}
           pair == [t \in Boxes |-> <<r[t].division, t>>]
<1>1. \A t \in Boxes : pair[t] \in Pairs
  <2> SUFFICES ASSUME NEW t \in Boxes PROVE <<r[t].division, t>> \in Pairs
    OBVIOUS
  <2>1. t \in checked /\ t \in DOMAIN r /\ r[t].conference = c
    BY DEF CheckedOf
  <2>2. t \in Team /\ r[t].division \in Division
    BY <2>1, RosterFacts DEF Place
  <2>3. t \in f[r[t].division]
    BY <2>1, <2>2 DEF CheckedIn
  <2> QED
    BY <2>1, <2>2, <2>3, ConferenceOfTeam
<1>2. \A e \in Pairs : \E t \in Boxes : pair[t] = e
  <2> SUFFICES ASSUME NEW e \in Pairs PROVE \E t \in Boxes : pair[t] = e
    OBVIOUS
  <2>1. /\ e = <<e[1], e[2]>> /\ e[1] \in Division /\ e[2] \in f[e[1]]
        /\ ConferenceOf(r, e[1]) = c
    OBVIOUS
  <2>2. e[2] \in checked /\ e[2] \in DOMAIN r /\ r[e[2]].division = e[1]
    BY <2>1 DEF CheckedIn
  <2>3. e[2] \in Boxes
    BY <2>1, <2>2, ConferenceOfTeam DEF CheckedOf
  <2> QED
    BY <2>1, <2>2, <2>3
<1>3. pair \in Bijection(Boxes, Pairs)
  BY <1>1, <1>2 DEF Bijection, Injection, Surjection, IsInjective
<1>4. IsFiniteSet(Boxes)
  BY RosterFacts, TeamsFinite DEF CheckedOf
<1>5. Cardinality(Pairs) = Cardinality(Boxes)
  BY <1>3, <1>4, FS_Bijection DEF ExistsBijection
<1> QED
  BY <1>5 DEF ConferenceTotal

(***************************************************************************)
(* The inductive invariant                                                 *)
(***************************************************************************)

(* What DivisionsIInv says of a page.                                      *)
PageOK(p) ==
    /\ p.script \in BOOLEAN /\ p.submit \in BOOLEAN
    /\ Legit(p.teams)
    /\ p.checked \subseteq DOMAIN p.teams
    /\ p = [script |-> p.script, teams |-> p.teams, checked |-> p.checked,
            submit |-> p.submit]
    /\ p.script => /\ WithinCap(Submission(p))
                   /\ p.submit = AllValid(p.teams, p.checked)

LEMMA DivisionsPartsOfIInv ==
    DivisionsIInv <=>
      /\ roster \in Rosters /\ lists \in Forms /\ WithinCap(lists)
      /\ PageOK(divisionsPage)
      /\ divisionsAt \in {"away", "editing", "posted"}
BY DEF DivisionsIInv, DivisionsTypeOK, PageOK, Legit

(* A page rendered from lists within the cap, whatever roster they were    *)
(* picked from.                                                            *)
LEMMA RenderedOK ==
    ASSUME NEW r \in Rosters, NEW f \in Forms, NEW script \in BOOLEAN,
           script => WithinCap(f)
    PROVE  PageOK(Rendered(r, f, script))
<1> DEFINE p == Rendered(r, f, script)
<1>1. /\ p.script = script /\ p.teams = r /\ p.checked = Selected(r, f)
      /\ p.submit = AllValid(r, Selected(r, f))
      /\ p = [script |-> p.script, teams |-> p.teams, checked |-> p.checked,
              submit |-> p.submit]
  BY DEF Rendered
<1>2. Selected(r, f) \subseteq DOMAIN r
  BY DEF Selected
<1>3. AllValid(r, Selected(r, f)) \in BOOLEAN
  BY DEF AllValid
<1>4. ASSUME script PROVE WithinCap(Submission(p))
  <2> SUFFICES ASSUME NEW d \in Division
               PROVE  Cardinality(Submission(p)[d]) <= MaxTeamsPerDivision
    BY DEF WithinCap
  <2>1. Submission(p)[d] = CheckedIn(r, Selected(r, f), d)
    BY <1>1 DEF Submission
  <2>2. CheckedIn(r, Selected(r, f), d) \subseteq f[d] /\ f[d] \in SUBSET Team
    BY DEF CheckedIn, Selected, Forms
  <2>3. Cardinality(f[d]) <= MaxTeamsPerDivision
    BY <1>4 DEF WithinCap
  <2> HIDE DEF p
  <2>4. /\ Cardinality(Submission(p)[d]) <= Cardinality(f[d])
        /\ Cardinality(Submission(p)[d]) \in Nat /\ Cardinality(f[d]) \in Nat
    BY <2>1, <2>2, PartNoLarger, TeamsFinite
  <2> QED
    BY <2>3, <2>4, RosterAssumption
<1> HIDE DEF p
<1>5. PageOK(p)
  BY <1>1, <1>2, <1>3, <1>4 DEF PageOK, Legit
<1> QED
  BY <1>5 DEF p

(* Checking a box that is not capped keeps within the cap; unchecking one  *)
(* certainly does.                                                         *)
LEMMA FlippedWithinCap ==
    ASSUME NEW p, PageOK(p), WithinCap(Submission(p)),
           NEW t \in DOMAIN p.teams, t \notin p.checked => ~Capped(p, t),
           NEW d \in Division
    PROVE  Cardinality(CheckedIn(p.teams, Flipped(p.checked, t), d))
             <= MaxTeamsPerDivision
<1> DEFINE before == CheckedIn(p.teams, p.checked, d)
           after == CheckedIn(p.teams, Flipped(p.checked, t), d)
<1>1. before \in SUBSET Team
  BY RosterFacts DEF PageOK, CheckedIn
<1>2. IsFiniteSet(before) /\ Cardinality(before) \in Nat
  BY <1>1, TeamsFinite
<1>3. Cardinality(before) <= MaxTeamsPerDivision
  BY DEF WithinCap, Submission
<1>4. CASE t \in p.checked \/ p.teams[t].division # d
  <2>1. after \subseteq before
    BY <1>4 DEF CheckedIn, Flipped
  <2>2. Cardinality(after) <= Cardinality(before) /\ Cardinality(after) \in Nat
    BY <1>1, <2>1, PartNoLarger, TeamsFinite
  <2> QED
    BY <1>2, <1>3, <2>2, RosterAssumption
<1>5. CASE t \notin p.checked /\ p.teams[t].division = d
  <2>1. Cardinality(before) < MaxTeamsPerDivision
    BY <1>2, <1>5, RosterAssumption DEF Capped
  <2>2. after = before \cup {t} /\ t \notin before
    BY <1>5 DEF CheckedIn, Flipped
  <2>3. Cardinality(after) = Cardinality(before) + 1
    BY <1>2, <2>2, FS_AddElement
  <2> QED
    BY <1>2, <2>1, <2>3, RosterAssumption
<1> QED
  BY <1>4, <1>5

LEMMA DivisionsInitOK == DivisionsInit => DivisionsIInv
<1> SUFFICES ASSUME DivisionsInit PROVE DivisionsIInv
  OBVIOUS
<1>1. lists \in Forms /\ WithinCap(lists)
  BY FS_EmptySet, RosterAssumption DEF DivisionsInit, Forms, WithinCap
<1>2. PageOK(NoPage)
  BY DEF PageOK, NoPage, Legit
<1> QED
  BY <1>1, <1>2, DivisionsPartsOfIInv DEF DivisionsInit

LEMMA ToggleOK ==
    ASSUME DivisionsIInv, NEW t \in Team, Toggle(t)
    PROVE  PageOK(divisionsPage')
<1> DEFINE p == divisionsPage
           q == divisionsPage'
           checked == Flipped(p.checked, t)
<1>1. PageOK(p) /\ t \in DOMAIN p.teams
  BY DivisionsPartsOfIInv DEF Toggle
<1>2. /\ q.script = p.script /\ q.teams = p.teams /\ q.checked = checked
      /\ q.submit = IF p.script THEN AllValid(p.teams, checked) ELSE p.submit
      /\ q = [script |-> q.script, teams |-> q.teams, checked |-> q.checked,
              submit |-> q.submit]
  BY <1>1 DEF Toggle, PageOK
<1>3. checked \subseteq DOMAIN p.teams
  BY <1>1 DEF Flipped, PageOK
<1>4. AllValid(p.teams, checked) \in BOOLEAN
  BY DEF AllValid
<1>5. ASSUME p.script PROVE WithinCap(Submission(q))
  <2>1. t \notin p.checked => ~Capped(p, t)
    BY <1>5 DEF Toggle
  <2>2. WithinCap(Submission(p))
    BY <1>1, <1>5 DEF PageOK
  <2>3. \A d \in Division :
          Cardinality(CheckedIn(p.teams, checked, d)) <= MaxTeamsPerDivision
    BY <1>1, <2>1, <2>2, FlippedWithinCap
  <2> QED
    BY <1>2, <2>3 DEF WithinCap, Submission
<1> HIDE DEF checked
<1> QED
  BY <1>1, <1>2, <1>3, <1>4, <1>5 DEF PageOK

LEMMA DivisionsStepOK ==
    ASSUME DivisionsIInv, [DivisionsNext]_divisionsVars
    PROVE  DivisionsIInv'
<1> USE DivisionsPartsOfIInv
<1> DivisionsIInv' <=>
      /\ roster' \in Rosters /\ lists' \in Forms /\ WithinCap(lists')
      /\ PageOK(divisionsPage')
      /\ divisionsAt' \in {"away", "editing", "posted"}
  BY DEF DivisionsIInv, DivisionsTypeOK, PageOK, Legit
<1>1. CASE OpenDivisions
  BY <1>1, RenderedOK DEF OpenDivisions
<1>2. ASSUME NEW t \in Team, Toggle(t) PROVE DivisionsIInv'
  BY <1>2, ToggleOK DEF Toggle
<1>3. CASE PostDivisions
  BY <1>3 DEF PostDivisions
<1>4. CASE SaveDivisions
  <2>1. lists' \in Forms /\ WithinCap(lists')
    <3>1. Submission(divisionsPage) \in Forms
      BY SubmissionOfBoxes DEF PageOK
    <3>2. \A d \in Division : Submission(divisionsPage)[d] \in SUBSET Team
      BY <3>1 DEF Forms
    <3>3. \A d \in Division : Cardinality(Submission(divisionsPage)[d]) \in Nat
      BY <3>2, TeamsFinite
    <3> QED
      BY <1>4, <3>1, <3>3, RosterAssumption
      DEF SaveDivisions, Accepts, CountsExceedCap, WithinCap
  <2>2. PageOK(NoPage)
    BY DEF PageOK, NoPage, Legit
  <2> QED
    BY <1>4, <2>1, <2>2 DEF SaveDivisions
<1>5. CASE DivisionsSaveFails
  <2>1. PageOK(NoPage)
    BY DEF PageOK, NoPage, Legit
  <2> QED
    BY <1>5, <2>1 DEF DivisionsSaveFails
<1>6. CASE RejectDivisions \/ RejectWinners
  <2>1. ShowDivisionsAgain
    BY <1>6 DEF RejectDivisions, RejectWinners
  <2>2. Submission(divisionsPage) \in Forms
    BY SubmissionOfBoxes DEF PageOK
  <2>3. PageOK(divisionsPage')
    BY <2>1, <2>2, RenderedOK DEF ShowDivisionsAgain, PageOK
  <2> QED
    BY <2>1, <2>3 DEF ShowDivisionsAgain
<1>7. ASSUME NEW r \in Rosters, EditTeams(r) PROVE DivisionsIInv'
  BY <1>7 DEF EditTeams
<1>8. CASE UNCHANGED divisionsVars
  BY <1>8 DEF divisionsVars
<1> QED
  BY <1>1, <1>2, <1>3, <1>4, <1>5, <1>6, <1>7, <1>8 DEF DivisionsNext

(* The invariant of every behaviour of the divisions sheet, between a page *)
(* with or without the script, a player at the boxes, a server that counts *)
(* again and an operator who edits the teams.                              *)
THEOREM DivisionsInvariant == DivisionsSpec => []DivisionsIInv
BY DivisionsInitOK, DivisionsStepOK, PTL DEF DivisionsSpec

(***************************************************************************)
(* Page and server                                                         *)
(***************************************************************************)

LEMMA AgreementFromIInv == DivisionsIInv => PageMatchesServer
<1> SUFFICES ASSUME DivisionsIInv, divisionsPage.script,
                    divisionsPage.teams = roster, DOMAIN roster # {}
             PROVE  divisionsPage.submit <=> Accepts(roster, Submission(divisionsPage))
  BY DEF PageMatchesServer
<1> DEFINE f == Submission(divisionsPage)
           checked == divisionsPage.checked
<1>1. /\ PageOK(divisionsPage) /\ Legit(roster) /\ checked \subseteq DOMAIN roster
      /\ WithinCap(f) /\ divisionsPage.submit = AllValid(roster, checked)
  BY DivisionsPartsOfIInv DEF PageOK
<1>2. /\ f \in Forms
      /\ \A d \in Division : f[d] = CheckedIn(roster, checked, d)
      /\ \A d \in Division : f[d] \subseteq TeamsOf(roster, d)
  BY <1>1, SubmissionOfBoxes
<1>3. ~HasInvalidPlayoffTeam(roster, f)
  BY <1>2 DEF HasInvalidPlayoffTeam
<1>4. ~CountsExceedCap(f)
  <2>1. \A d \in Division : f[d] \in SUBSET Team
    BY <1>2 DEF Forms
  <2>2. \A d \in Division : Cardinality(f[d]) \in Nat
    BY <2>1, TeamsFinite
  <2> HIDE DEF f
  <2> QED
    BY <1>1, <2>2, RosterAssumption DEF WithinCap, CountsExceedCap
<1>5. \A c \in Conferences(roster) :
        ConferenceTotal(roster, f, c) = Cardinality(CheckedOf(roster, checked, c))
  <2> HIDE DEF f, checked
  <2> QED
    BY <1>1, <1>2, TotalsAreBoxes
<1>6. Conferences(roster) # {}
  BY DEF Conferences
<1> HIDE DEF f, checked
<1>7. Accepts(roster, f) <=> AllValid(roster, checked)
  BY <1>3, <1>4, <1>5, <1>6 DEF Accepts, ConferenceTotalsValid, AllValid
<1> QED
  BY <1>1, <1>7 DEF f

(* The submit button of a page with the script is enabled exactly when the *)
(* server would accept the form, if the teams are the same.                *)
THEOREM PageAgrees == DivisionsSpec => []PageMatchesServer
BY DivisionsInvariant, AgreementFromIInv, PTL

(***************************************************************************)
(* What gets on file                                                       *)
(***************************************************************************)

LEMMA AcceptedIsLegal ==
    ASSUME NEW r \in Rosters, NEW f \in Forms, Accepts(r, f)
    PROVE  Legal(r, f)
<1> DEFINE picked == UNION {f[d] : d \in Division}
<1>0. Legit(r)
  BY DEF Legit
<1>1. \A d \in Division : f[d] \subseteq TeamsOf(r, d)
  BY DEF Accepts, HasInvalidPlayoffTeam
<1>2. picked \subseteq DOMAIN r
  BY <1>1 DEF TeamsOf
<1>3. \A d \in Division : f[d] = CheckedIn(r, picked, d)
  BY <1>1 DEF TeamsOf, CheckedIn
<1>4. WithinCap(f)
  <2>1. \A d \in Division : f[d] \in SUBSET Team
    BY DEF Forms
  <2>2. \A d \in Division : Cardinality(f[d]) \in Nat
    BY <2>1, TeamsFinite
  <2> QED
    BY <2>2, RosterAssumption DEF Accepts, CountsExceedCap, WithinCap
<1>5. \A c : ConferenceTotal(r, f, c) = Cardinality(CheckedOf(r, picked, c))
  <2> HIDE DEF picked
  <2> QED
    BY <1>0, <1>2, <1>3, TotalsAreBoxes
<1>6. AllValid(r, picked)
  <2> HIDE DEF picked
  <2> QED
    BY <1>5 DEF Accepts, ConferenceTotalsValid, AllValid
<1> QED
  BY <1>2, <1>3, <1>4, <1>6 DEF Legal, CheckedIn

LEMMA StepLegal ==
    ASSUME DivisionsIInv, [DivisionsNext]_divisionsVars
    PROVE  lists' # lists => Legal(roster, lists')
<1> SUFFICES ASSUME lists' # lists PROVE Legal(roster, lists')
  OBVIOUS
<1>1. SaveDivisions
  BY DEF DivisionsNext, divisionsVars, OpenDivisions, Toggle, PostDivisions,
         DivisionsSaveFails, RejectDivisions, RejectWinners, ShowDivisionsAgain,
         EditTeams
<1>2. Submission(divisionsPage) \in Forms
  BY DivisionsPartsOfIInv, SubmissionOfBoxes DEF PageOK
<1> QED
  BY <1>1, <1>2, AcceptedIsLegal, DivisionsPartsOfIInv DEF SaveDivisions

(* No form, from whatever page, puts lists on file that the rules forbid.  *)
THEOREM SavedListsAreLegal == DivisionsSpec => ListsLegalWhenSaved
<1>1. DivisionsIInv /\ [DivisionsNext]_divisionsVars =>
        [lists' # lists => Legal(roster, lists')]_divisionsVars
  BY StepLegal
<1> QED
  BY <1>1, DivisionsInvariant, PTL DEF DivisionsSpec, ListsLegalWhenSaved

(***************************************************************************)
(* A way on                                                                *)
(***************************************************************************)

(* A set that is no larger than another maps into it one to one.           *)
LEMMA NoLargerMaps ==
    ASSUME NEW S, NEW T, IsFiniteSet(S), IsFiniteSet(T),
           Cardinality(S) <= Cardinality(T)
    PROVE  \E g \in [S -> T] : \A x, y \in S : g[x] = g[y] => x = y
<1> DEFINE m == Cardinality(S)
           n == Cardinality(T)
<1>1. m \in Nat /\ n \in Nat /\ m <= n
  BY FS_CardinalityType
<1>2. PICK a \in [1..m -> S] : \A x \in S : \E i \in 1..m : a[i] = x
  BY FS_CardinalityType DEF ExistsBijection, Bijection, Injection, Surjection
<1>3. PICK b \in [1..n -> T] : \A i, j \in 1..n : b[i] = b[j] => i = j
  <2>1. PICK b \in Injection(1..n, T) : TRUE
    BY FS_CardinalityType DEF ExistsBijection, Bijection
  <2> QED BY <2>1 DEF Injection, IsInjective
<1> HIDE DEF m, n
<1> DEFINE at(x) == CHOOSE i \in 1..m : a[i] = x
           g == [x \in S |-> b[at(x)]]
<1>4. \A x \in S : at(x) \in 1..m /\ a[at(x)] = x
  BY <1>2
<1> HIDE DEF at
<1>5. \A i \in 1..m : i \in 1..n
  BY <1>1
<1>6. g \in [S -> T]
  BY <1>3, <1>4, <1>5
<1>7. \A x, y \in S : g[x] = g[y] => x = y
  BY <1>3, <1>4, <1>5
<1> HIDE DEF g
<1> QED BY <1>6, <1>7

(* A choice that has no more teams than another in each division has no    *)
(* more in all: map it into the other division by division.                *)
LEMMA NoMoreInAll ==
    ASSUME NEW r, Legit(r), NEW P \in SUBSET DOMAIN r, NEW K \in SUBSET DOMAIN r,
           \A d \in Division :
              Cardinality(CheckedIn(r, P, d)) <= Cardinality(CheckedIn(r, K, d))
    PROVE  Cardinality(P) <= Cardinality(K)
<1>1. P \in SUBSET Team /\ K \in SUBSET Team
  BY RosterFacts
<1>2. \A t \in DOMAIN r : r[t].division \in Division
  BY RosterFacts DEF Place
<1> DEFINE in(d) == CheckedIn(r, P, d)
           into(d) == CheckedIn(r, K, d)
           g(d) == CHOOSE h \in [in(d) -> into(d)] :
                      \A x, y \in in(d) : h[x] = h[y] => x = y
           f == [t \in P |-> g(r[t].division)[t]]
<1>3. \A d : in(d) \subseteq P /\ into(d) \subseteq K
  BY DEF CheckedIn
<1>4. ASSUME NEW d \in Division
      PROVE  /\ g(d) \in [in(d) -> into(d)]
             /\ \A x, y \in in(d) : g(d)[x] = g(d)[y] => x = y
  <2>1. IsFiniteSet(in(d)) /\ IsFiniteSet(into(d))
    BY <1>1, <1>3, TeamsFinite
  <2>2. Cardinality(in(d)) <= Cardinality(into(d))
    OBVIOUS
  <2> HIDE DEF in, into
  <2>3. \E h \in [in(d) -> into(d)] : \A x, y \in in(d) : h[x] = h[y] => x = y
    BY <2>1, <2>2, NoLargerMaps
  <2> QED BY <2>3
<1>5. \A t \in P : r[t].division \in Division /\ t \in in(r[t].division)
  BY <1>2 DEF CheckedIn
<1>6. \A d : \A t \in into(d) : t \in K /\ r[t].division = d
  BY DEF CheckedIn
<1> HIDE DEF in, into, g
<1>7. \A t \in P : f[t] \in into(r[t].division)
  BY <1>4, <1>5
<1>8. \A x, y \in P : f[x] = f[y] => x = y
  <2> SUFFICES ASSUME NEW x \in P, NEW y \in P, f[x] = f[y] PROVE x = y
    OBVIOUS
  <2>1. r[x].division = r[y].division
    BY <1>6, <1>7
  <2>2. g(r[x].division)[x] = g(r[x].division)[y]
    BY <2>1
  <2> QED BY <1>4, <1>5, <2>1, <2>2
<1>9. f \in [P -> K]
  BY <1>6, <1>7
<1> HIDE DEF f
<1>10. f \in Injection(P, K)
  BY <1>8, <1>9 DEF Injection, IsInjective
<1>11. IsFiniteSet(K)
  BY <1>1, TeamsFinite
<1> QED BY <1>10, <1>11, FS_Injection

LEMMA WayOnFromIInv == DivisionsIInv => NoDeadEnd
<1> SUFFICES ASSUME DivisionsIInv, divisionsPage.script, Fillable(divisionsPage.teams),
                    NEW c \in Conferences(divisionsPage.teams),
                    Cardinality(CheckedOf(divisionsPage.teams, divisionsPage.checked, c))
                        < RequiredPerConference
             PROVE  \E t \in DOMAIN divisionsPage.teams \ divisionsPage.checked :
                       divisionsPage.teams[t].conference = c /\ ~Capped(divisionsPage, t)
  BY DEF NoDeadEnd
<1> DEFINE r == divisionsPage.teams
           checked == divisionsPage.checked
<1>1. PageOK(divisionsPage) /\ Legit(r) /\ checked \in SUBSET DOMAIN r
  BY DivisionsPartsOfIInv DEF PageOK
<1>2. PICK picked \in SUBSET DOMAIN r :
        Legal(r, [d \in Division |-> CheckedIn(r, picked, d)])
  BY DEF Fillable
<1>3. \A t \in DOMAIN r : t \in Team /\ r[t].division \in Division
  BY <1>1, RosterFacts DEF Place
<1> DEFINE K == CheckedOf(r, checked, c)
           P == CheckedOf(r, picked, c)
<1>4. Cardinality(P) = RequiredPerConference
  <2> DEFINE f == [d \in Division |-> CheckedIn(r, picked, d)]
  <2>1. UNION {f[d] : d \in Division} = picked
    BY <1>2, <1>3 DEF CheckedIn
  <2>2. AllValid(r, UNION {f[d] : d \in Division})
    BY <1>2 DEF Legal
  <2> QED BY <2>1, <2>2 DEF AllValid
<1>5. \A d \in Division : Cardinality(CheckedIn(r, picked, d)) <= MaxTeamsPerDivision
  BY <1>2 DEF Legal, WithinCap
<1> HIDE DEF r, checked
<1>6. P \in SUBSET DOMAIN r /\ K \in SUBSET DOMAIN r
  BY <1>1, <1>2 DEF CheckedOf
<1>7. ASSUME \A t \in DOMAIN r \ checked : r[t].conference = c => Capped(divisionsPage, t),
             NEW d \in Division
      PROVE  Cardinality(CheckedIn(r, P, d)) <= Cardinality(CheckedIn(r, K, d))
  <2>1. CheckedIn(r, P, d) \in SUBSET Team /\ CheckedIn(r, K, d) \in SUBSET Team
        /\ CheckedIn(r, picked, d) \in SUBSET Team
    BY <1>2, <1>3, <1>6 DEF CheckedIn
  <2>2. /\ Cardinality(CheckedIn(r, P, d)) \in Nat
        /\ Cardinality(CheckedIn(r, K, d)) \in Nat
        /\ Cardinality(CheckedIn(r, picked, d)) \in Nat
    BY <2>1, TeamsFinite
  <2>3. CASE CheckedIn(r, P, d) \subseteq checked
    <3>1. CheckedIn(r, P, d) \subseteq CheckedIn(r, K, d)
      BY <2>3 DEF CheckedIn, CheckedOf
    <3> QED BY <2>1, <3>1, PartNoLarger
  <2>4. ASSUME NEW t \in CheckedIn(r, P, d), t \notin checked
        PROVE  Cardinality(CheckedIn(r, P, d)) <= Cardinality(CheckedIn(r, K, d))
    <3>1. t \in DOMAIN r /\ r[t].division = d /\ r[t].conference = c
      BY <1>6 DEF CheckedIn, CheckedOf
    <3>2. Capped(divisionsPage, t)
      BY <1>7, <2>4, <3>1
    <3>3. Cardinality(K) \in Nat /\ Cardinality(K) < RequiredPerConference
      <4>1. K \in SUBSET Team
        BY <1>3, <1>6
      <4> QED BY <4>1, TeamsFinite DEF r, checked
    <3>4. Cardinality(CheckedIn(r, checked, d)) >= MaxTeamsPerDivision
      BY <3>1, <3>2, <3>3, RosterAssumption DEF Capped, r, checked
    <3>5. CheckedIn(r, checked, d) = CheckedIn(r, K, d)
      BY <1>1, <3>1, RosterFacts DEF CheckedIn, CheckedOf
    <3>6. Cardinality(CheckedIn(r, P, d)) <= Cardinality(CheckedIn(r, picked, d))
      <4>1. CheckedIn(r, P, d) \subseteq CheckedIn(r, picked, d)
        BY DEF CheckedIn, CheckedOf
      <4> QED BY <2>1, <4>1, PartNoLarger
    <3> QED BY <1>5, <2>2, <3>4, <3>5, <3>6, RosterAssumption
  <2> QED BY <2>3, <2>4
<1>8. Cardinality(K) < RequiredPerConference
  BY DEF r, checked
<1>9. Cardinality(K) \in Nat
  <2>1. K \in SUBSET Team
    BY <1>3, <1>6
  <2> QED BY <2>1, TeamsFinite
<1> HIDE DEF P, K
<1>10. ~(\A t \in DOMAIN r \ checked : r[t].conference = c => Capped(divisionsPage, t))
  <2> SUFFICES ASSUME \A t \in DOMAIN r \ checked :
                         r[t].conference = c => Capped(divisionsPage, t)
               PROVE  FALSE
    OBVIOUS
  <2>1. Cardinality(P) <= Cardinality(K)
    BY <1>1, <1>6, <1>7, NoMoreInAll
  <2> QED BY <1>4, <1>8, <1>9, <2>1, RosterAssumption
<1> QED BY <1>10 DEF r, checked

(* Whatever boxes the player checked before, the script leaves a box open  *)
(* in a conference that lacks teams, as long as the teams can be picked by *)
(* the rules at all.                                                       *)
THEOREM AlwaysAWayOn == DivisionsSpec => []NoDeadEnd
BY DivisionsInvariant, WayOnFromIInv, PTL

(***************************************************************************)
(* The awards page                                                         *)
(***************************************************************************)

(***************************************************************************)
(* Valid finalists and the slots of a page                                 *)
(***************************************************************************)

(* Only a player has a valid slug, never an empty field.                   *)
LEMMA ValidIsPlayer ==
    ASSUME NEW l \in PlayerLists, NEW a \in Award, NEW s,
           IsValidAwardFinalist(l, a, s)
    PROVE  s \in Slug /\ s # Empty
BY AwardsAssumption DEF IsValidAwardFinalist

LEMMA SavedSlotsOK ==
    ASSUME AwardsTypeOK, NEW a \in Award
    PROVE  /\ SavedSlots(a) \in [Slot -> SlotEntry]
           /\ \A i \in Slot : SavedSlots(a)[i].slug = SavedSlots(a)[i].text
<1>1. \A i \in Slot :
        LET entry == IF picks[a] = NoPick THEN EmptySlot
                     ELSE [text |-> picks[a][i], slug |-> picks[a][i]]
        IN  entry \in SlotEntry /\ entry.slug = entry.text
  BY DEF AwardsTypeOK, EmptySlot, SlotEntry, Text
<1> QED
  BY <1>1 DEF SavedSlots

(* Under the script the slugs of some slots follow their texts.            *)
Coupled(page) ==
    page.script => \A a \in Award, i \in Slot :
                     page.slots[a][i].slug \in {Empty, page.slots[a][i].text}

Pages == [script : BOOLEAN, options : PlayerLists \cup {NoPlayers},
          slots : [Award -> [Slot -> SlotEntry]]]

(* A page with one slot replaced by a well-formed one.                     *)
LEMMA SlotReplaced ==
    ASSUME NEW page \in Pages, Coupled(page),
           NEW a \in Award, NEW i \in Slot, NEW entry \in SlotEntry,
           page.script => entry.slug \in {Empty, entry.text}
    PROVE  /\ [page EXCEPT !.slots[a][i] = entry] \in Pages
           /\ Coupled([page EXCEPT !.slots[a][i] = entry])
<1> DEFINE new == [page EXCEPT !.slots[a][i] = entry]
<1>1. /\ new.script = page.script /\ new.options = page.options
      /\ new = [script |-> page.script, options |-> page.options,
                slots |-> new.slots]
  BY DEF Pages
<1>2. new.slots = [page.slots EXCEPT ![a] = [page.slots[a] EXCEPT ![i] = entry]]
  BY DEF Pages
<1>3. page.slots \in [Award -> [Slot -> SlotEntry]]
  BY DEF Pages
<1>4. new.slots \in [Award -> [Slot -> SlotEntry]]
  BY <1>2, <1>3
<1>5. \A b \in Award, j \in Slot :
        new.slots[b][j] = IF b = a /\ j = i THEN entry ELSE page.slots[b][j]
  BY <1>2, <1>3
<1> HIDE DEF new
<1>6. new \in Pages
  BY <1>1, <1>4 DEF Pages
<1>7. Coupled(new)
  BY <1>1, <1>5 DEF Coupled
<1> QED
  BY <1>6, <1>7 DEF new

LEMMA NoFormOK == NoForm \in Pages /\ Coupled(NoForm)
<1>1. NoSlots \in [Award -> [Slot -> SlotEntry]]
  BY DEF NoSlots, EmptySlot, SlotEntry, Text
<1> QED
  BY <1>1 DEF NoForm, Pages, Coupled

(* The page shown again: the same slots over today's players.              *)
LEMMA ShownAgainOK ==
    ASSUME NEW page \in Pages, Coupled(page), NEW l \in PlayerLists
    PROVE  /\ [page EXCEPT !.options = l] \in Pages
           /\ Coupled([page EXCEPT !.options = l])
<1>1. [page EXCEPT !.options = l] =
        [script |-> page.script, options |-> l, slots |-> page.slots]
  BY DEF Pages
<1> QED
  BY <1>1 DEF Pages, Coupled

(***************************************************************************)
(* The invariant                                                           *)
(***************************************************************************)

LEMMA AwardsPartsOfIInv ==
    AwardsIInv <=> /\ players \in PlayerLists
                   /\ picks \in [Award -> [Slot -> Slug] \cup {NoPick}]
                   /\ awardsPage \in Pages
                   /\ awardsAt \in {"away", "editing", "posted"}
                   /\ awardsAnswer \in {"none", "invalid", "incomplete", "saved", "failed"}
                   /\ awardsAt = "posted" => awardsAnswer = "none"
                   /\ Coupled(awardsPage)
BY DEF AwardsIInv, AwardsTypeOK, Pages, Coupled

LEMMA AwardsInitOK == AwardsInit => AwardsIInv
BY NoFormOK, AwardsPartsOfIInv DEF AwardsInit

LEMMA OpenOK ==
    ASSUME AwardsIInv, OpenAwards
    PROVE  awardsPage' \in Pages /\ Coupled(awardsPage')
<1>1. PICK script \in BOOLEAN :
        awardsPage' = [script |-> script, options |-> players,
                       slots |-> [a \in Award |-> SavedSlots(a)]]
  BY DEF OpenAwards
<1>2. AwardsTypeOK /\ players \in PlayerLists
  BY DEF AwardsIInv, AwardsTypeOK
<1>3. [a \in Award |-> SavedSlots(a)] \in [Award -> [Slot -> SlotEntry]]
  BY <1>2, SavedSlotsOK
<1>4. \A a \in Award, i \in Slot :
        awardsPage'.slots[a][i].slug = awardsPage'.slots[a][i].text
  BY <1>1, <1>2, SavedSlotsOK
<1> QED
  BY <1>1, <1>2, <1>3, <1>4 DEF Pages, Coupled

(* What gets on file is a form's slugs, each of a known player.            *)
LEMMA SavedPicksOK ==
    ASSUME AwardsIInv, SaveAwards
    PROVE  picks' \in [Award -> [Slot -> Slug] \cup {NoPick}]
<1>1. \A a \in Award : ToSave(players, a, awardsPage.slots[a]) =>
                         SlugsOf(awardsPage.slots[a]) \in [Slot -> Slug]
  BY ValidIsPlayer DEF ToSave, SlugsOf, AwardsIInv, AwardsTypeOK
<1> QED
  BY <1>1 DEF SaveAwards, AwardsIInv, AwardsTypeOK

LEMMA AwardsStepOK ==
    ASSUME AwardsIInv, [AwardsNext]_awardsVars
    PROVE  AwardsIInv'
<1> USE AwardsPartsOfIInv
<1> AwardsIInv' <=>
      /\ players' \in PlayerLists
      /\ picks' \in [Award -> [Slot -> Slug] \cup {NoPick}]
      /\ awardsPage' \in Pages
      /\ awardsAt' \in {"away", "editing", "posted"}
      /\ awardsAnswer' \in {"none", "invalid", "incomplete", "saved", "failed"}
      /\ awardsAt' = "posted" => awardsAnswer' = "none"
      /\ Coupled(awardsPage')
  BY DEF AwardsIInv, AwardsTypeOK, Pages, Coupled
<1>1. CASE OpenAwards
  BY <1>1, OpenOK DEF OpenAwards
<1>2. ASSUME NEW a \in Award, NEW i \in Slot, NEW text \in Text,
             EditText(a, i, text)
      PROVE  AwardsIInv'
  <2> DEFINE entry == Edited(awardsPage, awardsPage.slots[a][i], text)
  <2>1. awardsPage.slots[a][i] \in SlotEntry
    BY DEF Pages
  <2>2. entry \in SlotEntry /\ (awardsPage.script => entry.slug = Empty)
    BY <2>1 DEF Edited, SlotEntry
  <2>3. awardsPage' = [awardsPage EXCEPT !.slots[a][i] = entry]
    BY <1>2 DEF EditText, Pages
  <2> HIDE DEF entry
  <2>4. awardsPage' \in Pages /\ Coupled(awardsPage')
    BY <2>2, <2>3, SlotReplaced
  <2> QED
    BY <1>2, <2>4 DEF EditText
<1>3. ASSUME NEW a \in Award, NEW i \in Slot, NEW s \in Slug,
             ChooseFinalist(a, i, s)
      PROVE  AwardsIInv'
  <2> DEFINE entry == [text |-> s, slug |-> s]
  <2>1. entry \in SlotEntry /\ entry.slug = entry.text
    BY DEF SlotEntry, Text
  <2>2. awardsPage' = [awardsPage EXCEPT !.slots[a][i] = entry]
    BY <1>3 DEF ChooseFinalist
  <2> HIDE DEF entry
  <2>3. awardsPage' \in Pages /\ Coupled(awardsPage')
    BY <2>1, <2>2, SlotReplaced
  <2> QED
    BY <1>3, <2>3 DEF ChooseFinalist
<1>4. CASE PostAwards
  BY <1>4 DEF PostAwards
<1>5. CASE RejectAwards
  BY <1>5, ShownAgainOK DEF RejectAwards, ShowAgain
<1>6. CASE SaveAwards
  <2>1. /\ awardsPage' \in Pages /\ Coupled(awardsPage')
        /\ awardsAt' \in {"away", "editing"}
        /\ awardsAnswer' \in {"saved", "incomplete"} /\ players' = players
    BY <1>6, ShownAgainOK, NoFormOK DEF SaveAwards, ShowAgain
  <2> QED
    BY <1>6, <2>1, SavedPicksOK
<1>7. CASE AwardsSaveFails
  BY <1>7, NoFormOK DEF AwardsSaveFails
<1>8. ASSUME NEW l \in PlayerLists, EditPlayers(l) PROVE AwardsIInv'
  BY <1>8 DEF EditPlayers
<1>9. CASE UNCHANGED awardsVars
  BY <1>9 DEF awardsVars
<1> QED
  BY <1>1, <1>2, <1>3, <1>4, <1>5, <1>6, <1>7, <1>8, <1>9 DEF AwardsNext, Text

(* The invariant of every behaviour of the awards sheet: under the script  *)
(* no slug is left behind by an edited name, through every answer, reload  *)
(* and restart.                                                            *)
THEOREM AwardsInvariant == AwardsSpec => []AwardsIInv
BY AwardsInitOK, AwardsStepOK, PTL DEF AwardsSpec

(***************************************************************************)
(* What gets on file                                                       *)
(***************************************************************************)

(* An award that is saved: different players of its position.              *)
LEMMA SavedAreFinalists ==
    ASSUME AwardsIInv, SaveAwards, NEW a \in Award,
           ToSave(players, a, awardsPage.slots[a])
    PROVE  Finalists(players, a, SlugsOf(awardsPage.slots[a]))
<1> DEFINE slots == awardsPage.slots[a]
<1>1. \A i \in Slot : IsValidAwardFinalist(players, a, slots[i].slug)
  BY DEF ToSave
<1>2. \A i \in Slot : slots[i].slug # Empty
  BY <1>1, ValidIsPlayer, AwardsPartsOfIInv
<1>3. \A i \in Slot : ~IsDuplicate(slots, i)
  BY DEF SaveAwards, HasInvalidSlot, SlotInvalid
<1>4. \A i, j \in Slot : i # j => slots[i].slug # slots[j].slug
  BY <1>2, <1>3 DEF IsDuplicate
<1> QED
  BY <1>1, <1>4 DEF Finalists, SlugsOf

(* With the script, an award is saved as shown or not at all.              *)
LEMMA SavedAsShown ==
    ASSUME AwardsIInv, SaveAwards, awardsPage.script, NEW a \in Award
    PROVE  IF \A i \in Slot : Shown(a)[i] # Empty
             THEN picks'[a] = Shown(a) ELSE picks'[a] = picks[a]
<1> DEFINE slots == awardsPage.slots[a]
<1>1. picks'[a] = IF ToSave(players, a, slots) THEN SlugsOf(slots) ELSE picks[a]
  BY DEF SaveAwards
<1>2. \A i \in Slot : slots[i].slug \in {Empty, slots[i].text}
  BY DEF AwardsIInv
<1>3. \A i \in Slot : Shown(a)[i] = slots[i].text
  BY DEF Shown
<1>4. players \in PlayerLists
  BY AwardsPartsOfIInv
<1>5. CASE \A i \in Slot : slots[i].text # Empty
  <2>1. \A i \in Slot : IsValidAwardFinalist(players, a, slots[i].slug)
    BY <1>5 DEF SaveAwards, HasInvalidSlot, SlotInvalid
  <2>2. \A i \in Slot : slots[i].slug = slots[i].text
    BY <1>2, <1>4, <2>1, ValidIsPlayer
  <2>3. SlugsOf(slots) = Shown(a)
    BY <2>2 DEF SlugsOf, Shown
  <2> QED
    BY <1>1, <1>3, <1>5, <2>1, <2>3 DEF ToSave
<1>6. CASE \E i \in Slot : slots[i].text = Empty
  <2>1. PICK i \in Slot : slots[i].text = Empty
    BY <1>6
  <2>2. ~IsValidAwardFinalist(players, a, slots[i].slug)
    BY <1>2, <1>4, <2>1, ValidIsPlayer
  <2> QED
    BY <1>1, <1>3, <2>1, <2>2 DEF ToSave
<1> QED
  BY <1>5, <1>6

(* Only a save changes picks, and only a save answers that it did.         *)
LEMMA AwardsOnlySaves ==
    ASSUME AwardsIInv, [AwardsNext]_awardsVars
    PROVE  /\ picks' # picks => SaveAwards
           /\ awardsAt = "posted" /\ awardsAnswer' \in {"saved", "incomplete"} =>
                SaveAwards
BY AwardsPartsOfIInv
   DEF AwardsNext, awardsVars, OpenAwards, EditText, ChooseFinalist, PostAwards,
       RejectAwards, AwardsSaveFails, EditPlayers

LEMMA StepSaved ==
    ASSUME AwardsIInv, [AwardsNext]_awardsVars
    PROVE  /\ \A a \in Award :
                picks'[a] # picks[a] => /\ awardsAt = "posted"
                                        /\ Finalists(players, a, picks'[a])
           /\ awardsAt = "posted" /\ awardsPage.script
                /\ awardsAnswer' \in {"saved", "incomplete"}
                => \A a \in Award :
                     IF \A i \in Slot : Shown(a)[i] # Empty
                       THEN picks'[a] = Shown(a) ELSE picks'[a] = picks[a]
<1>1. ASSUME NEW a \in Award, picks'[a] # picks[a]
      PROVE  awardsAt = "posted" /\ Finalists(players, a, picks'[a])
  <2>1. SaveAwards
    BY <1>1, AwardsOnlySaves
  <2>2. /\ awardsAt = "posted" /\ ToSave(players, a, awardsPage.slots[a])
        /\ picks'[a] = SlugsOf(awardsPage.slots[a])
    BY <1>1, <2>1 DEF SaveAwards
  <2> QED
    BY <2>1, <2>2, SavedAreFinalists
<1> QED
  BY <1>1, AwardsOnlySaves, SavedAsShown

(* From any page, what gets on file are finalists the server knows; from a *)
(* page with the script, exactly what the player read in the slots.        *)
THEOREM AwardsAreSavedAsShown == AwardsSpec => AwardsSavedAsShown
<1>1. AwardsIInv /\ [AwardsNext]_awardsVars =>
        [/\ \A a \in Award :
              picks'[a] # picks[a] => /\ awardsAt = "posted"
                                      /\ Finalists(players, a, picks'[a])
         /\ awardsAt = "posted" /\ awardsPage.script
              /\ awardsAnswer' \in {"saved", "incomplete"}
              => \A a \in Award :
                   IF \A i \in Slot : Shown(a)[i] # Empty
                     THEN picks'[a] = Shown(a) ELSE picks'[a] = picks[a]
        ]_awardsVars
  BY StepSaved
<1> QED
  BY <1>1, AwardsInvariant, PTL DEF AwardsSpec, AwardsSavedAsShown

(***************************************************************************)
(* The playoff series page                                                 *)
(***************************************************************************)

(***************************************************************************)
(* Forms and cards                                                         *)
(***************************************************************************)

CardType == [sides : SUBSET Side, side : Side \cup {Unset}, games : GameCount \cup {Unset}]

Cards(c) == DOMAIN c \subseteq Series /\ \A k \in DOMAIN c : c[k] \in CardType

LEMMA SeriesPartsOfIInv ==
    SeriesIInv <=> /\ matchups \in MatchupLists
                   /\ seriesPicks \in [Series -> SeriesPick \cup {NoSeriesPick}]
                   /\ Cards(cards)
                   /\ seriesAt \in {"away", "editing", "posted"}
                   /\ seriesAnswer \in {"none", "flagged", "saved", "failed"}
                   /\ seriesAt = "posted" => seriesAnswer = "none"
BY DEF SeriesIInv, SeriesTypeOK, Cards, CardType

LEMMA ListFacts ==
    ASSUME NEW l \in MatchupLists
    PROVE  /\ DOMAIN l \subseteq Series
           /\ \A k \in DOMAIN l : l[k] \in SUBSET Side
BY SeriesAssumption

(* A card over the sides of today, whatever was chosen before.             *)
LEMMA CardOK ==
    ASSUME NEW l \in MatchupLists, NEW k \in DOMAIN l, NEW chosen,
           chosen.games \in GameCount \cup {Unset}
    PROVE  Card(l, k, chosen) \in CardType
BY ListFacts DEF Card, CardType

(* What the form says of a series fits its buttons.                        *)
LEMMA FormFacts ==
    ASSUME SeriesIInv, NEW k \in Series
    PROVE  /\ FormOf(k).side \in Side \cup {Unset}
           /\ FormOf(k).games \in GameCount \cup {Unset}
           /\ FormOf(k) = [side |-> FormOf(k).side, games |-> FormOf(k).games]
           /\ ShowsPick(k) <=> FormOf(k).side # Unset /\ FormOf(k).games # Unset
           /\ ShowsPick(k) => /\ FormOf(k).side = cards[k].side
                              /\ FormOf(k).games = cards[k].games
<1>1. CASE k \in DOMAIN cards
  BY <1>1, SeriesPartsOfIInv DEF FormOf, Cards, CardType, ShowsPick
<1>2. CASE k \notin DOMAIN cards
  BY <1>2 DEF FormOf, BlankPick, ShowsPick
<1> QED
  BY <1>1, <1>2

(* A complete series shows a pick, of a team that plays in it.             *)
LEMMA CompleteFacts ==
    ASSUME SeriesIInv, NEW k \in DOMAIN matchups, IsComplete(k)
    PROVE  /\ k \in Series /\ FormOf(k) \in SeriesPick /\ ShowsPick(k)
           /\ FormOf(k).side \in matchups[k]
<1>1. k \in Series /\ matchups[k] \subseteq Side
  BY SeriesPartsOfIInv, ListFacts
<1>2. FormOf(k).side \in Side /\ FormOf(k).games \in GameCount
  BY <1>1 DEF IsComplete
<1>3. FormOf(k) \in SeriesPick
  BY <1>1, <1>2, FormFacts DEF SeriesPick
<1> QED
  BY <1>1, <1>2, <1>3, FormFacts, SeriesAssumption DEF IsComplete

(* What a walk over some complete series leaves on file.                   *)
LEMMA SavingOK ==
    ASSUME SeriesIInv, NEW done \in SUBSET CompleteSeries
    PROVE  /\ Saving(done) \in [Series -> SeriesPick \cup {NoSeriesPick}]
           /\ \A k \in Series :
                Saving(done)[k] # seriesPicks[k] =>
                  /\ ShowsPick(k) /\ k \in DOMAIN matchups
                  /\ Saving(done)[k].side \in matchups[k]
<1>1. \A k \in done : /\ k \in DOMAIN matchups /\ ShowsPick(k)
                      /\ FormOf(k) \in SeriesPick /\ FormOf(k).side \in matchups[k]
  BY CompleteFacts DEF CompleteSeries
<1> QED
  BY <1>1, SeriesPartsOfIInv DEF Saving

(***************************************************************************)
(* The invariant                                                           *)
(***************************************************************************)

LEMMA SeriesInitOK == SeriesInit => SeriesIInv
<1> SUFFICES ASSUME SeriesInit PROVE SeriesIInv
  OBVIOUS
<1>1. DOMAIN NoCards = {}
  BY DEF NoCards
<1> QED
  BY <1>1, SeriesPartsOfIInv DEF SeriesInit, Cards

LEMMA SeriesStepOK ==
    ASSUME SeriesIInv, [SeriesNext]_seriesVars
    PROVE  SeriesIInv'
<1> USE SeriesPartsOfIInv
<1> SeriesIInv' <=>
      /\ matchups' \in MatchupLists
      /\ seriesPicks' \in [Series -> SeriesPick \cup {NoSeriesPick}]
      /\ Cards(cards')
      /\ seriesAt' \in {"away", "editing", "posted"}
      /\ seriesAnswer' \in {"none", "flagged", "saved", "failed"}
      /\ seriesAt' = "posted" => seriesAnswer' = "none"
  BY DEF SeriesIInv, SeriesTypeOK, Cards, CardType
<1>a. Cards(NoCards)
  <2>1. DOMAIN NoCards = {}
    BY DEF NoCards
  <2> QED
    BY <2>1 DEF Cards
<1>b. DOMAIN matchups \subseteq Series
  BY ListFacts
<1>1. CASE OpenSeries
  <2>1. \A k \in DOMAIN matchups :
          /\ SavedPick(k).games \in GameCount \cup {Unset}
    BY <1>b DEF SavedPick, BlankPick, SeriesPick
  <2>2. \A k \in DOMAIN matchups : Card(matchups, k, SavedPick(k)) \in CardType
    BY <2>1, CardOK
  <2> QED
    BY <1>1, <1>b, <2>2 DEF OpenSeries, Cards
<1>2. ASSUME NEW k \in Series, NEW side \in Side, ChooseSide(k, side)
      PROVE  SeriesIInv'
  <2>1. \A j \in DOMAIN cards :
          [cards EXCEPT ![k].side = side][j] \in CardType
    BY <1>2 DEF Cards, CardType
  <2> QED
    BY <1>2, <2>1 DEF ChooseSide, Cards
<1>3. ASSUME NEW k \in Series, NEW games \in GameCount, ChooseGames(k, games)
      PROVE  SeriesIInv'
  <2>1. \A j \in DOMAIN cards :
          [cards EXCEPT ![k].games = games][j] \in CardType
    BY <1>3 DEF Cards, CardType
  <2> QED
    BY <1>3, <2>1 DEF ChooseGames, Cards
<1>4. CASE PostSeries
  BY <1>4 DEF PostSeries
<1>5. CASE SaveSeries
  BY <1>5, <1>a, SavingOK DEF SaveSeries
<1>6. CASE FlagSeries
  <2>1. \A k \in DOMAIN matchups : Card(matchups, k, FormOf(k)) \in CardType
    BY <1>b, FormFacts, CardOK
  <2> QED
    BY <1>6, <1>b, <2>1, SavingOK DEF FlagSeries, Cards
<1>7. CASE SeriesSaveFails
  BY <1>7, <1>a, SavingOK DEF SeriesSaveFails
<1>8. ASSUME NEW l \in MatchupLists, EditMatchups(l) PROVE SeriesIInv'
  BY <1>8 DEF EditMatchups
<1>9. CASE UNCHANGED seriesVars
  BY <1>9 DEF seriesVars
<1> QED
  BY <1>1, <1>2, <1>3, <1>4, <1>5, <1>6, <1>7, <1>8, <1>9 DEF SeriesNext

(* Type correctness of the series sheet, and no answer before its time,    *)
(* through every correction of the matchups.                               *)
THEOREM SeriesInvariant == SeriesSpec => []SeriesIInv
BY SeriesInitOK, SeriesStepOK, PTL DEF SeriesSpec

(***************************************************************************)
(* What gets on file                                                       *)
(***************************************************************************)

LEMMA SeriesOnlySaves ==
    ASSUME SeriesIInv, [SeriesNext]_seriesVars
    PROVE  /\ seriesPicks' # seriesPicks => SaveSeries \/ FlagSeries \/ SeriesSaveFails
           /\ seriesAt = "posted" /\ seriesAnswer' = "saved" => SaveSeries
           /\ seriesAt = "posted" /\ seriesAnswer' = "flagged" => FlagSeries
BY SeriesPartsOfIInv
   DEF SeriesNext, seriesVars, OpenSeries, ChooseSide, ChooseGames, PostSeries,
       SaveSeries, FlagSeries, SeriesSaveFails, EditMatchups

LEMMA StepPicks ==
    ASSUME SeriesIInv, [SeriesNext]_seriesVars
    PROVE  PicksOnlyOfThoseWhoPlay
<1> SUFFICES ASSUME NEW k \in Series, seriesPicks'[k] # seriesPicks[k]
             PROVE  /\ seriesAt = "posted" /\ ShowsPick(k)
                    /\ k \in DOMAIN matchups /\ seriesPicks'[k].side \in matchups[k]
  BY DEF PicksOnlyOfThoseWhoPlay
<1>1. SaveSeries \/ FlagSeries \/ SeriesSaveFails
  BY SeriesOnlySaves
<1>2. PICK done \in SUBSET CompleteSeries : seriesPicks' = Saving(done)
  BY <1>1 DEF SaveSeries, FlagSeries, SeriesSaveFails
<1> QED
  BY <1>1, <1>2, SavingOK DEF SaveSeries, FlagSeries, SeriesSaveFails

(* Of a series whose card shows a pick: it is complete exactly when the    *)
(* side plays in it, and invalid otherwise.                                *)
LEMMA ShownIsCompleteOrInvalid ==
    ASSUME SeriesIInv, NEW k \in DOMAIN matchups, ShowsPick(k)
    PROVE  /\ IsComplete(k) <=> cards[k].side \in matchups[k]
           /\ IsInvalid(k) <=> cards[k].side \notin matchups[k]
           /\ FormOf(k) = [side |-> cards[k].side, games |-> cards[k].games]
<1>1. k \in Series
  BY SeriesPartsOfIInv, ListFacts
<1> QED
  BY <1>1, FormFacts DEF IsComplete, IsInvalid

LEMMA StepAnswered ==
    ASSUME SeriesIInv, [SeriesNext]_seriesVars
    PROVE  AnsweredAsShown
<1> SUFFICES ASSUME seriesAt = "posted", seriesAnswer' \in {"saved", "flagged"},
                    NEW k \in Series
             PROVE  IF k \in DOMAIN matchups /\ ShowsPick(k)
                         /\ (seriesAnswer' = "saved" \/ cards[k].side \in matchups[k])
                      THEN seriesPicks'[k] = [side |-> cards[k].side,
                                              games |-> cards[k].games]
                      ELSE seriesPicks'[k] = seriesPicks[k]
  BY DEF AnsweredAsShown
<1>1. seriesPicks' = Saving(CompleteSeries)
  BY SeriesOnlySaves DEF SaveSeries, FlagSeries
<1>2. seriesPicks'[k] = IF k \in CompleteSeries THEN FormOf(k) ELSE seriesPicks[k]
  BY <1>1 DEF Saving
<1>3. k \in DOMAIN matchups /\ IsInvalid(k) => seriesAnswer' # "saved"
  BY SeriesOnlySaves DEF SaveSeries, InvalidSeries
<1>4. CASE k \in DOMAIN matchups /\ ShowsPick(k)
  BY <1>2, <1>3, <1>4, ShownIsCompleteOrInvalid DEF CompleteSeries
<1>5. CASE ~(k \in DOMAIN matchups /\ ShowsPick(k))
  <2>1. k \notin CompleteSeries
    BY <1>5, CompleteFacts DEF CompleteSeries
  <2> QED
    BY <1>2, <1>5, <2>1
<1> QED
  BY <1>4, <1>5

LEMMA StepFlagged ==
    ASSUME SeriesIInv, [SeriesNext]_seriesVars
    PROVE  FlaggedForCause
<1> SUFFICES ASSUME seriesAt = "posted", seriesAnswer' = "flagged"
             PROVE  \E k \in DOMAIN matchups :
                      /\ ShowsPick(k) /\ cards[k].side \notin matchups[k]
                      /\ cards'[k].side = Unset
  BY DEF FlaggedForCause
<1>1. FlagSeries
  BY SeriesOnlySaves
<1>2. PICK k \in DOMAIN matchups : IsInvalid(k)
  BY <1>1 DEF FlagSeries, InvalidSeries
<1>3. k \in Series /\ ShowsPick(k)
  BY <1>2, SeriesPartsOfIInv, ListFacts, FormFacts DEF IsInvalid
<1>4. cards[k].side \notin matchups[k] /\ FormOf(k).side = cards[k].side
  BY <1>2, <1>3, ShownIsCompleteOrInvalid
<1>5. cards'[k].side = Unset
  BY <1>1, <1>4 DEF FlagSeries, Card
<1> QED
  BY <1>3, <1>4, <1>5

(* However the matchups were corrected under an open page: what a card     *)
(* showed is on file or flagged, and nobody is picked who does not play.   *)
THEOREM SeriesAreSavedAsShown == SeriesSpec => SeriesSavedAsShown
<1>1. SeriesIInv /\ [SeriesNext]_seriesVars =>
        [PicksOnlyOfThoseWhoPlay /\ AnsweredAsShown /\ FlaggedForCause]_seriesVars
  BY StepPicks, StepAnswered, StepFlagged
<1> QED
  BY <1>1, SeriesInvariant, PTL DEF SeriesSpec, SeriesSavedAsShown
=================================================================================
