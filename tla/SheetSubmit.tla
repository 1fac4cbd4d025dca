------------------------------ MODULE SheetSubmit ------------------------------
(***************************************************************************)
(* internal/web, POST /predict/{id}: a player submits the form of a        *)
(* Prediction Set.  The handler gates the set (known, not Upcoming, before *)
(* its deadline by a clock reading taken here), waits for the body of the  *)
(* request, validates the form and saves: a single-team, divisions or      *)
(* awards form by one store call, a series form by one call per series.    *)
(* Requests overlap, store calls fail, and the operator stops the server,  *)
(* edits the data file and starts it again.                                *)
(*                                                                         *)
(* A store call is one atomic step here, which is what module Store shows  *)
(* of it (DurableStore).  Entries of a form are abstracted to what the     *)
(* handlers tell apart: a Pick is a complete, valid entry; a Blank one was *)
(* left empty; a Half one is a series with one of its two fields or an     *)
(* award with one or two of its three finalists; a Bad one fails           *)
(* validation.  A division's team list counts as valid or Bad as a whole:  *)
(* with two divisions to a conference and at most five teams from each, a  *)
(* conference total of eight leaves no list empty.                         *)
(***************************************************************************)
EXTENDS Integers, Sequences, FiniteSets

CONSTANTS
    Client,         \* requests in flight
    Player,
    SetId,          \* the Prediction Set ids the requests name
    Files,          \* contents the operator may give the hand-kept sections
    Division, Award, Matchup,
    Pick, Blank, Half, Bad,
    NoRow,          \* no prediction row
    TicksPerSecond, \* resolution of the clock
    MaxClock        \* bound: the clock stops here

SingleSets == {"presidents", "cup", "playoffcup"}
SeriesSets == {"r1", "r2", "cf", "scf"}
RoundGated == {"r2", "cf", "scf"}
Pickable == SingleSets \cup SeriesSets \cup {"divisions", "awards"}

(* The two phases the Predict list and the Compare tab have a section for. *)
Phases == {"before_season", "playoffs"}

(* A deadline_utc that time.Parse rejects.                                 *)
Unparseable == -1

(* What the file says of one Prediction Set, with the matchups recorded    *)
(* for it in playoff_matchups.                                             *)
Listing == [phase : Phases \cup {"unknown"}, deadline : Nat \cup {Unparseable},
            upcoming : BOOLEAN, matchups : Seq(Matchup)]

ASSUME SheetAssumption ==
    /\ \A f \in Files : DOMAIN f \subseteq SetId /\ f \in [DOMAIN f -> Listing]
    /\ {Blank, Half, Bad} \cap Pick = {}
    /\ Cardinality({Blank, Half, Bad}) = 3
    /\ TicksPerSecond \in Nat \ {0}
    /\ MaxClock \in Nat
    /\ Player # {}
    /\ NoRow \notin [pick : Pick, at : Nat]
    /\ {"note", "nothing"} \cap SetId = {}     \* what Compared says of no set

(* The rows a set's picks are stored in, and the fields of its form.       *)
Items(s) ==
    IF s = "divisions" THEN Division \X {"teams", "winner"}
    ELSE IF s = "awards" THEN Award \X {"finalists"}
    ELSE IF s \in SeriesSets THEN Matchup \X {"series"}
    ELSE {<<s, "team">>}

AllItems == UNION {Items(s) : s \in SetId}

Key == UNION {{s} \X Items(s) : s \in SetId}

Entry == Pick \cup {Blank, Half, Bad}

(* What a form can hold: a lone team left empty is not on the roster.      *)
Entries(s, i) ==
    IF s \in SingleSets \/ i[2] = "teams" THEN Pick \cup {Bad}
    ELSE IF i[2] = "winner" THEN Pick \cup {Blank, Bad}
    ELSE Entry

Forms(s) ==
    {f \in [Items(s) -> Entry] : \A i \in Items(s) : f[i] \in Entries(s, i)}

(* What a request submits: the player, the set, the form.                  *)
Request == UNION {[player : Player, set : {s}, form : Forms(s)] : s \in SetId}

Row == [pick : Pick, at : Nat]

VARIABLES
    clock,      \* clock.NowTime, in ticks
    file,       \* the hand-kept sections, as loaded at startup
    table,      \* the prediction row of each player and key
    pc,         \* where each request is
    req,        \* what it submits: the player, the set, the form
    now,        \* the clock reading of its gate, 0 before
    todo,       \* the store calls it has yet to make: a set of rows each
    saved,      \* the rows its store calls have returned
    audited,    \* the rows the last answered request wrote audit lines for
    answer      \* its response

vars == <<clock, file, table, pc, req, now, todo, saved, audited, answer>>
request == <<req, now>>

Nothing == [player |-> CHOOSE p \in Player : TRUE, set |-> "none",
            form |-> [i \in {} |-> Blank]]

Answers == {"none", "notFound", "forbidden", "failed", "rejected", "flagged",
            "redirect"}

TypeOK ==
    /\ clock \in Nat
    /\ file \in Files
    /\ table \in [Player -> [Key -> Row \cup {NoRow}]]
    /\ pc \in [Client -> {"idle", "gate", "form", "save"}]
    /\ req \in [Client -> Request \cup {Nothing}]
    /\ \A c \in Client : pc[c] # "idle" => req[c] \in Request
    /\ now \in [Client -> Nat]
    /\ todo \in [Client -> Seq(SUBSET AllItems)]
    /\ saved \in [Client -> SUBSET AllItems]
    /\ audited \in [Client -> SUBSET AllItems]
    /\ answer \in [Client -> Answers]

Init ==
    /\ clock = 0
    /\ file \in Files
    /\ table = [p \in Player |-> [k \in Key |-> NoRow]]
    /\ pc = [c \in Client |-> "idle"]
    /\ req = [c \in Client |-> Nothing]
    /\ now = [c \in Client |-> 0]
    /\ todo = [c \in Client |-> <<>>]
    /\ saved = [c \in Client |-> {}]
    /\ audited = [c \in Client |-> {}]
    /\ answer = [c \in Client |-> "none"]

(***************************************************************************)
(* What the pages and the handlers read off the file                       *)
(***************************************************************************)

(* For the later rounds the recorded matchups decide, for any other set    *)
(* its own flag.                                                           *)
EffectiveUpcoming(s) ==
    IF s \in RoundGated THEN file[s].matchups = <<>> ELSE file[s].upcoming

(* Mutant: the instant of the deadline itself still counts as open.        *)
OpenAtDeadline(s, t) == file[s].deadline >= t

OpenAt(s, t) == file[s].deadline > t

(* findOpenablePredictionSet and the deadline check of handleSheetSubmit.  *)
Verdict(s, t) ==
    IF \/ s \notin Pickable \cap DOMAIN file
       \/ s \in Pickable \cap DOMAIN file /\ EffectiveUpcoming(s)
       \/ s \in Pickable \cap DOMAIN file /\ file[s].deadline = Unparseable
      THEN "notFound"
    ELSE IF OpenAt(s, t) THEN "accepted" ELSE "forbidden"

Recorded(s) ==
    IF s \in SeriesSets THEN {<<m, "series">> : m \in {file[s].matchups[j] :
                                                  j \in DOMAIN file[s].matchups}}
    ELSE Items(s)

(* Mutant: the divisions set looks at the winners, not at the team lists.  *)
SubmittedByWinner(p, s) ==
    \E i \in Recorded(s) : (s = "divisions" => i[2] = "winner") /\
                           table[p][<<s, i>>] # NoRow

(* setSubmitted: of the divisions set only the team lists are looked at.   *)
Submitted(p, s) ==
    \E i \in Recorded(s) : (s = "divisions" => i[2] = "teams") /\
                           table[p][<<s, i>>] # NoRow

(* Mutant: a saved pick hides that the deadline has passed.                *)
StatusSubmittedFirst(p, s, t) ==
    IF EffectiveUpcoming(s) THEN "Upcoming"
    ELSE IF Submitted(p, s) THEN "Submitted"
    ELSE IF file[s].deadline <= t THEN "Closed"
    ELSE "Open"

(* predictStatus, for the rows buildPredictPhases does not skip.           *)
Status(p, s, t) ==
    IF EffectiveUpcoming(s) THEN "Upcoming"
    ELSE IF file[s].deadline <= t THEN "Closed"
    ELSE IF Submitted(p, s) THEN "Submitted"
    ELSE "Open"

(* buildPredictPhases leaves out what has no phase or no deadline.         *)
Listed(s) == s \in DOMAIN file /\ file[s].phase \in Phases
                                 /\ file[s].deadline # Unparseable

(***************************************************************************)
(* The Compare tab                                                         *)
(***************************************************************************)

(* compareSetDeadline.                                                     *)
Comparable(s) == s \in DOMAIN file /\ file[s].phase \in Phases
                                     /\ file[s].deadline # Unparseable

(* selectableCompareSets: the sets with a chip.                            *)
CompareChips == {s \in DOMAIN file : Comparable(s) /\ ~EffectiveUpcoming(s)}

IsGatedRound(s) == s \in RoundGated /\ Comparable(s) /\ file[s].matchups = <<>>

(* defaultCompareSet: the earliest of the sets before the season, or the   *)
(* first of any; which of several it is depends on the order of the file.  *)
CompareDefaults ==
    LET before == {s \in CompareChips : file[s].phase = "before_season"}
    IN  IF before = {} THEN CompareChips
        ELSE {s \in before : \A o \in before : file[s].deadline <= file[o].deadline}

(* buildCompare: the set shown for ?set=s, or a note in place of a table.  *)
Compared(s) ==
    IF s \in CompareChips THEN {s}
    ELSE IF IsGatedRound(s) THEN {"note"}
    ELSE IF CompareDefaults = {} THEN {"nothing"}
    ELSE CompareDefaults

(* compareCategories: the cells of a player's column that show a value; a  *)
(* set of no known kind has no rows.                                       *)
Column(p, s) ==
    {i \in Recorded(s) : s \in Pickable /\ table[p][<<s, i>>] # NoRow}

(***************************************************************************)
(* What a form asks to save                                                *)
(***************************************************************************)
Having(s, f, e) == {i \in Recorded(s) : f[i] = e}

Complete(s, f) == {i \in Recorded(s) : f[i] \in Pick}

(* Any Bad entry turns down a whole form; of a series form only itself.    *)
WholeFormRejected(s, f) == s \notin SeriesSets /\ Having(s, f, Bad) # {}

(* What was submitted but could not be saved is shown again: an invalid    *)
(* series, an award with one or two finalists.                             *)
Flagged(s, f) ==
    IF s \in SeriesSets THEN Having(s, f, Bad) # {} ELSE Having(s, f, Half) # {}

(* The walk over the file's matchups: a call for each series that is       *)
(* complete, none for the others.                                          *)
SeriesCalls(s, f) ==
    [j \in DOMAIN file[s].matchups |->
        {<<file[s].matchups[j], "series">>} \cap Complete(s, f)]

(* Mutants: division by division; no call when something has to be shown   *)
(* again.                                                                  *)
CallsByDivision(s, f) ==
    IF s = "divisions"
      THEN LET d == CHOOSE d \in Division : TRUE
           IN  <<{i \in Complete(s, f) : i[1] = d},
                 {i \in Complete(s, f) : i[1] # d}>>
    ELSE IF s \in SeriesSets THEN SeriesCalls(s, f)
    ELSE <<Complete(s, f)>>

CallsSkipFlagged(s, f) ==
    IF Flagged(s, f) THEN <<>>
    ELSE IF s \in SeriesSets THEN SeriesCalls(s, f)
    ELSE <<Complete(s, f)>>

(* The rows of each store call a form leads to: one call for all of them,  *)
(* even when there are none, or the walk over the series.                  *)
Calls(s, f) ==
    IF s \in SeriesSets THEN SeriesCalls(s, f) ELSE <<Complete(s, f)>>

(* now.UTC().Format(time.RFC3339): the fraction of the second is lost.     *)
Stamp(t) == t - (t % TicksPerSecond)

(***************************************************************************)
(* The handler                                                             *)
(***************************************************************************)

(* A player posts a form; the page it comes from may be an old one.        *)
Submit(c) ==
    /\ pc[c] = "idle"
    /\ \E p \in Player, s \in SetId : \E f \in Forms(s) :
        req' = [req EXCEPT ![c] = [player |-> p, set |-> s, form |-> f]]
    /\ pc' = [pc EXCEPT ![c] = "gate"]
    /\ audited' = [audited EXCEPT ![c] = {}]
    /\ answer' = [answer EXCEPT ![c] = "none"]
    /\ UNCHANGED <<clock, file, table, now, todo, saved>>

(* Mutant: a failed call returns before the audit.                         *)
AuditedUnlessFailed(c, response) == IF response = "failed" THEN {} ELSE saved[c]

(* auditPredictionsSaved is called with every row a store call returned,   *)
(* on every path.                                                          *)
Audited(c, response) == saved[c]

Respond(c, response) ==
    /\ pc' = [pc EXCEPT ![c] = "idle"]
    /\ req' = [req EXCEPT ![c] = Nothing]
    /\ now' = [now EXCEPT ![c] = 0]
    /\ todo' = [todo EXCEPT ![c] = <<>>]
    /\ saved' = [saved EXCEPT ![c] = {}]
    /\ audited' = [audited EXCEPT ![c] = Audited(c, response)]
    /\ answer' = [answer EXCEPT ![c] = response]

(* 404 for an id that is unknown, Upcoming or has a bad deadline; 403 for  *)
(* a set that is closed.                                                   *)
TurnAway(c) ==
    /\ pc[c] = "gate"
    /\ Verdict(req[c].set, clock) # "accepted"
    /\ Respond(c, Verdict(req[c].set, clock))
    /\ UNCHANGED <<clock, file, table>>

Accept(c) ==
    /\ pc[c] = "gate"
    /\ Verdict(req[c].set, clock) = "accepted"
    /\ now' = [now EXCEPT ![c] = clock]
    /\ pc' = [pc EXCEPT ![c] = "form"]
    /\ UNCHANGED <<clock, file, table, req, todo, saved, audited, answer>>

(* r.ParseForm reads the body: it waits, and may fail.                     *)
ReadFails(c) ==
    /\ pc[c] = "form"
    /\ Respond(c, "failed")
    /\ UNCHANGED <<clock, file, table>>

(* A form that fails validation as a whole is shown again, nothing saved.  *)
Reject(c) ==
    /\ pc[c] = "form"
    /\ WholeFormRejected(req[c].set, req[c].form)
    /\ Respond(c, "rejected")
    /\ UNCHANGED <<clock, file, table>>

Validate(c) ==
    /\ pc[c] = "form"
    /\ ~WholeFormRejected(req[c].set, req[c].form)
    /\ todo' = [todo EXCEPT ![c] = Calls(req[c].set, req[c].form)]
    /\ pc' = [pc EXCEPT ![c] = "save"]
    /\ UNCHANGED <<clock, file, table, request, saved, audited, answer>>

(* A series left empty, half filled or invalid is passed over.             *)
PassesOver(c) ==
    /\ req[c].set \in SeriesSets
    /\ Head(todo[c]) = {}

Skip(c) ==
    /\ pc[c] = "save"
    /\ todo[c] # <<>>
    /\ PassesOver(c)
    /\ todo' = [todo EXCEPT ![c] = Tail(@)]
    /\ UNCHANGED <<clock, file, table, pc, request, saved, audited, answer>>

(* The next store call succeeds: its rows, stamped with the gate's now.    *)
Save(c) ==
    /\ pc[c] = "save"
    /\ todo[c] # <<>>
    /\ ~PassesOver(c)
    /\ table' = [table EXCEPT ![req[c].player] =
         [k \in Key |-> IF k[1] = req[c].set /\ k[2] \in Head(todo[c])
                          THEN [pick |-> req[c].form[k[2]], at |-> Stamp(now[c])]
                          ELSE @[k]]]
    /\ saved' = [saved EXCEPT ![c] = @ \cup Head(todo[c])]
    /\ todo' = [todo EXCEPT ![c] = Tail(@)]
    /\ UNCHANGED <<clock, file, pc, request, audited, answer>>

(* The next store call fails: 500, and no further call is made.            *)
SaveFails(c) ==
    /\ pc[c] = "save"
    /\ todo[c] # <<>>
    /\ ~PassesOver(c)
    /\ Respond(c, "failed")
    /\ UNCHANGED <<clock, file, table>>

(* Mutant: only a form that saved something is answered.                   *)
FinishSaved(c) ==
    /\ pc[c] = "save"
    /\ todo[c] = <<>>
    /\ saved[c] # {}
    /\ Respond(c, IF Flagged(req[c].set, req[c].form) THEN "flagged" ELSE "redirect")
    /\ UNCHANGED <<clock, file, table>>

Finish(c) ==
    /\ pc[c] = "save"
    /\ todo[c] = <<>>
    /\ Respond(c, IF Flagged(req[c].set, req[c].form) THEN "flagged" ELSE "redirect")
    /\ UNCHANGED <<clock, file, table>>

(***************************************************************************)
(* Around the handler                                                      *)
(***************************************************************************)
Tick ==
    /\ clock < MaxClock
    /\ clock' = clock + 1
    /\ UNCHANGED <<file, table, pc, request, todo, saved, audited, answer>>

(* The server stops, in the middle of anything, and starts on what the     *)
(* operator has made of the file; the prediction rows are as they were.    *)
Restart(f) ==
    /\ file' = f
    /\ pc' = [c \in Client |-> "idle"]
    /\ req' = [c \in Client |-> Nothing]
    /\ now' = [c \in Client |-> 0]
    /\ todo' = [c \in Client |-> <<>>]
    /\ saved' = [c \in Client |-> {}]
    /\ audited' = [c \in Client |-> {}]
    /\ answer' = [c \in Client |-> "none"]
    /\ UNCHANGED <<clock, table>>

Handle(c) ==
    \/ TurnAway(c)
    \/ Accept(c)
    \/ ReadFails(c)
    \/ Reject(c)
    \/ Validate(c)
    \/ Skip(c)
    \/ Save(c)
    \/ SaveFails(c)
    \/ Finish(c)

Next ==
    \/ Tick
    \/ \E f \in Files : Restart(f)
    \/ \E c \in Client : Submit(c) \/ Handle(c)

Spec == Init /\ [][Next]_vars

(* net/http runs every handler to its end: the body arrives or its read    *)
(* times out, and a store call returns (EveryCallReturns of Store).        *)
Fairness == \A c \in Client : WF_vars(Handle(c))

FairSpec == Spec /\ Fairness

(***************************************************************************)
(* Properties                                                              *)
(***************************************************************************)

(* The Predict list, the submit handler and the Compare tab, which decide  *)
(* each on its own, agree at every instant, whatever was recorded, edited  *)
(* or saved before: a set shown Open or Submitted takes a form, one shown  *)
(* Closed is 403, one shown Upcoming is 404; exactly the listed sets not   *)
(* shown Upcoming can be compared, and asking for any other id shows a set *)
(* that can be, unless the id is a listed round shown Upcoming.            *)
ListAgreesWithGate ==
    \A p \in Player :
        /\ \A s \in Pickable \cap DOMAIN file :
             file[s].deadline # Unparseable =>
                Verdict(s, clock) =
                    IF Status(p, s, clock) = "Upcoming" THEN "notFound"
                    ELSE IF Status(p, s, clock) = "Closed" THEN "forbidden"
                    ELSE "accepted"
        /\ \A s \in SetId \cap DOMAIN file :
             Compared(s) = {s} <=> Listed(s) /\ Status(p, s, clock) # "Upcoming"
        /\ \A s \in SetId : \A shown \in Compared(s) :
             IF shown = "note" THEN Listed(s) /\ Status(p, s, clock) = "Upcoming"
             ELSE shown # "nothing" => Verdict(shown, clock) # "notFound" \/
                                       shown \notin Pickable

(* A set counts as submitted exactly when the player's column in the       *)
(* Compare tab shows a value for it: setSubmitted looks only at the team   *)
(* lists of the divisions set, so no winner may be on file without one.    *)
SubmittedMeansSaved ==
    \A p \in Player, s \in DOMAIN file :
        Submitted(p, s) <=> Column(p, s) # {}

(* The divisions form is all-or-nothing: the team lists on file, whose     *)
(* totals were validated together, always come from one submission, even   *)
(* when submissions of the same player overlap and fail.                   *)
DivisionsOfOneForm ==
    "divisions" \in SetId =>
        \A p \in Player : \A d, e \in Division :
            LET one == table[p][<<"divisions", <<d, "teams">> >>]
                other == table[p][<<"divisions", <<e, "teams">> >>]
            IN  /\ one = NoRow <=> other = NoRow
                /\ one # NoRow => one.at = other.at

(* A row is only ever written for a recorded item of a set that is not     *)
(* Upcoming, and carries a time strictly before that set's deadline.       *)
StampedBeforeDeadline ==
    [][\A p \in Player, k \in Key : table'[p][k] # table[p][k] =>
         /\ k[1] \in DOMAIN file
         /\ k[2] \in Recorded(k[1])
         /\ ~EffectiveUpcoming(k[1])
         /\ table'[p][k].at < file[k[1]].deadline]_vars

Answered(c) == answer'[c] # answer[c] /\ answer'[c] # "none"

(* The response tells the player what became of the form: a redirect that  *)
(* every complete entry is saved and nothing was refused, a rejection that *)
(* nothing is, a flagged page that all that could be saved is; and only a  *)
(* series form can have been saved in part when the answer is 500.         *)
AnswerTellsWhatWasSaved ==
    [][\A c \in Client : Answered(c) =>
         LET s == req[c].set
             f == req[c].form
         IN  /\ answer'[c] \in {"notFound", "forbidden", "rejected"} => saved[c] = {}
             /\ answer'[c] \in {"redirect", "flagged"} => saved[c] = Complete(s, f)
             /\ answer'[c] = "redirect" => ~Flagged(s, f) /\ ~WholeFormRejected(s, f)
             /\ answer'[c] = "failed" /\ saved[c] # {} => s \in SeriesSets]_vars

(* Every row that was saved is audited when its request is answered, those *)
(* saved before a failure included, and nothing else is ever audited.      *)
SavedRowsAudited ==
    [][\A c \in Client :
         /\ Answered(c) => audited'[c] = saved[c]
         /\ audited'[c] # audited[c] => Answered(c) \/ audited'[c] = {}]_vars

(* "Closed: deadline passed - read-only, no exceptions" (game-rules.md): no*)
(* row of a set changes once its deadline has passed.                      *)
ReadOnlyOnceClosed ==
    [][\A p \in Player, k \in Key : table'[p][k] # table[p][k] =>
         OpenAt(k[1], clock)]_vars

(* Every submission is answered.                                           *)
EverySubmitAnswered == \A c \in Client : pc[c] = "gate" ~> pc[c] = "idle"

(***************************************************************************)
(* The inductive invariant behind these properties                         *)
(***************************************************************************)
Pending(c) == UNION {todo[c][j] : j \in DOMAIN todo[c]}

(* Before its form is validated a request has saved nothing and plans      *)
(* nothing; until it is answered it has no answer.                         *)
NothingYet(c) ==
    /\ pc[c] # "save" => todo[c] = <<>> /\ saved[c] = {}
    /\ pc[c] # "idle" => answer[c] = "none"

(* Past the gate a set was open at the clock reading the request carries,  *)
(* by the file the server still runs on.                                   *)
PastGate(c) ==
    pc[c] \in {"form", "save"} => Verdict(req[c].set, now[c]) = "accepted"

(* What was saved and what is yet to be saved are what the form completes; *)
(* a form that is saved as a whole is saved by one call.                   *)
OnCourse(c) ==
    pc[c] = "save" =>
        LET s == req[c].set
            f == req[c].form
        IN  /\ ~WholeFormRejected(s, f)
            /\ saved[c] \cup Pending(c) = Complete(s, f)
            /\ s \notin SeriesSets =>
                  \/ todo[c] = <<>>
                  \/ todo[c] = <<Complete(s, f)>> /\ saved[c] = {}

(* Only sets with a form have rows, and no division winner is on file      *)
(* without its team list.                                                  *)
RowsOfForms ==
    \A p \in Player, k \in Key : table[p][k] # NoRow =>
        /\ k[1] \in Pickable
        /\ \A d \in Division : k = <<"divisions", <<d, "winner">> >> =>
               table[p][<<"divisions", <<d, "teams">> >>] # NoRow

IInv ==
    /\ TypeOK
    /\ \A c \in Client : NothingYet(c) /\ PastGate(c) /\ OnCourse(c)
    /\ RowsOfForms
    /\ DivisionsOfOneForm
=============================================================================
