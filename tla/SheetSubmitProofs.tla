--------------------------- MODULE SheetSubmitProofs ---------------------------
(***************************************************************************)
(* Proofs about SheetSubmit: its inductive invariant IInv and the safety   *)
(* and action properties that follow from it, for every number of players, *)
(* overlapping requests and series, and for every content of the file.     *)
(***************************************************************************)
EXTENDS SheetSubmit, TLAPS

(***************************************************************************)
(* Lemmas about sets, rows and forms                                       *)
(***************************************************************************)

(* Every row key is a set with one of its items.                           *)
LEMMA KeyParts ==
    /\ \A k \in Key : k[1] \in SetId /\ k[2] \in Items(k[1]) /\ k = <<k[1], k[2]>>
    /\ \A s \in SetId : \A i \in Items(s) : <<s, i>> \in Key
<1>1. ASSUME NEW k \in Key
      PROVE  k[1] \in SetId /\ k[2] \in Items(k[1]) /\ k = <<k[1], k[2]>>
  <2>1. PICK s \in SetId : k \in {s} \X Items(s)
    BY DEF Key
  <2> QED BY <2>1
<1>2. ASSUME NEW s \in SetId, NEW i \in Items(s)
      PROVE  <<s, i>> \in Key
  BY DEF Key
<1> QED BY <1>1, <1>2

LEMMA FileListings ==
    ASSUME file \in Files, NEW s \in DOMAIN file
    PROVE  s \in SetId /\ file[s] \in Listing
BY SheetAssumption

(* What is recorded for a set is among its items, and a form's complete    *)
(* entries are picks.                                                      *)
LEMMA RecordedItems ==
    ASSUME file \in Files, NEW s \in DOMAIN file
    PROVE  Recorded(s) \subseteq Items(s)
<1>1. file[s].matchups \in Seq(Matchup)
  BY FileListings DEF Listing
<1>2. CASE s \in SeriesSets
  <2>1. Items(s) = Matchup \X {"series"}
    BY <1>2 DEF Items, SeriesSets
  <2>2. \A j \in DOMAIN file[s].matchups : file[s].matchups[j] \in Matchup
    BY <1>1
  <2> QED BY <1>2, <2>1, <2>2 DEF Recorded
<1>3. CASE s \notin SeriesSets
  BY <1>3 DEF Recorded
<1> QED BY <1>2, <1>3

LEMMA CompleteItems ==
    ASSUME file \in Files, NEW s \in DOMAIN file, NEW f
    PROVE  /\ Complete(s, f) \subseteq Recorded(s)
           /\ Complete(s, f) \subseteq Items(s)
           /\ Complete(s, f) \subseteq AllItems
           /\ \A i \in Complete(s, f) : f[i] \in Pick
BY FileListings, RecordedItems DEF Complete, AllItems

(* The gate accepts only sets that are listed, open and have a form.       *)
LEMMA AcceptedSets ==
    ASSUME file \in Files, NEW s, NEW t \in Nat, Verdict(s, t) = "accepted"
    PROVE  /\ s \in Pickable /\ s \in DOMAIN file
           /\ ~EffectiveUpcoming(s)
           /\ file[s].deadline \in Nat /\ t < file[s].deadline
<1>1. s \in Pickable /\ s \in DOMAIN file /\ ~EffectiveUpcoming(s)
      /\ file[s].deadline # Unparseable /\ OpenAt(s, t)
  BY DEF Verdict
<1>2. file[s].deadline \in Nat
  BY <1>1, FileListings DEF Listing
<1> QED BY <1>1, <1>2 DEF OpenAt

LEMMA VerdictAnswers ==
    ASSUME NEW s, NEW t
    PROVE  /\ Verdict(s, t) \in {"accepted", "notFound", "forbidden"}
           /\ Verdict(s, t) # "accepted" => Verdict(s, t) \in Answers
BY DEF Verdict, Answers

LEMMA StampNat ==
    ASSUME NEW t \in Nat PROVE Stamp(t) \in Nat /\ Stamp(t) <= t
BY SheetAssumption DEF Stamp

(* The calls of a form make exactly the rows it completes.                 *)
LEMMA CallsMakeComplete ==
    ASSUME file \in Files, NEW s \in DOMAIN file, NEW f
    PROVE  /\ Calls(s, f) \in Seq(SUBSET AllItems)
           /\ UNION {Calls(s, f)[j] : j \in DOMAIN Calls(s, f)} = Complete(s, f)
           /\ s \notin SeriesSets => Calls(s, f) = <<Complete(s, f)>>
<1>1. Complete(s, f) \subseteq AllItems /\ Complete(s, f) \subseteq Recorded(s)
  BY CompleteItems
<1>2. CASE s \in SeriesSets
  <2> DEFINE m == file[s].matchups
             call(j) == {<<m[j], "series">>} \cap Complete(s, f)
             calls == [j \in DOMAIN m |-> call(j)]
  <2>1. m \in Seq(Matchup)
    BY FileListings DEF Listing
  <2>2. DOMAIN m = 1..Len(m) /\ Len(m) \in Nat
    BY <2>1
  <2>3. Calls(s, f) = calls
    BY <1>2 DEF Calls, SeriesCalls
  <2>4. \A j \in DOMAIN m : call(j) \in SUBSET AllItems
    BY <1>1
  <2>5. calls \in Seq(SUBSET AllItems)
    <3> HIDE DEF call, m
    <3> QED BY <2>2, <2>4
  <2>6. Recorded(s) = {<<m[j], "series">> : j \in DOMAIN m}
    BY <1>2 DEF Recorded
  <2>7. UNION {call(j) : j \in DOMAIN m} = Complete(s, f)
    BY <1>1, <2>6
  <2>8. UNION {calls[j] : j \in DOMAIN calls} = UNION {call(j) : j \in DOMAIN m}
    <3> HIDE DEF call, m
    <3> QED OBVIOUS
  <2> HIDE DEF calls, call, m
  <2> QED BY <1>2, <2>3, <2>5, <2>7, <2>8
<1>3. CASE s \notin SeriesSets
  <2>1. Calls(s, f) = <<Complete(s, f)>>
    BY <1>3 DEF Calls
  <2> QED BY <1>1, <1>3, <2>1
<1> QED BY <1>2, <1>3

(* The first call of a plan, and the rest.                                 *)
LEMMA PendingHead ==
    ASSUME NEW T, NEW calls \in Seq(SUBSET T), calls # <<>>
    PROVE  /\ Head(calls) \in SUBSET T /\ Tail(calls) \in Seq(SUBSET T)
           /\ UNION {calls[j] : j \in DOMAIN calls} =
                Head(calls) \cup UNION {Tail(calls)[j] : j \in DOMAIN Tail(calls)}
<1>1. Len(calls) \in Nat \ {0} /\ DOMAIN calls = 1..Len(calls)
  OBVIOUS
<1>2. Tail(calls) \in Seq(SUBSET T) /\ DOMAIN Tail(calls) = 1..(Len(calls) - 1)
  BY <1>1
<1>3. \A j \in 1..(Len(calls) - 1) : Tail(calls)[j] = calls[j + 1]
  BY <1>1
<1>4. Head(calls) = calls[1]
  OBVIOUS
<1>5. \A j \in 1..Len(calls) :
         j = 1 \/ \E i \in 1..(Len(calls) - 1) : j = i + 1
  <2> SUFFICES ASSUME NEW j \in 1..Len(calls), j # 1
               PROVE  \E i \in 1..(Len(calls) - 1) : j = i + 1
    OBVIOUS
  <2>1. j - 1 \in 1..(Len(calls) - 1) /\ j = (j - 1) + 1
    BY <1>1
  <2> QED BY <2>1
<1>6. UNION {calls[j] : j \in DOMAIN calls} =
        Head(calls) \cup UNION {Tail(calls)[j] : j \in DOMAIN Tail(calls)}
  <2> DEFINE A == UNION {calls[j] : j \in DOMAIN calls}
             B == UNION {Tail(calls)[j] : j \in DOMAIN Tail(calls)}
  <2>1. ASSUME NEW x \in A PROVE x \in Head(calls) \cup B
    <3>1. PICK j \in 1..Len(calls) : x \in calls[j]
      BY <1>1
    <3>2. CASE j = 1
      BY <3>1, <3>2, <1>4
    <3>3. ASSUME NEW i \in 1..(Len(calls) - 1), j = i + 1 PROVE x \in B
      BY <3>1, <3>3, <1>2, <1>3
    <3> QED BY <3>2, <3>3, <1>5
  <2>2. ASSUME NEW x \in Head(calls) PROVE x \in A
    BY <2>2, <1>1, <1>4
  <2>3. ASSUME NEW x \in B PROVE x \in A
    <3>1. PICK i \in 1..(Len(calls) - 1) : x \in Tail(calls)[i]
      BY <1>2
    <3>2. x \in calls[i + 1] /\ i + 1 \in DOMAIN calls
      BY <3>1, <1>1, <1>3
    <3> QED BY <3>2
  <2> QED BY <2>1, <2>2, <2>3
<1> QED BY <1>1, <1>2, <1>4, <1>6

(***************************************************************************)
(* The inductive invariant: the initial states and the frame               *)
(***************************************************************************)
LEMMA InitIInv == Init => IInv
<1> SUFFICES ASSUME Init PROVE IInv
  OBVIOUS
<1>1. TypeOK
  <2>1. <<>> \in Seq(SUBSET AllItems)
    OBVIOUS
  <2> QED BY <2>1 DEF Init, TypeOK, Answers
<1>2. \A c \in Client : NothingYet(c) /\ PastGate(c) /\ OnCourse(c)
  BY DEF Init, NothingYet, PastGate, OnCourse
<1>3. \A p \in Player, k \in Key : table[p][k] = NoRow
  BY DEF Init
<1>4. RowsOfForms
  BY <1>3 DEF RowsOfForms
<1>5. DivisionsOfOneForm
  <2>1. "divisions" \in SetId =>
           \A d \in Division : <<"divisions", <<d, "teams">> >> \in Key
    BY KeyParts DEF Items
  <2> QED BY <1>3, <2>1 DEF DivisionsOfOneForm
<1> QED BY <1>1, <1>2, <1>4, <1>5 DEF IInv

(* A step of one request leaves what the others rely on alone.             *)
LEMMA OthersKeep ==
    ASSUME NEW d \in Client, NothingYet(d), PastGate(d), OnCourse(d), file' = file,
           pc'[d] = pc[d], req'[d] = req[d], now'[d] = now[d], todo'[d] = todo[d],
           saved'[d] = saved[d], answer'[d] = answer[d]
    PROVE  NothingYet(d)' /\ PastGate(d)' /\ OnCourse(d)'
<1>1. NothingYet(d)'
  BY DEF NothingYet
<1>2. Verdict(req[d].set, now[d])' = Verdict(req[d].set, now[d])
  BY DEF Verdict, EffectiveUpcoming, OpenAt
<1>3. Pending(d)' = Pending(d)
  BY DEF Pending
<1>4. /\ WholeFormRejected(req[d].set, req[d].form)' =
           WholeFormRejected(req[d].set, req[d].form)
      /\ Complete(req[d].set, req[d].form)' = Complete(req[d].set, req[d].form)
  BY DEF WholeFormRejected, Having, Complete, Recorded, Items
<1>5. PastGate(d)'
  BY <1>2 DEF PastGate
<1>6. OnCourse(d)'
  BY <1>3, <1>4 DEF OnCourse
<1> QED BY <1>1, <1>5, <1>6

(* What a step of request c has to show.                                   *)
LEMMA StepOf ==
    ASSUME IInv, NEW c \in Client, TypeOK', file' = file,
           \A d \in Client : d # c =>
              /\ pc'[d] = pc[d] /\ req'[d] = req[d] /\ now'[d] = now[d]
              /\ todo'[d] = todo[d] /\ saved'[d] = saved[d] /\ answer'[d] = answer[d],
           NothingYet(c)', PastGate(c)', OnCourse(c)',
           RowsOfForms', DivisionsOfOneForm'
    PROVE  IInv'
<1>1. ASSUME NEW d \in Client, d # c
      PROVE  NothingYet(d)' /\ PastGate(d)' /\ OnCourse(d)'
  BY <1>1, OthersKeep DEF IInv
<1> QED BY <1>1 DEF IInv

(* Without a change of the table its part of the invariant stays.          *)
LEMMA TableKeeps ==
    ASSUME IInv, table' = table PROVE RowsOfForms' /\ DivisionsOfOneForm'
BY DEF IInv, RowsOfForms, DivisionsOfOneForm

LEMMA TickIInv == IInv /\ Tick => IInv'
<1> SUFFICES ASSUME IInv, Tick PROVE IInv'
  OBVIOUS
<1>1. TypeOK'
  BY DEF IInv, TypeOK, Tick, request
<1>2. ASSUME NEW d \in Client
      PROVE  NothingYet(d)' /\ PastGate(d)' /\ OnCourse(d)'
  BY OthersKeep DEF IInv, Tick, request
<1>3. table' = table
  BY DEF Tick
<1> QED BY <1>1, <1>2, <1>3, TableKeeps DEF IInv

LEMMA RestartIInv == ASSUME NEW f \in Files PROVE IInv /\ Restart(f) => IInv'
<1> SUFFICES ASSUME IInv, Restart(f) PROVE IInv'
  OBVIOUS
<1>1. TypeOK'
  <2>1. <<>> \in Seq(SUBSET AllItems)
    OBVIOUS
  <2> QED BY <2>1 DEF IInv, TypeOK, Restart, Answers
<1>2. \A c \in Client : NothingYet(c)' /\ PastGate(c)' /\ OnCourse(c)'
  BY DEF Restart, NothingYet, PastGate, OnCourse
<1>3. table' = table
  BY DEF Restart
<1> QED BY <1>1, <1>2, <1>3, TableKeeps DEF IInv

(***************************************************************************)
(* The inductive invariant: the steps of a request                         *)
(***************************************************************************)
LEMMA SubmitIInv == ASSUME NEW c \in Client PROVE IInv /\ Submit(c) => IInv'
<1> SUFFICES ASSUME IInv, Submit(c) PROVE IInv'
  OBVIOUS
<1>1. PICK r \in Request : req' = [req EXCEPT ![c] = r]
  <2>1. PICK p \in Player, s \in SetId : \E f \in Forms(s) :
           req' = [req EXCEPT ![c] = [player |-> p, set |-> s, form |-> f]]
    BY DEF Submit
  <2>2. PICK f \in Forms(s) :
           req' = [req EXCEPT ![c] = [player |-> p, set |-> s, form |-> f]]
    BY <2>1
  <2>3. [player |-> p, set |-> s, form |-> f]
           \in [player : Player, set : {s}, form : Forms(s)]
    OBVIOUS
  <2>4. [player |-> p, set |-> s, form |-> f] \in Request
    BY <2>3 DEF Request
  <2> QED BY <2>2, <2>4
<1>2. TypeOK'
  BY <1>1 DEF IInv, TypeOK, Submit, Answers
<1>3. pc[c] = "idle" /\ pc'[c] = "gate" /\ todo' = todo /\ saved' = saved
      /\ answer'[c] = "none" /\ table' = table /\ file' = file
  BY DEF IInv, TypeOK, Submit
<1>4. NothingYet(c)' /\ PastGate(c)' /\ OnCourse(c)'
  BY <1>3 DEF IInv, NothingYet, PastGate, OnCourse
<1>5. \A d \in Client : d # c =>
         /\ pc'[d] = pc[d] /\ req'[d] = req[d] /\ now'[d] = now[d]
         /\ todo'[d] = todo[d] /\ saved'[d] = saved[d] /\ answer'[d] = answer[d]
  BY <1>1 DEF IInv, TypeOK, Submit
<1> QED BY <1>2, <1>3, <1>4, <1>5, TableKeeps, StepOf

(* A request that is answered leaves nothing behind.                       *)
LEMMA RespondIInv ==
    ASSUME IInv, NEW c \in Client, NEW response \in Answers, Respond(c, response),
           UNCHANGED <<clock, file, table>>
    PROVE  IInv'
<1>1. TypeOK'
  <2>1. <<>> \in Seq(SUBSET AllItems) /\ Audited(c, response) \in SUBSET AllItems
    BY DEF IInv, TypeOK, Audited
  <2> QED BY <2>1 DEF IInv, TypeOK, Respond
<1>2. NothingYet(c)' /\ PastGate(c)' /\ OnCourse(c)'
  BY DEF IInv, TypeOK, Respond, NothingYet, PastGate, OnCourse
<1>3. \A d \in Client : d # c =>
         /\ pc'[d] = pc[d] /\ req'[d] = req[d] /\ now'[d] = now[d]
         /\ todo'[d] = todo[d] /\ saved'[d] = saved[d] /\ answer'[d] = answer[d]
  BY DEF IInv, TypeOK, Respond
<1> QED BY <1>1, <1>2, <1>3, TableKeeps, StepOf

LEMMA AnswersIInv ==
    ASSUME NEW c \in Client
    PROVE  IInv /\ (TurnAway(c) \/ ReadFails(c) \/ Reject(c) \/ SaveFails(c) \/ Finish(c))
             => IInv'
<1>1. {"failed", "rejected", "flagged", "redirect"} \subseteq Answers
  BY DEF Answers
<1>2. IInv /\ TurnAway(c) => IInv'
  BY VerdictAnswers, RespondIInv DEF TurnAway
<1>3. IInv /\ (ReadFails(c) \/ Reject(c) \/ SaveFails(c)) => IInv'
  BY <1>1, RespondIInv DEF ReadFails, Reject, SaveFails
<1>4. IInv /\ Finish(c) => IInv'
  <2>1. (IF Flagged(req[c].set, req[c].form) THEN "flagged" ELSE "redirect") \in Answers
    BY <1>1
  <2> QED BY <2>1, RespondIInv DEF Finish
<1> QED BY <1>2, <1>3, <1>4

LEMMA AcceptIInv == ASSUME NEW c \in Client PROVE IInv /\ Accept(c) => IInv'
<1> SUFFICES ASSUME IInv, Accept(c) PROVE IInv'
  OBVIOUS
<1>1. TypeOK'
  BY DEF IInv, TypeOK, Accept
<1>2. /\ pc[c] = "gate" /\ pc'[c] = "form" /\ todo' = todo /\ saved' = saved
      /\ now'[c] = clock /\ answer' = answer /\ table' = table /\ file' = file
      /\ req' = req
  BY DEF IInv, TypeOK, Accept
<1>3. NothingYet(c)'
  BY <1>2 DEF IInv, NothingYet
<1>4. PastGate(c)'
  <2>1. Verdict(req[c].set, now[c])' = Verdict(req[c].set, clock)
    BY <1>2 DEF Verdict, EffectiveUpcoming, OpenAt
  <2> QED BY <2>1 DEF Accept, PastGate
<1>5. OnCourse(c)'
  BY <1>2 DEF OnCourse
<1>6. \A d \in Client : d # c => pc'[d] = pc[d] /\ now'[d] = now[d]
  BY DEF IInv, TypeOK, Accept
<1> QED BY <1>1, <1>2, <1>3, <1>4, <1>5, <1>6, TableKeeps, StepOf

(* A request past the gate: its set is on file, its form is well formed.   *)
LEMMA AtForm ==
    ASSUME IInv, NEW c \in Client, pc[c] \in {"form", "save"}
    PROVE  /\ file \in Files /\ now[c] \in Nat
           /\ req[c] \in Request /\ req[c].player \in Player
           /\ req[c].set \in DOMAIN file /\ req[c].set \in SetId
           /\ req[c].set \in Pickable /\ ~EffectiveUpcoming(req[c].set)
           /\ req[c].form \in Forms(req[c].set)
           /\ file[req[c].set].deadline \in Nat
           /\ now[c] < file[req[c].set].deadline
<1>1. file \in Files /\ now[c] \in Nat /\ req[c] \in Request
      /\ Verdict(req[c].set, now[c]) = "accepted"
  BY DEF IInv, TypeOK, PastGate
<1>2. PICK s \in SetId : req[c] \in [player : Player, set : {s}, form : Forms(s)]
  BY <1>1 DEF Request
<1>3. req[c].player \in Player /\ req[c].set = s /\ req[c].form \in Forms(s)
  BY <1>2
<1> QED BY <1>1, <1>3, AcceptedSets

LEMMA ValidateIInv == ASSUME NEW c \in Client PROVE IInv /\ Validate(c) => IInv'
<1> SUFFICES ASSUME IInv, Validate(c) PROVE IInv'
  OBVIOUS
<1> DEFINE s == req[c].set
           f == req[c].form
<1>1. /\ pc[c] = "form" /\ pc'[c] = "save" /\ todo'[c] = Calls(s, f)
      /\ saved' = saved /\ saved[c] = {} /\ now' = now /\ answer' = answer
      /\ table' = table /\ file' = file /\ req' = req /\ ~WholeFormRejected(s, f)
  BY DEF IInv, TypeOK, NothingYet, Validate, request
<1>2. /\ Calls(s, f) \in Seq(SUBSET AllItems)
      /\ UNION {Calls(s, f)[j] : j \in DOMAIN Calls(s, f)} = Complete(s, f)
      /\ s \notin SeriesSets => Calls(s, f) = <<Complete(s, f)>>
  BY <1>1, AtForm, CallsMakeComplete
<1>3. TypeOK'
  <2> HIDE DEF s, f
  <2> QED BY <1>2 DEF IInv, TypeOK, Validate, request, s, f
<1>4. NothingYet(c)'
  BY <1>1 DEF IInv, NothingYet
<1>5. PastGate(c)'
  <2>1. Verdict(req[c].set, now[c])' = Verdict(req[c].set, now[c])
    BY <1>1 DEF Verdict, EffectiveUpcoming, OpenAt
  <2> QED BY <1>1, <2>1 DEF IInv, PastGate
<1>6. OnCourse(c)'
  <2>1. Pending(c)' = Complete(s, f)
    BY <1>1, <1>2 DEF Pending
  <2>2. Complete(s, f)' = Complete(s, f) /\ WholeFormRejected(s, f)' = WholeFormRejected(s, f)
    BY <1>1 DEF Complete, WholeFormRejected, Having, Recorded, Items
  <2> HIDE DEF s, f
  <2> QED BY <1>1, <1>2, <2>1, <2>2 DEF OnCourse, s, f
<1>7. \A d \in Client : d # c => pc'[d] = pc[d] /\ todo'[d] = todo[d]
  BY DEF IInv, TypeOK, Validate
<1> QED BY <1>1, <1>3, <1>4, <1>5, <1>6, <1>7, TableKeeps, StepOf

(* One call further: its rows are saved, the rest is still to come.        *)
LEMMA NextCall ==
    ASSUME IInv, NEW c \in Client, pc[c] = "save", todo[c] # <<>>
    PROVE  /\ Head(todo[c]) \in SUBSET AllItems
           /\ Tail(todo[c]) \in Seq(SUBSET AllItems)
           /\ Pending(c) = Head(todo[c]) \cup
                  UNION {Tail(todo[c])[j] : j \in DOMAIN Tail(todo[c])}
           /\ Head(todo[c]) \subseteq Complete(req[c].set, req[c].form)
           /\ req[c].set \notin SeriesSets =>
                 /\ Head(todo[c]) = Complete(req[c].set, req[c].form)
                 /\ Tail(todo[c]) = <<>> /\ saved[c] = {}
<1>1. todo[c] \in Seq(SUBSET AllItems)
  BY DEF IInv, TypeOK
<1>2. /\ Head(todo[c]) \in SUBSET AllItems /\ Tail(todo[c]) \in Seq(SUBSET AllItems)
      /\ Pending(c) = Head(todo[c]) \cup
            UNION {Tail(todo[c])[j] : j \in DOMAIN Tail(todo[c])}
  BY <1>1, PendingHead DEF Pending
<1>3. saved[c] \cup Pending(c) = Complete(req[c].set, req[c].form)
  BY DEF IInv, OnCourse
<1>4. req[c].set \notin SeriesSets =>
         todo[c] = <<Complete(req[c].set, req[c].form)>> /\ saved[c] = {}
  BY DEF IInv, OnCourse
<1>5. req[c].set \notin SeriesSets =>
         /\ Head(todo[c]) = Complete(req[c].set, req[c].form)
         /\ Tail(todo[c]) = <<>> /\ saved[c] = {}
  <2> DEFINE rows == Complete(req[c].set, req[c].form)
  <2>1. Head(<<rows>>) = rows /\ Tail(<<rows>>) = <<>>
    <3> HIDE DEF rows
    <3> QED OBVIOUS
  <2> HIDE DEF rows
  <2> QED BY <1>4, <2>1 DEF rows
<1> QED BY <1>2, <1>3, <1>5

LEMMA OnCourseNext ==
    ASSUME IInv, NEW c \in Client, pc[c] = "save", todo[c] # <<>>,
           todo'[c] = Tail(todo[c]), saved'[c] = saved[c] \cup Head(todo[c]),
           UNCHANGED <<pc, req, now, file, answer>>
    PROVE  NothingYet(c)' /\ PastGate(c)' /\ OnCourse(c)'
<1>1. NothingYet(c)'
  BY DEF IInv, NothingYet
<1>2. PastGate(c)'
  <2>1. Verdict(req[c].set, now[c])' = Verdict(req[c].set, now[c])
    BY DEF Verdict, EffectiveUpcoming, OpenAt
  <2> QED BY <2>1 DEF IInv, PastGate
<1>3. OnCourse(c)'
  <2>1. /\ Complete(req[c].set, req[c].form)' = Complete(req[c].set, req[c].form)
        /\ WholeFormRejected(req[c].set, req[c].form)' =
             WholeFormRejected(req[c].set, req[c].form)
    BY DEF Complete, WholeFormRejected, Having, Recorded, Items
  <2>2. saved'[c] \cup Pending(c)' = saved[c] \cup Pending(c)
    BY NextCall DEF Pending
  <2>3. req[c].set \notin SeriesSets => todo'[c] = <<>>
    BY NextCall
  <2> QED BY <2>1, <2>2, <2>3 DEF IInv, OnCourse
<1> QED BY <1>1, <1>2, <1>3

LEMMA SkipIInv == ASSUME NEW c \in Client PROVE IInv /\ Skip(c) => IInv'
<1> SUFFICES ASSUME IInv, Skip(c) PROVE IInv'
  OBVIOUS
<1>1. /\ pc[c] = "save" /\ todo[c] # <<>> /\ Head(todo[c]) = {}
      /\ todo' = [todo EXCEPT ![c] = Tail(todo[c])]
      /\ UNCHANGED <<clock, file, table, pc, req, now, saved, audited, answer>>
  BY DEF Skip, PassesOver, request
<1>2. TypeOK' /\ todo'[c] = Tail(todo[c])
  BY <1>1, NextCall DEF IInv, TypeOK
<1>3. NothingYet(c)' /\ PastGate(c)' /\ OnCourse(c)'
  BY <1>1, <1>2, OnCourseNext
<1>4. \A d \in Client : d # c => todo'[d] = todo[d]
  BY <1>1 DEF IInv, TypeOK
<1> QED BY <1>1, <1>2, <1>3, <1>4, TableKeeps, StepOf

(* A divisions form that is being saved has a team list for each division. *)
LEMMA TeamsComplete ==
    ASSUME IInv, NEW c \in Client, pc[c] = "save", todo[c] # <<>>,
           req[c].set = "divisions", NEW d \in Division
    PROVE  /\ <<d, "teams">> \in Head(todo[c])
           /\ <<"divisions", <<d, "teams">> >> \in Key
<1> DEFINE i == <<d, "teams">>
           s == req[c].set
           f == req[c].form
<1>1. s \in SetId /\ f \in Forms(s) /\ s \notin SeriesSets /\ s \notin SingleSets
  BY AtForm DEF SeriesSets, SingleSets
<1>2. i \in Items(s) /\ i \in Recorded(s)
  BY <1>1 DEF Items, Recorded
<1>3. f[i] \in Pick \cup {Bad}
  <2>1. f[i] \in Entries(s, i)
    BY <1>1, <1>2 DEF Forms
  <2> QED BY <2>1 DEF Entries
<1>4. f[i] # Bad
  BY <1>1, <1>2 DEF IInv, OnCourse, WholeFormRejected, Having
<1>5. i \in Complete(s, f)
  BY <1>2, <1>3, <1>4 DEF Complete
<1>6. Head(todo[c]) = Complete(s, f)
  BY <1>1, NextCall
<1>7. <<"divisions", i>> \in Key
  BY <1>1, <1>2, KeyParts
<1> QED BY <1>5, <1>6, <1>7

(* What a store call writes: one player's rows of one set, stamped with    *)
(* the clock reading of the gate.                                          *)
LEMMA SavedRows ==
    ASSUME IInv, NEW c \in Client, Save(c)
    PROVE  /\ table' \in [Player -> [Key -> Row \cup {NoRow}]]
           /\ \A q \in Player : q # req[c].player => table'[q] = table[q]
           /\ \A k \in Key :
                 IF k[1] = req[c].set /\ k[2] \in Head(todo[c])
                   THEN /\ table'[req[c].player][k] \in Row
                        /\ table'[req[c].player][k].at = Stamp(now[c])
                   ELSE table'[req[c].player][k] = table[req[c].player][k]
<1> DEFINE p == req[c].player
           s == req[c].set
           f == req[c].form
           h == Head(todo[c])
           stamp == Stamp(now[c])
           rows == [k \in Key |-> IF k[1] = s /\ k[2] \in h
                                    THEN [pick |-> f[k[2]], at |-> stamp]
                                    ELSE table[p][k]]
<1>1. pc[c] = "save" /\ todo[c] # <<>>
  BY DEF Save
<1>2. p \in Player /\ file \in Files /\ s \in DOMAIN file /\ stamp \in Nat
  BY <1>1, AtForm, StampNat
<1>3. \A i \in h : f[i] \in Pick
  BY <1>1, <1>2, NextCall, CompleteItems
<1>4. table \in [Player -> [Key -> Row \cup {NoRow}]]
  BY DEF IInv, TypeOK
<1>5. table' = [table EXCEPT ![p] = rows]
  BY DEF Save
<1> HIDE DEF p, s, f, h, stamp
<1>6. \A k \in Key : rows[k] \in Row \cup {NoRow}
  BY <1>2, <1>3, <1>4 DEF Row
<1>7. rows \in [Key -> Row \cup {NoRow}]
  BY <1>6
<1>8. \A k \in Key : k[1] = s /\ k[2] \in h => rows[k] \in Row /\ rows[k].at = stamp
  BY <1>2, <1>3 DEF Row
<1>9. \A k \in Key : ~(k[1] = s /\ k[2] \in h) => rows[k] = table[p][k]
  OBVIOUS
<1> HIDE DEF rows
<1>10. table'[p] = rows
  BY <1>2, <1>4, <1>5
<1> QED BY <1>2, <1>4, <1>5, <1>7, <1>8, <1>9, <1>10 DEF p, s, f, h, stamp

LEMMA SaveIInv == ASSUME NEW c \in Client PROVE IInv /\ Save(c) => IInv'
<1> SUFFICES ASSUME IInv, Save(c) PROVE IInv'
  OBVIOUS
<1> DEFINE p == req[c].player
           s == req[c].set
           h == Head(todo[c])
<1>1. /\ pc[c] = "save" /\ todo[c] # <<>>
      /\ todo' = [todo EXCEPT ![c] = Tail(todo[c])]
      /\ saved' = [saved EXCEPT ![c] = saved[c] \cup Head(todo[c])]
      /\ UNCHANGED <<clock, file, pc, req, now, audited, answer>>
  BY DEF Save, request
<1>2. TypeOK'
  BY <1>1, NextCall, SavedRows DEF IInv, TypeOK
<1>3. todo'[c] = Tail(todo[c]) /\ saved'[c] = saved[c] \cup Head(todo[c])
  BY <1>1 DEF IInv, TypeOK
<1>4. NothingYet(c)' /\ PastGate(c)' /\ OnCourse(c)'
  BY <1>1, <1>3, OnCourseNext
<1>5. \A d \in Client : d # c => todo'[d] = todo[d] /\ saved'[d] = saved[d]
  BY <1>1 DEF IInv, TypeOK
<1>6. p \in Player /\ s \in Pickable
  BY <1>1, AtForm
<1>7. \A q \in Player : q # p => table'[q] = table[q]
  BY SavedRows
<1>8. \A k \in Key : k[1] = s /\ k[2] \in h =>
         table'[p][k] # NoRow /\ table'[p][k].at = Stamp(now[c])
  BY SavedRows, SheetAssumption DEF Row
<1>9. \A k \in Key : ~(k[1] = s /\ k[2] \in h) => table'[p][k] = table[p][k]
  BY SavedRows
<1>10. s = "divisions" => \A d \in Division : <<d, "teams">> \in h
  BY <1>1, TeamsComplete
<1> DEFINE teams(d) == <<"divisions", <<d, "teams">> >>
<1> HIDE DEF p, s, h
<1>11. \A d \in Division : "divisions" \in SetId => teams(d) \in Key
  BY KeyParts DEF Items
<1>12. ASSUME NEW q \in Player, NEW k \in Key, table'[q][k] # NoRow
       PROVE  /\ k[1] \in Pickable
              /\ \A d \in Division : k = <<"divisions", <<d, "winner">> >> =>
                     table'[q][teams(d)] # NoRow
  <2>1. k[1] \in Pickable
    BY <1>6, <1>7, <1>9, <1>12 DEF IInv, RowsOfForms
  <2>2. ASSUME NEW d \in Division, k = <<"divisions", <<d, "winner">> >>
        PROVE  table'[q][teams(d)] # NoRow
    <3>1. teams(d) \in Key /\ k[1] = "divisions"
      BY <1>11, <2>2, KeyParts
    <3>2. CASE q # p
      BY <1>7, <1>12, <2>2, <3>2 DEF IInv, RowsOfForms
    <3>3. CASE q = p /\ s = "divisions"
      BY <1>8, <1>10, <3>1, <3>3
    <3>4. CASE q = p /\ s # "divisions"
      <4>1. table'[q][k] = table[q][k] /\ table'[q][teams(d)] = table[q][teams(d)]
        BY <1>9, <3>1, <3>4
      <4> QED BY <1>12, <2>2, <4>1 DEF IInv, RowsOfForms
    <3> QED BY <3>2, <3>3, <3>4
  <2> QED BY <2>1, <2>2
<1>13. RowsOfForms'
  BY <1>12 DEF RowsOfForms
<1>14. DivisionsOfOneForm'
  <2> SUFFICES ASSUME "divisions" \in SetId, NEW q \in Player,
                      NEW d \in Division, NEW e \in Division
               PROVE  /\ table'[q][teams(d)] = NoRow <=> table'[q][teams(e)] = NoRow
                      /\ table'[q][teams(d)] # NoRow =>
                            table'[q][teams(d)].at = table'[q][teams(e)].at
    BY DEF DivisionsOfOneForm
  <2>1. teams(d) \in Key /\ teams(e) \in Key
    BY <1>11
  <2>2. CASE q = p /\ s = "divisions"
    BY <1>8, <1>10, <2>1, <2>2
  <2>3. CASE ~(q = p /\ s = "divisions")
    <3>1. table'[q][teams(d)] = table[q][teams(d)] /\
          table'[q][teams(e)] = table[q][teams(e)]
      BY <1>7, <1>9, <2>1, <2>3
    <3> QED BY <3>1 DEF IInv, DivisionsOfOneForm
  <2> QED BY <2>2, <2>3
<1> QED BY <1>1, <1>2, <1>4, <1>5, <1>13, <1>14, StepOf

LEMMA NextIInv == IInv /\ [Next]_vars => IInv'
<1> SUFFICES ASSUME IInv, [Next]_vars PROVE IInv'
  OBVIOUS
<1>1. CASE Tick
  BY <1>1, TickIInv
<1>2. ASSUME NEW f \in Files, Restart(f) PROVE IInv'
  BY <1>2, RestartIInv
<1>3. ASSUME NEW c \in Client, Submit(c) \/ Handle(c) PROVE IInv'
  BY <1>3, SubmitIInv, AnswersIInv, AcceptIInv, ValidateIInv, SkipIInv, SaveIInv
     DEF Handle
<1>4. CASE UNCHANGED vars
  <2>1. TypeOK'
    BY <1>4 DEF IInv, TypeOK, vars
  <2>2. ASSUME NEW d \in Client
        PROVE  NothingYet(d)' /\ PastGate(d)' /\ OnCourse(d)'
    BY <1>4, OthersKeep DEF IInv, vars
  <2>3. table' = table
    BY <1>4 DEF vars
  <2> QED BY <2>1, <2>2, <2>3, TableKeeps DEF IInv
<1> QED BY <1>1, <1>2, <1>3, <1>4 DEF Next

(***************************************************************************)
(* Theorems                                                                *)
(***************************************************************************)

(* In every reachable state the types are right, a request past the gate   *)
(* carries a time at which its set was open, what it has saved and has yet *)
(* to save is what its form completes, and the divisions on file are of    *)
(* one form (handleSheetSubmit and the save functions of the four forms).  *)
THEOREM SheetInvariant == Spec => []IInv
BY InitIInv, NextIInv, PTL DEF Spec

(* The Predict list, the submit handler and the Compare tab, each deciding *)
(* by code of its own, agree on every set at every instant.                *)
THEOREM PagesAgreeWithGate == Spec => []ListAgreesWithGate
<1>1. IInv => ListAgreesWithGate
  <2> SUFFICES ASSUME IInv, NEW p \in Player PROVE
        /\ \A s \in Pickable \cap DOMAIN file :
             file[s].deadline # Unparseable =>
                Verdict(s, clock) =
                    IF Status(p, s, clock) = "Upcoming" THEN "notFound"
                    ELSE IF Status(p, s, clock) = "Closed" THEN "forbidden"
                    ELSE "accepted"
        /\ \A s \in SetId \cap DOMAIN file :
             Compared(s) = {s} <=> Listed(s) /\ Status(p, s, clock) # "Upcoming"
        /\ \A s \in SetId : \A shown \in Compared(s) :
             IF shown = "note" THEN Listed(s) /\ Status(p, s, clock) = "Upcoming"
             ELSE shown # "nothing" => Verdict(shown, clock) # "notFound" \/
                                       shown \notin Pickable
    BY DEF ListAgreesWithGate
  <2>1. file \in Files /\ clock \in Nat
    BY DEF IInv, TypeOK
  <2>2. \A s \in DOMAIN file : s \in SetId /\ s # "note" /\ s # "nothing" /\
           (file[s].deadline # Unparseable => file[s].deadline \in Nat)
    BY <2>1, FileListings, SheetAssumption DEF Listing
  <2>3. \A s : (Status(p, s, clock) = "Upcoming") <=> EffectiveUpcoming(s)
    BY DEF Status
  <2>4. \A s \in CompareChips : s \in DOMAIN file /\ Listed(s) /\ ~EffectiveUpcoming(s)
    BY DEF CompareChips, Comparable, Listed
  <2>5. CompareDefaults \subseteq CompareChips
    BY DEF CompareDefaults
  <2>6. ASSUME NEW s \in Pickable \cap DOMAIN file, file[s].deadline # Unparseable
        PROVE  Verdict(s, clock) =
                  IF Status(p, s, clock) = "Upcoming" THEN "notFound"
                  ELSE IF Status(p, s, clock) = "Closed" THEN "forbidden"
                  ELSE "accepted"
    <3>1. CASE EffectiveUpcoming(s)
      BY <2>3, <2>6, <3>1 DEF Verdict
    <3>2. CASE ~EffectiveUpcoming(s)
      <4>1. (Status(p, s, clock) = "Closed") <=> ~OpenAt(s, clock)
        BY <2>1, <2>2, <2>6, <3>2 DEF Status, OpenAt
      <4> QED BY <2>3, <2>6, <3>2, <4>1 DEF Verdict
    <3> QED BY <3>1, <3>2
  <2>7. ASSUME NEW s \in SetId \cap DOMAIN file
        PROVE  Compared(s) = {s} <=> Listed(s) /\ Status(p, s, clock) # "Upcoming"
    <3>1. CASE s \in CompareChips
      BY <2>3, <2>4, <3>1 DEF Compared
    <3>2. CASE s \notin CompareChips
      <4>1. ~(Listed(s) /\ Status(p, s, clock) # "Upcoming")
        BY <2>3, <3>2 DEF CompareChips, Comparable, Listed
      <4>2. Compared(s) # {s}
        BY <2>2, <2>5, <3>2 DEF Compared
      <4> QED BY <4>1, <4>2
    <3> QED BY <3>1, <3>2
  <2>8. ASSUME NEW s \in SetId, NEW shown \in Compared(s)
        PROVE  IF shown = "note" THEN Listed(s) /\ Status(p, s, clock) = "Upcoming"
               ELSE shown # "nothing" => Verdict(shown, clock) # "notFound" \/
                                         shown \notin Pickable
    <3>1. shown \in CompareChips \/ shown = "nothing" \/ (shown = "note" /\ IsGatedRound(s))
      BY <2>5, <2>8 DEF Compared
    <3>2. CASE shown \in CompareChips
      BY <2>2, <2>4, <3>2 DEF Verdict, Listed
    <3>3. CASE shown = "note" /\ IsGatedRound(s)
      BY <2>3, <3>3 DEF IsGatedRound, Comparable, Listed, EffectiveUpcoming
    <3>4. CASE shown = "nothing"
      BY <3>4
    <3> QED BY <3>1, <3>2, <3>3, <3>4
  <2> QED BY <2>6, <2>7, <2>8
<1> QED BY <1>1, SheetInvariant, PTL

(* setSubmitted is right to look only at the team lists of the divisions   *)
(* set: a set is Submitted exactly when the player's column has a value.   *)
THEOREM SubmittedIsSaved == Spec => []SubmittedMeansSaved
<1>1. IInv => SubmittedMeansSaved
  <2> SUFFICES ASSUME IInv, NEW p \in Player, NEW s \in DOMAIN file
               PROVE  Submitted(p, s) <=> Column(p, s) # {}
    BY DEF SubmittedMeansSaved
  <2>1. s \in SetId /\ Recorded(s) \subseteq Items(s)
    BY FileListings, RecordedItems DEF IInv, TypeOK
  <2>2. ASSUME Submitted(p, s) PROVE Column(p, s) # {}
    <3>1. PICK i \in Recorded(s) : table[p][<<s, i>>] # NoRow
      BY <2>2 DEF Submitted
    <3>2. <<s, i>> \in Key
      BY <2>1, KeyParts
    <3>3. s \in Pickable
      BY <3>1, <3>2 DEF IInv, RowsOfForms
    <3> QED BY <3>1, <3>3 DEF Column
  <2>3. ASSUME NEW i \in Column(p, s) PROVE Submitted(p, s)
    <3>1. i \in Recorded(s) /\ table[p][<<s, i>>] # NoRow
      BY DEF Column
    <3>2. CASE s # "divisions" \/ i[2] = "teams"
      BY <3>1, <3>2 DEF Submitted
    <3>3. CASE s = "divisions" /\ i[2] # "teams"
      <4>1. Items(s) = Division \X {"teams", "winner"} /\ Recorded(s) = Items(s)
        BY <3>3 DEF Items, Recorded, SeriesSets
      <4>2. PICK d \in Division : i = <<d, "winner">>
        BY <3>1, <3>3, <4>1
      <4>3. <<s, i>> \in Key
        BY <2>1, <3>1, KeyParts
      <4>4. table[p][<<s, <<d, "teams">> >>] # NoRow
        BY <3>1, <3>3, <4>2, <4>3 DEF IInv, RowsOfForms
      <4>5. <<d, "teams">> \in Recorded(s) /\ <<d, "teams">>[2] = "teams"
        BY <4>1
      <4> QED BY <4>4, <4>5 DEF Submitted
    <3> QED BY <3>2, <3>3
  <2> QED BY <2>2, <2>3
<1> QED BY <1>1, SheetInvariant, PTL

(* The team lists of a player always come from one divisions form: their   *)
(* conference totals were validated together.                              *)
THEOREM DivisionsComeFromOneForm == Spec => []DivisionsOfOneForm
BY SheetInvariant, PTL DEF IInv

(* Only a recorded item of a set that is not Upcoming is ever written, and *)
(* the row's submitted_at lies strictly before the deadline.               *)
THEOREM RowsAreStampedBeforeDeadline == Spec => StampedBeforeDeadline
<1>1. IInv /\ [Next]_vars =>
        [\A p \in Player, k \in Key : table'[p][k] # table[p][k] =>
           /\ k[1] \in DOMAIN file
           /\ k[2] \in Recorded(k[1])
           /\ ~EffectiveUpcoming(k[1])
           /\ table'[p][k].at < file[k[1]].deadline]_vars
  <2> SUFFICES ASSUME IInv, Next, NEW p \in Player, NEW k \in Key,
                      table'[p][k] # table[p][k]
               PROVE  /\ k[1] \in DOMAIN file
                      /\ k[2] \in Recorded(k[1])
                      /\ ~EffectiveUpcoming(k[1])
                      /\ table'[p][k].at < file[k[1]].deadline
    OBVIOUS
  <2>1. PICK c \in Client : Save(c)
    <3>1. CASE Tick
      BY <3>1 DEF Tick
    <3>2. CASE \E f \in Files : Restart(f)
      BY <3>2 DEF Restart
    <3>3. CASE \E c \in Client : Submit(c) \/ Handle(c)
      BY <3>3 DEF Submit, Handle, TurnAway, Accept, ReadFails, Reject, Validate,
                  Skip, SaveFails, Finish
    <3> QED BY <3>1, <3>2, <3>3 DEF Next
  <2>2. pc[c] = "save" /\ todo[c] # <<>>
    BY <2>1 DEF Save
  <2>3. p = req[c].player /\ k[1] = req[c].set /\ k[2] \in Head(todo[c])
    BY <2>1, SavedRows
  <2>4. table'[p][k].at = Stamp(now[c])
    BY <2>1, <2>3, SavedRows
  <2>5. /\ file \in Files /\ k[1] \in DOMAIN file /\ ~EffectiveUpcoming(k[1])
        /\ file[k[1]].deadline \in Nat /\ now[c] \in Nat
        /\ now[c] < file[k[1]].deadline
    BY <2>2, <2>3, AtForm
  <2>6. k[2] \in Recorded(k[1])
    BY <2>2, <2>3, <2>5, NextCall, CompleteItems
  <2>7. Stamp(now[c]) \in Nat /\ Stamp(now[c]) <= now[c]
    BY <2>5, StampNat
  <2> QED BY <2>4, <2>5, <2>6, <2>7
<1> QED BY <1>1, SheetInvariant, PTL DEF Spec, StampedBeforeDeadline

(* The steps that change what the client of a request was told or what was *)
(* audited: the answer to it, the next submission, a restart.              *)
LEMMA AnswerSteps ==
    ASSUME IInv, Next, NEW c \in Client
    PROVE  \/ answer'[c] = answer[c] /\ audited'[c] = audited[c]
           \/ answer'[c] = "none" /\ audited'[c] = {}
           \/ /\ pc[c] # "idle" /\ audited'[c] = saved[c]
              /\ TurnAway(c) \/ ReadFails(c) \/ Reject(c) \/ SaveFails(c) \/ Finish(c)
<1>1. CASE Tick
  BY <1>1 DEF Tick
<1>2. ASSUME NEW f \in Files, Restart(f)
      PROVE  answer'[c] = "none" /\ audited'[c] = {}
  BY <1>2 DEF Restart
<1>3. ASSUME NEW d \in Client, Submit(d)
      PROVE  \/ answer'[c] = answer[c] /\ audited'[c] = audited[c]
             \/ answer'[c] = "none" /\ audited'[c] = {}
  BY <1>3 DEF Submit, IInv, TypeOK
<1>4. ASSUME NEW d \in Client, Accept(d) \/ Validate(d) \/ Skip(d) \/ Save(d)
      PROVE  answer'[c] = answer[c] /\ audited'[c] = audited[c]
  BY <1>4 DEF Accept, Validate, Skip, Save
<1>5. ASSUME NEW d \in Client, NEW response, Respond(d, response)
      PROVE  IF d = c THEN audited'[c] = saved[c]
             ELSE answer'[c] = answer[c] /\ audited'[c] = audited[c]
  BY <1>5 DEF Respond, Audited, IInv, TypeOK
<1>6. ASSUME NEW d \in Client,
             TurnAway(d) \/ ReadFails(d) \/ Reject(d) \/ SaveFails(d) \/ Finish(d)
      PROVE  /\ pc[d] # "idle"
             /\ IF d = c THEN audited'[c] = saved[c]
                ELSE answer'[c] = answer[c] /\ audited'[c] = audited[c]
  BY <1>5, <1>6 DEF TurnAway, ReadFails, Reject, SaveFails, Finish
<1> QED BY <1>1, <1>2, <1>3, <1>4, <1>6 DEF Next, Handle

(* The response is true: a redirect says that all complete entries are     *)
(* saved and nothing was refused, a rejection that nothing is saved, and a *)
(* failure leaves rows behind only of a series form.                       *)
THEOREM ResponsesAreTrue == Spec => AnswerTellsWhatWasSaved
<1>1. IInv /\ [Next]_vars =>
        [\A c \in Client : Answered(c) =>
           LET s == req[c].set
               f == req[c].form
           IN  /\ answer'[c] \in {"notFound", "forbidden", "rejected"} => saved[c] = {}
               /\ answer'[c] \in {"redirect", "flagged"} => saved[c] = Complete(s, f)
               /\ answer'[c] = "redirect" => ~Flagged(s, f) /\ ~WholeFormRejected(s, f)
               /\ answer'[c] = "failed" /\ saved[c] # {} => s \in SeriesSets]_vars
  <2> SUFFICES ASSUME IInv, Next, NEW c \in Client, Answered(c)
               PROVE  LET s == req[c].set
                          f == req[c].form
                      IN  /\ answer'[c] \in {"notFound", "forbidden", "rejected"} =>
                                 saved[c] = {}
                          /\ answer'[c] \in {"redirect", "flagged"} =>
                                 saved[c] = Complete(s, f)
                          /\ answer'[c] = "redirect" =>
                                 ~Flagged(s, f) /\ ~WholeFormRejected(s, f)
                          /\ answer'[c] = "failed" /\ saved[c] # {} =>
                                 s \in SeriesSets
    OBVIOUS
  <2> DEFINE s == req[c].set
             f == req[c].form
  <2>1. TurnAway(c) \/ ReadFails(c) \/ Reject(c) \/ SaveFails(c) \/ Finish(c)
    BY AnswerSteps DEF Answered
  <2>2. ASSUME NEW response, Respond(c, response) PROVE answer'[c] = response
    BY <2>2 DEF Respond, IInv, TypeOK
  <2>3. CASE TurnAway(c) \/ ReadFails(c) \/ Reject(c)
    <3>1. saved[c] = {}
      BY <2>3 DEF TurnAway, ReadFails, Reject, IInv, NothingYet
    <3>2. answer'[c] \in {"notFound", "forbidden", "failed", "rejected"}
      BY <2>2, <2>3, VerdictAnswers DEF TurnAway, ReadFails, Reject
    <3> QED BY <3>1, <3>2
  <2>4. CASE SaveFails(c)
    <3>1. answer'[c] = "failed" /\ pc[c] = "save" /\ todo[c] # <<>>
      BY <2>2, <2>4 DEF SaveFails
    <3> QED BY <3>1, NextCall
  <2>5. CASE Finish(c)
    <3>1. answer'[c] = IF Flagged(s, f) THEN "flagged" ELSE "redirect"
      BY <2>2, <2>5 DEF Finish
    <3>2. pc[c] = "save" /\ Pending(c) = {}
      BY <2>5 DEF Finish, Pending
    <3>3. saved[c] = Complete(s, f) /\ ~WholeFormRejected(s, f)
      BY <3>2 DEF IInv, OnCourse
    <3> QED BY <3>1, <3>3
  <2> QED BY <2>1, <2>3, <2>4, <2>5
<1> QED BY <1>1, SheetInvariant, PTL DEF Spec, AnswerTellsWhatWasSaved

(* Whatever way a request ends, exactly the rows it saved are audited.     *)
THEOREM AuditIsComplete == Spec => SavedRowsAudited
<1>1. IInv /\ [Next]_vars =>
        [\A c \in Client :
           /\ Answered(c) => audited'[c] = saved[c]
           /\ audited'[c] # audited[c] => Answered(c) \/ audited'[c] = {}]_vars
  <2> SUFFICES ASSUME IInv, Next, NEW c \in Client
               PROVE  /\ Answered(c) => audited'[c] = saved[c]
                      /\ audited'[c] # audited[c] => Answered(c) \/ audited'[c] = {}
    OBVIOUS
  <2>1. ASSUME pc[c] # "idle",
               TurnAway(c) \/ ReadFails(c) \/ Reject(c) \/ SaveFails(c) \/ Finish(c)
        PROVE  Answered(c)
    <3>1. answer[c] = "none"
      BY <2>1 DEF IInv, NothingYet
    <3>2. ASSUME NEW response, Respond(c, response) PROVE answer'[c] = response
      BY <3>2 DEF Respond, IInv, TypeOK
    <3>3. answer'[c] # "none"
      BY <2>1, <3>2, VerdictAnswers DEF TurnAway, ReadFails, Reject, SaveFails, Finish
    <3> QED BY <3>1, <3>3 DEF Answered
  <2> QED BY <2>1, AnswerSteps DEF Answered
<1> QED BY <1>1, SheetInvariant, PTL DEF Spec, SavedRowsAudited
=============================================================================
