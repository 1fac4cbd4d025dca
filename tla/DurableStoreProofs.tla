-------------------------- MODULE DurableStoreProofs --------------------------
(***************************************************************************)
(* Proofs about what the writes of Store make of the data file: WInv, which*)
(* adds to IInv what a write is about to change, the action properties that*)
(* follow from it, and the refinement of DurableStore, for every number of *)
(* clients, keys, picks and login codes.                                   *)
(***************************************************************************)
EXTENDS StoreProofs

(***************************************************************************)
(* Lemmas about the rows                                                   *)
(***************************************************************************)

(* With unique keys a key has the row that IndexOf finds, or none.         *)
LEMMA RowsOfKey ==
    ASSUME NEW rows \in Seq(Row), UniqueRows(rows), NEW k
    PROVE  RowsOf(rows, k) =
              IF HasRow(rows, k) THEN {rows[IndexOf(rows, k)]} ELSE {}
<1>1. CASE HasRow(rows, k)
  <2> DEFINE i == IndexOf(rows, k)
  <2>1. i \in 1..Len(rows) /\ rows[i].key = k
    BY <1>1, IndexOfFound
  <2> HIDE DEF i
  <2>2. \A j \in DOMAIN rows : rows[j].key = k => j = i
    BY <2>1 DEF UniqueRows
  <2>3. {j \in DOMAIN rows : rows[j].key = k} = {i}
    BY <2>1, <2>2
  <2>4. RowsOf(rows, k) = {rows[i]}
    BY <2>3 DEF RowsOf
  <2> QED BY <1>1, <2>4 DEF i
<1>2. CASE ~HasRow(rows, k)
  BY <1>2 DEF HasRow, RowsOf
<1> QED BY <1>1, <1>2

(* An upsert gives its key the new row and every other key what it had.    *)
LEMMA RowsOfUpsert ==
    ASSUME NEW rows \in Seq(Row), NEW row \in Row, UniqueRows(rows), NEW k
    PROVE  RowsOf(Upsert(rows, row), k) =
              IF k = row.key THEN {row} ELSE RowsOf(rows, k)
<1> DEFINE new == Upsert(rows, row)
<1>1. CASE HasRow(rows, row.key)
  <2> DEFINE i == IndexOf(rows, row.key)
  <2>1. i \in 1..Len(rows) /\ rows[i].key = row.key
    BY <1>1, IndexOfFound
  <2>2. new = [rows EXCEPT ![i] = row]
    BY <1>1 DEF Upsert
  <2> HIDE DEF i, new
  <2>3. \A j \in 1..Len(rows) : rows[j].key = row.key => j = i
    BY <2>1 DEF UniqueRows
  <2>4. DOMAIN new = 1..Len(rows) /\ DOMAIN rows = 1..Len(rows)
    BY <2>2
  <2>5. \A j \in 1..Len(rows) : new[j] = IF j = i THEN row ELSE rows[j]
    BY <2>2
  <2>6. CASE k = row.key
    <3>1. {j \in DOMAIN new : new[j].key = k} = {i}
      BY <2>1, <2>3, <2>4, <2>5, <2>6
    <3> QED BY <3>1, <2>1, <2>5, <2>6 DEF RowsOf, new
  <2>7. CASE k # row.key
    <3> DEFINE K == {j \in DOMAIN rows : rows[j].key = k}
    <3>1. {j \in DOMAIN new : new[j].key = k} = K /\ i \notin K
      BY <2>1, <2>4, <2>5, <2>7
    <3>2. \A j \in K : new[j] = rows[j]
      BY <3>1, <2>4, <2>5
    <3>3. {new[j] : j \in K} = {rows[j] : j \in K}
      <4> HIDE DEF K
      <4> QED BY <3>2
    <3> QED BY <3>1, <3>3, <2>7 DEF RowsOf, new
  <2> QED BY <2>6, <2>7
<1>2. CASE ~HasRow(rows, row.key)
  <2> DEFINE n == Len(rows) + 1
  <2>1. new = Append(rows, row)
    BY <1>2 DEF Upsert
  <2>2. \A j \in 1..Len(rows) : rows[j].key # row.key
    BY <1>2 DEF HasRow
  <2> HIDE DEF new
  <2>3. DOMAIN new = 1..n /\ DOMAIN rows = 1..Len(rows) /\ Len(rows) \in Nat
    BY <2>1
  <2>4. new[n] = row /\ \A j \in 1..Len(rows) : new[j] = rows[j]
    BY <2>1
  <2>5. CASE k = row.key
    <3>1. {j \in DOMAIN new : new[j].key = k} = {n}
      BY <2>2, <2>3, <2>4, <2>5
    <3> QED BY <3>1, <2>4, <2>5 DEF RowsOf, new
  <2>6. CASE k # row.key
    <3> DEFINE K == {j \in DOMAIN rows : rows[j].key = k}
    <3>1. {j \in DOMAIN new : new[j].key = k} = K
      BY <2>3, <2>4, <2>6
    <3>2. \A j \in K : new[j] = rows[j]
      BY <2>3, <2>4
    <3>3. {new[j] : j \in K} = {rows[j] : j \in K}
      <4> HIDE DEF K
      <4> QED BY <3>2
    <3> QED BY <3>1, <3>3, <2>6 DEF RowsOf, new
  <2> QED BY <2>5, <2>6
<1> QED BY <1>1, <1>2

(* An upsert moves no row, and makes a blank one only of a blank pick.     *)
LEMMA UpsertInPlace ==
    ASSUME NEW rows \in Seq(Row), NEW row \in Row
    PROVE  /\ SameKeys(rows, Upsert(rows, row))
           /\ BlankOnlyTeams(rows) /\ (row.pick = Blank => row.key \in TeamsKey)
                => BlankOnlyTeams(Upsert(rows, row))
<1>1. CASE HasRow(rows, row.key)
  <2> DEFINE i == IndexOf(rows, row.key)
  <2>1. i \in 1..Len(rows) /\ rows[i].key = row.key
    BY <1>1, IndexOfFound
  <2>2. Upsert(rows, row) = [rows EXCEPT ![i] = row]
    BY <1>1 DEF Upsert
  <2> HIDE DEF i
  <2> QED BY <2>1, <2>2 DEF SameKeys, BlankOnlyTeams
<1>2. CASE ~HasRow(rows, row.key)
  <2>1. Upsert(rows, row) = Append(rows, row)
    BY <1>2 DEF Upsert
  <2> QED BY <2>1 DEF SameKeys, BlankOnlyTeams
<1> QED BY <1>1, <1>2

(* A code stamped by the write that prunes with the same instant survives. *)
LEMMA FreshSurvives ==
    ASSUME NEW now \in Nat
    PROVE  Stamp(now) # Unparseable /\ ~(Stamp(now) > now)
              /\ ~(now - Stamp(now) > Validity)
<1>1. now % TicksPerSecond \in 0..(TicksPerSecond - 1)
  BY DataAssumption
<1>2. Stamp(now) \in Nat /\ Stamp(now) <= now /\ now - Stamp(now) < TicksPerSecond
  BY <1>1, StampNat, DataAssumption DEF Stamp
<1> QED BY <1>2, DataAssumption DEF Unparseable

(* No request is askable at any instant, and time does not undo it.        *)
LEMMA AskableStays ==
    ASSUME NEW now \in Nat
    PROVE  /\ Askable(NoRequest, now)
           /\ \A request \in Request :
                 Askable(request, now) => Askable(request, now + 1)
<1>1. NoRequest.now = 0 /\ NoRequest.op = "consumeCode" /\ NoRequest.picks = NoPicks
  BY DEF NoRequest
<1>2. Askable(NoRequest, now)
  BY <1>1 DEF Askable
<1>3. \A request \in Request : request.now <= now => request.now <= now + 1
  BY DEF Request
<1> QED BY <1>2, <1>3 DEF Askable

(***************************************************************************)
(* WInv: the initial states, and the steps outside a method                *)
(***************************************************************************)

(* With nobody inside a method there is little to show.                    *)
LEMMA NobodyHolds ==
    ASSUME IInv', WellAsked', left' = {}, \A c \in Client : pc'[c] \notin Held,
           BlankOnlyTeams(predictions)', NoForcedRows'
    PROVE  WInv'
BY DEF WInv, LeftInBatch, PicksApplied, RowsInPlace, CodesApplied

LEMMA InitWInv == Init => WInv
<1> SUFFICES ASSUME Init PROVE WInv
  OBVIOUS
<1>1. IInv
  BY InitIInv
<1>2. WellAsked
  BY AskableStays DEF Init, WellAsked
<1>3. BlankOnlyTeams(predictions) /\ NoForcedRows
  <2>1. predictions = <<>> /\ (disk # NoDoc => disk.predictions = <<>>)
    BY DEF Init
  <2> QED BY <2>1 DEF BlankOnlyTeams, NoForcedRows
<1>4. LeftInBatch /\ \A c \in Client : pc[c] \notin Held
  BY DEF Init, LeftInBatch, Held, Uncommitted
<1> QED BY <1>1, <1>2, <1>3, <1>4
        DEF WInv, PicksApplied, RowsInPlace, CodesApplied

(* Without a server there is no request.                                   *)
LEMMA StoppedWInv ==
    ASSUME WInv, IInv', ~up \/ ~up', left' = {}, clock' = clock,
           req' = req \/ req' = [c \in Client |-> NoRequest],
           pc' = pc \/ pc' = [c \in Client |-> "idle"],
           ~up => pc' = pc,
           BlankOnlyTeams(predictions)', NoForcedRows'
    PROVE  WInv'
<1>1. \A c \in Client : pc'[c] \notin Held
  BY DEF WInv, IInv, LockHeld, Held, Uncommitted
<1>2. WellAsked'
  BY AskableStays DEF WInv, IInv, TypeOK, WellAsked
<1> QED BY <1>1, <1>2, NobodyHolds

LEMMA StartStopWInv ==
    WInv /\ (Load \/ Bootstrap \/ Crash \/ \E tree \in EditedTree : Edit(tree)) => WInv'
<1> SUFFICES ASSUME WInv, Load \/ Bootstrap \/ Crash \/ \E tree \in EditedTree : Edit(tree)
             PROVE  WInv'
  OBVIOUS
<1>1. IInv'
  BY LoadIInv, BootstrapIInv, CrashIInv, EditIInv DEF WInv
<1>2. ~up => left = {}
  BY DEF WInv, IInv, LockHeld, LeftInBatch
<1>3. CASE Load
  <2>1. BlankOnlyTeams(predictions)' /\ NoForcedRows'
    BY <1>3 DEF WInv, NoForcedRows, BlankOnlyTeams, Load
  <2> QED BY <1>1, <1>2, <1>3, <2>1, StoppedWInv DEF Load, caller
<1>4. CASE Bootstrap
  <2>1. predictions' = <<>> /\ disk'.predictions = <<>>
    BY <1>4 DEF Bootstrap, EmptyDocument
  <2>2. BlankOnlyTeams(predictions)' /\ NoForcedRows'
    BY <2>1 DEF NoForcedRows, BlankOnlyTeams
  <2> QED BY <1>1, <1>2, <1>4, <2>2, StoppedWInv DEF Bootstrap, caller
<1>5. CASE Crash
  <2>1. BlankOnlyTeams(predictions)' /\ NoForcedRows'
    BY <1>5 DEF WInv, NoForcedRows, BlankOnlyTeams, Crash
  <2> QED BY <1>1, <1>5, <2>1, StoppedWInv DEF Crash
<1>6. ASSUME NEW tree \in EditedTree, Edit(tree) PROVE WInv'
  <2>1. disk \in Document
    BY <1>6 DEF WInv, IInv, TypeOK, Edit
  <2>2. disk # NoDoc /\ disk'.predictions = disk.predictions /\ predictions' = predictions
    BY <1>6, <2>1 DEF Edit, document, Document
  <2>3. BlankOnlyTeams(predictions)' /\ NoForcedRows'
    BY <2>2 DEF WInv, NoForcedRows, BlankOnlyTeams
  <2> QED BY <1>1, <1>2, <1>6, <2>3, StoppedWInv DEF Edit, document, caller
<1> QED BY <1>3, <1>4, <1>5, <1>6

(* Steps of the clock and of requests outside a method.                    *)
LEMMA OutsideWInv ==
    ASSUME WInv, IInv', WellAsked',
           UNCHANGED <<document, disk, left, undo, issuedCodes>>,
           \A c \in Client : pc'[c] \in Held \/ pc[c] \in Held =>
              pc'[c] = pc[c] /\ req'[c] = req[c]
    PROVE  WInv'
<1> USE DEF WInv, document
<1>1. LeftInBatch'
  BY DEF LeftInBatch, Held, Uncommitted
<1>2. PicksApplied'
  <2> SUFFICES ASSUME NEW c \in Client, pc'[c] \in Held, NEW k \in Key
               PROVE  RowsOf(predictions', k) =
                        IF k \in Qualifying(req'[c].picks) \ left'
                          THEN {RequestedRow(c, k)'}
                          ELSE RowsOf(disk'.predictions, k)
    BY DEF PicksApplied
  <2>1. RequestedRow(c, k)' = RequestedRow(c, k)
    BY DEF RequestedRow
  <2> QED BY <2>1 DEF PicksApplied
<1>3. RowsInPlace' /\ CodesApplied'
  BY DEF RowsInPlace, CodesApplied
<1>4. NoForcedRows' /\ BlankOnlyTeams(predictions)'
  BY DEF NoForcedRows, BlankOnlyTeams
<1> QED BY <1>1, <1>2, <1>3, <1>4

LEMMA TickWInv == WInv /\ Tick => WInv'
<1> SUFFICES ASSUME WInv, Tick PROVE WInv'
  OBVIOUS
<1>1. IInv'
  BY TickIInv DEF WInv
<1>2. WellAsked'
  BY AskableStays DEF WInv, IInv, TypeOK, WellAsked, Tick, caller
<1> QED BY <1>1, <1>2, OutsideWInv DEF Tick, caller

LEMMA CallWInv == ASSUME NEW c \in Client PROVE WInv /\ Call(c) => WInv'
<1> SUFFICES ASSUME WInv, Call(c) PROVE WInv'
  OBVIOUS
<1>1. IInv'
  BY CallIInv DEF WInv
<1>2. PICK op \in Op : \E ask \in Asks(op) :
         req' = [req EXCEPT ![c] = [op |-> op, picks |-> ask.picks,
                                    code |-> ask.code, now |-> clock]]
  BY DEF Call
<1>3. PICK ask \in Asks(op) :
         req' = [req EXCEPT ![c] = [op |-> op, picks |-> ask.picks,
                                    code |-> ask.code, now |-> clock]]
  BY <1>2
<1>4. Askable([op |-> op, picks |-> ask.picks, code |-> ask.code, now |-> clock],
              clock)
  <2>1. op = "savePick" => \E k \in Key \ TeamsKey : ask.picks \in [{k} -> Pick]
    BY DEF Asks
  <2>2. op \in LoginOps => ask.picks = NoPicks
    BY DEF Asks, LoginOps
  <2>3. clock <= clock
    BY DEF WInv, IInv, TypeOK
  <2> DEFINE r == [op |-> op, picks |-> ask.picks, code |-> ask.code, now |-> clock]
  <2>4. r.op = op /\ r.picks = ask.picks /\ r.now = clock
    OBVIOUS
  <2> HIDE DEF r
  <2>5. Askable(r, clock)
    BY <2>1, <2>2, <2>3, <2>4 DEF Askable
  <2> QED BY <2>5 DEF r
<1>6. WellAsked'
  BY <1>3, <1>4 DEF WInv, IInv, TypeOK, WellAsked, Call
<1>7. \A d \in Client : pc'[d] \in Held \/ pc[d] \in Held =>
         pc'[d] = pc[d] /\ req'[d] = req[d]
  BY DEF WInv, IInv, TypeOK, Call, Held, Uncommitted
<1> QED BY <1>1, <1>6, <1>7, OutsideWInv DEF Call

LEMMA RejectWInv ==
    ASSUME NEW c \in Client PROVE WInv /\ RejectLoginCode(c) => WInv'
<1> SUFFICES ASSUME WInv, RejectLoginCode(c) PROVE WInv'
  OBVIOUS
<1> USE DEF RejectLoginCode, Enter, Return, Goto
<1>1. IInv'
  BY RejectIInv DEF WInv
<1>2. WellAsked'
  BY AskableStays DEF WInv, IInv, TypeOK, WellAsked
<1>3. \A d \in Client : pc'[d] \in Held \/ pc[d] \in Held =>
         pc'[d] = pc[d] /\ req'[d] = req[d]
  BY DEF WInv, IInv, TypeOK, Held, Uncommitted
<1> QED BY <1>1, <1>2, <1>3, OutsideWInv

(***************************************************************************)
(* WInv: the steps of a method                                             *)
(***************************************************************************)

(* What the holder of the lock has to show.                                *)
LEMMA HolderWrites ==
    ASSUME NEW c \in Client, IInv', lock' = c, WellAsked', LeftInBatch',
           \A k \in Key : RowsOf(predictions', k) =
              IF k \in Qualifying(req'[c].picks) \ left' THEN {RequestedRow(c, k)'}
                                                       ELSE RowsOf(disk'.predictions, k),
           SameKeys(disk'.predictions, predictions'),
           req'[c].op = "createCode" =>
              [id |-> issuedCodes', code |-> req'[c].code,
               issued |-> Stamp(req'[c].now), used |-> FALSE] \in codes',
           req'[c].op = "consumeCode" =>
              \E r \in codes' :
                 /\ r.id = undo'.index /\ r.used
                 /\ Redeemable(WithUsed(r, FALSE), req'[c].code, req'[c].now),
           NoForcedRows', BlankOnlyTeams(predictions')
    PROVE  WInv'
<1>1. \A d \in Client : pc'[d] \in Held => d = c
  BY DEF IInv, LockHeld
<1>2. PicksApplied'
  <2> SUFFICES ASSUME NEW d \in Client, pc'[d] \in Held, NEW k \in Key
               PROVE  RowsOf(predictions', k) =
                        IF k \in Qualifying(req'[d].picks) \ left'
                          THEN {RequestedRow(d, k)'}
                          ELSE RowsOf(disk'.predictions, k)
    BY DEF PicksApplied
  <2>1. d = c
    BY <1>1
  <2> QED BY <2>1
<1>3. RowsInPlace' /\ CodesApplied'
  BY <1>1 DEF RowsInPlace, CodesApplied
<1>4. BlankOnlyTeams(predictions)'
  BY DEF BlankOnlyTeams
<1> QED BY <1>2, <1>3, <1>4 DEF WInv

(* A method that gets the lock finds nothing left of another's batch.      *)
LEMMA NothingLeft ==
    ASSUME WInv, \A d \in Client : pc[d] # "upsert"
    PROVE  left = {}
BY DEF WInv, LeftInBatch

LEMMA WriterEnters ==
    ASSUME WInv, NEW c \in Client, NEW op, Enter(c, op)
    PROVE  /\ left = {}
           /\ disk.predictions = predictions /\ disk # NoDoc
           /\ req[c] \in Request /\ req[c].op = op /\ Askable(req[c], clock)
           /\ predictions \in Seq(Row) /\ UniqueRows(predictions)
           /\ BlankOnlyTeams(predictions)
           /\ SameKeys(predictions, predictions)
<1>1. IInv /\ \A d \in Client : pc[d] \notin Held
  BY AtEntry DEF WInv
<1>2. left = {}
  BY <1>1, NothingLeft DEF Held, Uncommitted
<1> QED BY <1>1, <1>2, AtEntry
        DEF WInv, IInv, TypeOK, WellAsked, Enter, SameKeys

LEMMA SavePickWInv == ASSUME NEW c \in Client PROVE WInv /\ SavePick(c) => WInv'
<1> SUFFICES ASSUME WInv, SavePick(c) PROVE WInv'
  OBVIOUS
<1>1. IInv'
  BY SavePickIInv DEF WInv
<1>2. Enter(c, "savePick")
  BY DEF SavePick
<1>3. PICK k \in DOMAIN req[c].picks :
         predictions' = Upsert(predictions, RequestedRow(c, k))
  BY DEF SavePick
<1>4. PICK q \in Key \ TeamsKey : req[c].picks \in [{q} -> Pick]
  BY <1>2, WriterEnters DEF Askable
<1>5. k = q /\ Qualifying(req[c].picks) = {k} /\ req[c].picks[k] # Blank
  BY <1>3, <1>4, DataAssumption DEF Qualifying
<1> DEFINE row == RequestedRow(c, k)
<1>6. row \in Row /\ row.key = k /\ row.pick # Blank
  BY <1>2, <1>5, WriterEnters, RequestedRowType DEF RequestedRow
<1>7. req' = req /\ disk' = disk /\ lock' = c /\ left' = {} /\ clock' = clock
      /\ pc' = [pc EXCEPT ![c] = "write"] /\ req[c].op = "savePick"
  BY <1>2, WriterEnters DEF SavePick, caller, Goto
<1>8. /\ \A p \in Key : RowsOf(predictions', p) =
            IF p = k THEN {row} ELSE RowsOf(predictions, p)
      /\ SameKeys(predictions, predictions')
      /\ BlankOnlyTeams(predictions')
  <2> HIDE DEF row
  <2> QED BY <1>2, <1>3, <1>6, WriterEnters, RowsOfUpsert, UpsertInPlace DEF row
<1>9. RequestedRow(c, k)' = row
  BY <1>7 DEF RequestedRow
<1>10. WellAsked' /\ LeftInBatch' /\ NoForcedRows'
  BY <1>7 DEF WInv, WellAsked, LeftInBatch, NoForcedRows
<1> HIDE DEF row
<1> QED BY <1>1, <1>2, <1>5, <1>7, <1>8, <1>9, <1>10, WriterEnters, HolderWrites

LEMMA BeginBatchWInv == ASSUME NEW c \in Client PROVE WInv /\ BeginBatch(c) => WInv'
<1> SUFFICES ASSUME WInv, BeginBatch(c) PROVE WInv'
  OBVIOUS
<1>1. IInv'
  BY BeginBatchIInv DEF WInv
<1>2. Enter(c, "saveBatch")
  BY DEF BeginBatch
<1>3. /\ req' = req /\ disk' = disk /\ lock' = c /\ predictions' = predictions
      /\ left' = Qualifying(req[c].picks) /\ clock' = clock
      /\ pc'[c] = (IF left' = {} THEN "write" ELSE "upsert")
      /\ req[c].op = "saveBatch"
  BY <1>2, WriterEnters DEF BeginBatch, caller, document, Goto, WInv, IInv, TypeOK
<1>4. LeftInBatch'
  <2>1. \A d \in Client : pc'[d] = "upsert" => d = c
    BY <1>1, <1>3 DEF IInv, LockHeld, Held, Uncommitted
  <2> QED BY <1>3, <2>1 DEF LeftInBatch
<1>5. WellAsked' /\ NoForcedRows'
  BY <1>3 DEF WInv, WellAsked, NoForcedRows
<1> QED BY <1>1, <1>2, <1>3, <1>4, <1>5, WriterEnters, HolderWrites

LEMMA UpsertNextWInv == ASSUME NEW c \in Client PROVE WInv /\ UpsertNext(c) => WInv'
<1> SUFFICES ASSUME WInv, UpsertNext(c) PROVE WInv'
  OBVIOUS
<1>1. IInv /\ IInv'
  BY UpsertNextIInv DEF WInv
<1>2. PICK k \in left : /\ predictions' = Upsert(predictions, RequestedRow(c, k))
                        /\ left' = left \ {k}
  BY DEF UpsertNext
<1>3. /\ req' = req /\ disk' = disk /\ lock' = lock /\ clock' = clock
      /\ pc[c] = "upsert" /\ pc'[c] = (IF left' = {} THEN "write" ELSE "upsert")
  BY <1>1 DEF UpsertNext, caller, Goto, IInv, TypeOK
<1>4. /\ lock = c /\ req[c].op = "saveBatch" /\ req[c] \in Request
      /\ left \subseteq Qualifying(req[c].picks)
  BY <1>3 DEF WInv, IInv, TypeOK, LockHeld, Recoverable, LeftInBatch, Held, Uncommitted
<1> DEFINE row == RequestedRow(c, k)
<1>5. /\ row \in Row /\ row.key = k /\ k \in Key
      /\ row.pick = Blank => row.key \in TeamsKey
  <2>1. k \in DOMAIN req[c].picks /\ (k \in TeamsKey \/ req[c].picks[k] # Blank)
    BY <1>2, <1>4 DEF Qualifying
  <2>2. row \in Row /\ row.key = k /\ row.pick = req[c].picks[k]
    BY <1>4, <2>1, RequestedRowType DEF RequestedRow
  <2>3. k \in Key
    BY <1>2, <1>1 DEF IInv, TypeOK
  <2> QED BY <2>1, <2>2, <2>3
<1>6. /\ predictions \in Seq(Row) /\ UniqueRows(predictions)
      /\ BlankOnlyTeams(predictions)
  BY DEF WInv, IInv, TypeOK
<1>7. /\ \A p \in Key : RowsOf(predictions', p) =
            IF p = k THEN {row} ELSE RowsOf(predictions, p)
      /\ SameKeys(predictions, predictions')
      /\ BlankOnlyTeams(predictions')
  <2> HIDE DEF row
  <2> QED BY <1>2, <1>5, <1>6, RowsOfUpsert, UpsertInPlace DEF row
<1>8. \A p : RequestedRow(c, p)' = RequestedRow(c, p)
  BY <1>3 DEF RequestedRow
<1>9. \A p \in Key : RowsOf(predictions', p) =
         IF p \in Qualifying(req[c].picks) \ left' THEN {RequestedRow(c, p)}
                                                 ELSE RowsOf(disk.predictions, p)
  <2>1. \A p \in Key : RowsOf(predictions, p) =
           IF p \in Qualifying(req[c].picks) \ left THEN {RequestedRow(c, p)}
                                                  ELSE RowsOf(disk.predictions, p)
    BY <1>3 DEF WInv, PicksApplied, Held, Uncommitted
  <2> QED BY <1>2, <1>4, <1>7, <2>1
<1>10. SameKeys(disk.predictions, predictions')
  <2>1. SameKeys(disk.predictions, predictions)
    BY <1>3 DEF WInv, RowsInPlace, Held, Uncommitted
  <2> QED BY <1>7, <2>1 DEF SameKeys
<1>11. LeftInBatch'
  <2>1. \A d \in Client : pc'[d] = "upsert" => d = c
    BY <1>1, <1>3, <1>4 DEF IInv, LockHeld, Held, Uncommitted
  <2> QED BY <1>2, <1>3, <1>4, <2>1 DEF LeftInBatch
<1>12. WellAsked' /\ NoForcedRows'
  BY <1>3 DEF WInv, WellAsked, NoForcedRows
<1> HIDE DEF row
<1> QED BY <1>1, <1>3, <1>4, <1>7, <1>8, <1>9, <1>10, <1>11, <1>12, HolderWrites

(* A login code request has no picks, so it upserts none.                  *)
LEMMA NoPicksQualify ==
    ASSUME NEW request, NEW now, request.op \in LoginOps, Askable(request, now)
    PROVE  Qualifying(request.picks) = {}
BY DEF Askable, Qualifying, NoPicks

LEMMA CreateWInv == ASSUME NEW c \in Client PROVE WInv /\ CreateLoginCode(c) => WInv'
<1> SUFFICES ASSUME WInv, CreateLoginCode(c) PROVE WInv'
  OBVIOUS
<1>1. IInv'
  BY CreateIInv DEF WInv
<1>2. Enter(c, "createCode")
  BY DEF CreateLoginCode
<1>3. /\ req' = req /\ disk' = disk /\ lock' = c /\ predictions' = predictions
      /\ left' = {} /\ clock' = clock /\ pc' = [pc EXCEPT ![c] = "write"]
      /\ req[c].op = "createCode" /\ issuedCodes' = issuedCodes + 1
      /\ [id |-> issuedCodes + 1, code |-> req[c].code,
          issued |-> Stamp(req[c].now), used |-> FALSE] \in codes'
  BY <1>2, WriterEnters DEF CreateLoginCode, caller, Goto
<1>4. Qualifying(req[c].picks) = {}
  <2>1. req[c].op \in LoginOps
    BY <1>3 DEF LoginOps
  <2>2. Askable(req[c], clock)
    BY DEF WInv, WellAsked
  <2> QED BY <2>1, <2>2, NoPicksQualify
<1>5. WellAsked' /\ LeftInBatch' /\ NoForcedRows'
  BY <1>3 DEF WInv, WellAsked, LeftInBatch, NoForcedRows
<1> QED BY <1>1, <1>2, <1>3, <1>4, <1>5, WriterEnters, HolderWrites

LEMMA ConsumeWInv ==
    ASSUME NEW c \in Client PROVE WInv /\ ConsumeLoginCode(c) => WInv'
<1> SUFFICES ASSUME WInv, ConsumeLoginCode(c) PROVE WInv'
  OBVIOUS
<1>1. IInv'
  BY ConsumeIInv DEF WInv
<1>2. Enter(c, "consumeCode")
  BY DEF ConsumeLoginCode
<1>3. /\ req' = req /\ disk' = disk /\ lock' = c /\ predictions' = predictions
      /\ left' = {} /\ clock' = clock /\ pc' = [pc EXCEPT ![c] = "write"]
      /\ req[c].op = "consumeCode"
  BY <1>2, WriterEnters DEF ConsumeLoginCode, caller, Goto
<1>4. PICK r \in Matches(c) : /\ codes' = MarkUsed(codes, r)
                              /\ undo' = [index |-> r.id, rows |-> <<>>]
  BY DEF ConsumeLoginCode
<1>5. /\ r \in CodeRow /\ ~r.used
      /\ Redeemable(r, req[c].code, req[c].now)
  BY DEF Matches, Redeemable, WInv, IInv, TypeOK
<1>6. \E q \in codes' : /\ q.id = undo'.index /\ q.used
                        /\ Redeemable(WithUsed(q, FALSE), req[c].code, req[c].now)
  <2> DEFINE u == WithUsed(r, TRUE)
  <2>1. u.id = r.id /\ u.used /\ WithUsed(u, FALSE) = r
    BY <1>5 DEF WithUsed, CodeRow
  <2>2. u \in codes' /\ undo'.index = r.id
    BY <1>4 DEF MarkUsed
  <2> HIDE DEF u
  <2> QED BY <1>5, <2>1, <2>2
<1>7. Qualifying(req[c].picks) = {}
  <2>1. req[c].op \in LoginOps
    BY <1>2, WriterEnters DEF LoginOps
  <2>2. Askable(req[c], clock)
    BY DEF WInv, WellAsked
  <2> QED BY <2>1, <2>2, NoPicksQualify
<1>8. WellAsked' /\ LeftInBatch' /\ NoForcedRows'
  BY <1>3 DEF WInv, WellAsked, LeftInBatch, NoForcedRows
<1> QED BY <1>1, <1>2, <1>3, <1>6, <1>7, <1>8, WriterEnters, HolderWrites

(* The invariant about the holder of the lock, at writeLocked.             *)
LEMMA AtWrite ==
    ASSUME WInv, NEW c \in Client, pc[c] \in Held \ {"upsert"}
    PROVE  /\ lock = c /\ left = {} /\ req[c] \in Request /\ Askable(req[c], clock)
           /\ \A d \in Client : pc[d] \in Held => d = c
           /\ \A k \in Key : RowsOf(predictions, k) =
                 IF k \in Qualifying(req[c].picks) THEN {RequestedRow(c, k)}
                                                   ELSE RowsOf(disk.predictions, k)
           /\ SameKeys(disk.predictions, predictions)
<1>1. lock = c /\ \A d \in Client : pc[d] \in Held => d = c
  BY DEF WInv, IInv, LockHeld
<1>2. left = {}
  BY <1>1, NothingLeft DEF Held, Uncommitted
<1> QED BY <1>1, <1>2 DEF WInv, IInv, TypeOK, WellAsked, PicksApplied, RowsInPlace

LEMMA WriteTempWInv == ASSUME NEW c \in Client PROVE WInv /\ WriteTemp(c) => WInv'
<1> SUFFICES ASSUME WInv, WriteTemp(c) PROVE WInv'
  OBVIOUS
<1>1. IInv'
  BY WriteTempIInv DEF WInv
<1>2. pc[c] = "write" /\ pc[c] \in Held \ {"upsert"}
  BY DEF WriteTemp, Held, Uncommitted
<1>3. UNCHANGED <<clock, predictions, codes, disk, lock, req, left, undo, issuedCodes>>
  BY DEF WriteTemp, document, caller
<1>4. WellAsked' /\ NoForcedRows' /\ BlankOnlyTeams(predictions')
  BY <1>3 DEF WInv, WellAsked, NoForcedRows, BlankOnlyTeams
<1>5. LeftInBatch'
  BY <1>2, <1>3, AtWrite DEF WInv, IInv, TypeOK, LeftInBatch, WriteTemp, Goto
<1>6. \A k : RequestedRow(c, k)' = RequestedRow(c, k)
  BY <1>3 DEF RequestedRow
<1> QED BY <1>1, <1>2, <1>3, <1>4, <1>5, <1>6, AtWrite, HolderWrites
        DEF WInv, CodesApplied

(* To add entries of the server's leaves the sections what they are.       *)
LEMMA ExtendsSections ==
    ASSUME NEW longer, NEW tree, Extends(longer, tree)
    PROVE  SectionsOf(longer) = SectionsOf(tree)
BY DEF Extends, SectionsOf

(* What the rename makes of the file.                                      *)
LEMMA RenameWrites ==
    ASSUME WInv, NEW c \in Client, Rename(c)
    PROVE  /\ disk'.predictions = predictions
           /\ disk'.codes = Cleanup(codes, req[c].now)
           /\ SectionsOf(Mapped(disk'.tree)) = SectionsOf(Mapped(disk.tree))
           /\ disk # NoDoc /\ disk' # NoDoc
           /\ pc[c] = "rename" /\ pc[c] \in Held \ {"upsert"}
           /\ UNCHANGED <<clock, up, predictions, codes, lock, req, reply, left, undo,
                          issuedCodes>>
<1>1. pc[c] = "rename" /\ pc[c] \in Uncommitted /\ pc[c] \in Held \ {"upsert"}
  BY DEF Rename, Uncommitted, Held
<1>2. /\ disk' = Encoded(raw, req[c].now) /\ raw \in Tree
      /\ \A key \in AppKeys : HasEntry(raw, key)
  BY DEF WInv, IInv, TypeOK, Staged, Rename
<1>3. /\ disk' # NoDoc /\ disk'.predictions = predictions
      /\ disk'.codes = Cleanup(codes, req[c].now) /\ disk'.tree = raw
  BY <1>2, EncodedType, EncodedRows DEF WInv
<1>4. disk # NoDoc /\ RestoredTree = Mapped(disk.tree) /\ Extends(raw, RestoredTree)
  BY <1>1 DEF WInv, IInv, Recoverable, SplicedInWrite
<1>5. SectionsOf(raw) = SectionsOf(Mapped(disk.tree)) /\ Mapped(raw) = raw
  BY <1>2, <1>4, TreeFacts, ExtendsSections
<1> QED BY <1>1, <1>3, <1>4, <1>5 DEF Rename, document, caller

LEMMA RenameWInv == ASSUME NEW c \in Client PROVE WInv /\ Rename(c) => WInv'
<1> SUFFICES ASSUME WInv, Rename(c) PROVE WInv'
  OBVIOUS
<1>1. IInv'
  BY RenameIInv DEF WInv
<1>2. /\ disk'.predictions = predictions /\ pc[c] \in Held \ {"upsert"}
      /\ UNCHANGED <<clock, predictions, codes, lock, req, left, undo, issuedCodes>>
  BY RenameWrites
<1>3. WellAsked' /\ NoForcedRows' /\ BlankOnlyTeams(predictions')
  BY <1>2 DEF WInv, WellAsked, NoForcedRows, BlankOnlyTeams
<1>4. LeftInBatch'
  BY <1>2, AtWrite DEF WInv, IInv, TypeOK, LeftInBatch, Rename, Goto
<1>5. \A k : RequestedRow(c, k)' = RequestedRow(c, k)
  BY <1>2 DEF RequestedRow
<1>6. SameKeys(disk'.predictions, predictions')
  BY <1>2 DEF SameKeys
<1> QED BY <1>1, <1>2, <1>3, <1>4, <1>5, <1>6, AtWrite, HolderWrites
        DEF WInv, CodesApplied

(* A method that returns leaves nobody inside one.                         *)
LEMMA ReturnWInv ==
    ASSUME NEW c \in Client
    PROVE  WInv /\ (WriteFails(c) \/ Commit(c)) => WInv'
<1> SUFFICES ASSUME WInv, WriteFails(c) \/ Commit(c) PROVE WInv'
  OBVIOUS
<1>1. IInv /\ IInv'
  BY WriteFailsIInv, CommitIInv DEF WInv
<1>2. pc[c] \in Held \ {"upsert"}
  BY DEF WriteFails, Commit, Held, Uncommitted
<1>3. /\ pc' = [pc EXCEPT ![c] = "idle"] /\ req' = [req EXCEPT ![c] = NoRequest]
      /\ disk' = disk /\ clock' = clock /\ left' = {}
  BY <1>2, AtWrite DEF WriteFails, Commit, Return, Goto
<1>4. \A d \in Client : pc'[d] \notin Held
  BY <1>1, <1>2, <1>3, AtWrite DEF IInv, TypeOK, Held, Uncommitted
<1>5. WellAsked'
  BY <1>1, <1>3, AskableStays DEF WInv, IInv, TypeOK, WellAsked
<1>6. NoForcedRows'
  BY <1>3 DEF WInv, NoForcedRows
<1>7. BlankOnlyTeams(predictions)'
  <2>1. predictions' = predictions \/ (disk # NoDoc /\ predictions' = disk.predictions)
    BY DEF WriteFails, Commit, WInv, IInv, Recoverable, Uncommitted
  <2> QED BY <2>1 DEF WInv, NoForcedRows, BlankOnlyTeams
<1> QED BY <1>1, <1>3, <1>4, <1>5, <1>6, <1>7, NobodyHolds

LEMMA NextWInv == WInv /\ [Next]_vars => WInv'
<1> SUFFICES ASSUME WInv, [Next]_vars PROVE WInv'
  OBVIOUS
<1>1. CASE Load \/ Bootstrap \/ Crash \/ \E tree \in EditedTree : Edit(tree)
  BY <1>1, StartStopWInv
<1>2. CASE Tick
  BY <1>2, TickWInv
<1>3. ASSUME NEW c \in Client, Call(c) \/ Enters(c) PROVE WInv'
  BY <1>3, CallWInv, SavePickWInv, BeginBatchWInv, CreateWInv, ConsumeWInv, RejectWInv
  DEF Enters
<1>4. ASSUME NEW c \in Client, Holds(c) PROVE WInv'
  BY <1>4, UpsertNextWInv, WriteTempWInv, RenameWInv, ReturnWInv DEF Holds
<1>5. CASE UNCHANGED vars
  <2>1. IInv' /\ WellAsked'
    BY <1>5, StutterIInv DEF WInv, WellAsked, vars, caller
  <2> QED BY <1>5, <2>1, OutsideWInv DEF vars, document, nodes, caller
<1> QED BY <1>1, <1>2, <1>3, <1>4, <1>5 DEF Next

(***************************************************************************)
(* The theorems about the file                                             *)
(***************************************************************************)

(* Inside a mutating method memory differs from the file exactly by what   *)
(* its own request has changed so far (store.go, SavePrediction to         *)
(* ConsumeLoginCode).                                                      *)
THEOREM WriteInvariant == Spec => []WInv
<1>1. Init => WInv
  BY InitWInv
<1>2. WInv /\ [Next]_vars => WInv'
  BY NextWInv
<1> QED BY <1>1, <1>2, PTL DEF Spec

(* The file never holds a blank row, but for a division's team list        *)
(* (SaveDivisionPicks, SaveAwardPicks).                                    *)
THEOREM NoRowsForced == Spec => []NoForcedRows
<1>1. WInv => NoForcedRows
  BY DEF WInv
<1> QED BY <1>1, WriteInvariant, PTL

(* Only a rename changes the rows the server writes.                       *)
LEMMA FileSteps ==
    ASSUME WInv, [Next]_vars, disk # NoDoc
    PROVE  \/ \E c \in Client : Rename(c)
           \/ disk'.predictions = disk.predictions /\ disk'.codes = disk.codes
<1>1. CASE \E tree \in EditedTree : Edit(tree)
  <2>1. disk \in Document
    BY DEF WInv, IInv, TypeOK
  <2> QED BY <1>1, <2>1 DEF Edit, Document
<1>2. CASE Load \/ Bootstrap \/ Crash \/ Tick \/ UNCHANGED vars
  BY <1>2 DEF Load, Bootstrap, Crash, Tick, vars
<1>3. ASSUME NEW c \in Client, ~Rename(c), Call(c) \/ Enters(c) \/ Holds(c)
      PROVE  disk' = disk
  BY <1>3 DEF Call, Enters, SavePick, BeginBatch, CreateLoginCode, ConsumeLoginCode,
              RejectLoginCode, Holds, UpsertNext, WriteTemp, WriteFails, Commit
<1> QED BY <1>1, <1>2, <1>3 DEF Next

(* A prediction row keeps its place in the file for ever: no rollback      *)
(* truncates too much, no write drops or reorders rows.                    *)
THEOREM RowsKeepTheirPlace == Spec => RowsStay
<1>1. ASSUME WInv, [Next]_vars
      PROVE  disk # NoDoc =>
               \A i \in DOMAIN disk.predictions :
                  /\ i \in DOMAIN disk'.predictions
                  /\ disk'.predictions[i].key = disk.predictions[i].key
  <2> SUFFICES ASSUME disk # NoDoc PROVE SameKeys(disk.predictions, disk'.predictions)
    BY DEF SameKeys
  <2>1. ASSUME NEW c \in Client, Rename(c)
        PROVE  SameKeys(disk.predictions, disk'.predictions)
    BY <1>1, <2>1, RenameWrites, AtWrite
  <2>2. CASE disk'.predictions = disk.predictions
    BY <2>2 DEF SameKeys
  <2> QED BY <1>1, <2>1, <2>2, FileSteps
<1>2. WInv /\ [Next]_vars =>
        [disk # NoDoc =>
           \A i \in DOMAIN disk.predictions :
              /\ i \in DOMAIN disk'.predictions
              /\ disk'.predictions[i].key = disk.predictions[i].key]_vars
  BY <1>1
<1> QED BY <1>2, WriteInvariant, PTL DEF Spec, RowsStay

(* A write changes the rows its own request asked for, to what it asked,   *)
(* and no other (upsertPrediction and the rollbacks).                      *)
THEOREM WritesWhatWasAsked == Spec => OnlyRequestedPicks
<1>1. ASSUME WInv, [Next]_vars
      PROVE  disk # NoDoc =>
               \A k \in Key :
                  RowsOf(disk'.predictions, k) # RowsOf(disk.predictions, k) =>
                      /\ lock \in Client
                      /\ k \in Qualifying(req[lock].picks)
                      /\ RowsOf(disk'.predictions, k) = {RequestedRow(lock, k)}
  <2> SUFFICES ASSUME disk # NoDoc, NEW k \in Key,
                      RowsOf(disk'.predictions, k) # RowsOf(disk.predictions, k)
               PROVE  /\ lock \in Client
                      /\ k \in Qualifying(req[lock].picks)
                      /\ RowsOf(disk'.predictions, k) = {RequestedRow(lock, k)}
    OBVIOUS
  <2>1. disk'.predictions # disk.predictions
    BY DEF RowsOf
  <2>2. PICK c \in Client : Rename(c)
    BY <1>1, <2>1, FileSteps
  <2>3. disk'.predictions = predictions /\ lock = c
    BY <1>1, <2>2, RenameWrites, AtWrite
  <2> QED BY <1>1, <2>2, <2>3, RenameWrites, AtWrite
<1>2. WInv /\ [Next]_vars =>
        [disk # NoDoc =>
           \A k \in Key :
              RowsOf(disk'.predictions, k) # RowsOf(disk.predictions, k) =>
                  /\ lock \in Client
                  /\ k \in Qualifying(req[lock].picks)
                  /\ RowsOf(disk'.predictions, k) = {RequestedRow(lock, k)}]_vars
  BY <1>1
<1> QED BY <1>2, WriteInvariant, PTL DEF Spec, OnlyRequestedPicks

(* Only the last step of a method answers ok.                              *)
LEMMA OkSteps ==
    ASSUME WInv, [Next]_vars, NEW c \in Client, reply'[c] = "ok", reply[c] # "ok"
    PROVE  Commit(c)
<1>1. CASE Crash
  BY <1>1 DEF Crash
<1>2. CASE Load \/ Bootstrap \/ Tick \/ UNCHANGED vars \/ \E tree \in EditedTree : Edit(tree)
  BY <1>2 DEF Load, Bootstrap, Tick, Edit, vars, caller
<1>3. ASSUME NEW d \in Client,
             \/ SavePick(d) \/ BeginBatch(d) \/ CreateLoginCode(d) \/ ConsumeLoginCode(d)
             \/ UpsertNext(d) \/ WriteTemp(d) \/ Rename(d)
      PROVE  FALSE
  BY <1>3 DEF SavePick, BeginBatch, CreateLoginCode, ConsumeLoginCode, UpsertNext,
              WriteTemp, Rename, caller
<1>4. ASSUME NEW d \in Client, Call(d) \/ RejectLoginCode(d) \/ WriteFails(d)
      PROVE  FALSE
  BY <1>4 DEF WInv, IInv, TypeOK, Call, RejectLoginCode, WriteFails, Return
<1>5. ASSUME NEW d \in Client, Commit(d) PROVE d = c
  BY <1>5 DEF WInv, IInv, TypeOK, Commit, Return
<1> QED BY <1>1, <1>2, <1>3, <1>4, <1>5 DEF Next, Enters, Holds

(* A save or a login code is acknowledged only when all of it is in the    *)
(* file; the pruning of its own write never takes a new code.              *)
THEOREM OkMeansOnDisk == Spec => AcknowledgedOnDisk
<1>1. ASSUME WInv, [Next]_vars
      PROVE  \A c \in Client : reply'[c] = "ok" /\ reply[c] # "ok" =>
               /\ \A k \in Qualifying(req[c].picks) :
                      RowsOf(disk'.predictions, k) = {RequestedRow(c, k)}
               /\ req[c].op = "createCode" =>
                      \E r \in disk'.codes : r.id = issuedCodes
  <2> SUFFICES ASSUME NEW c \in Client, reply'[c] = "ok", reply[c] # "ok"
               PROVE  /\ \A k \in Qualifying(req[c].picks) :
                             RowsOf(disk'.predictions, k) = {RequestedRow(c, k)}
                      /\ req[c].op = "createCode" =>
                             \E r \in disk'.codes : r.id = issuedCodes
    OBVIOUS
  <2>1. Commit(c)
    BY <1>1, OkSteps
  <2>2. pc[c] = "renamed" /\ pc[c] \in Held \ {"upsert"} /\ disk' = disk
    BY <2>1 DEF Commit, Held, Uncommitted
  <2>3. /\ disk.predictions = predictions
        /\ disk.codes = Cleanup(codes, req[c].now) /\ req[c] \in Request
    <3>1. /\ disk = Encoded(raw, req[c].now) /\ req[c] \in Request
          /\ \A key \in AppKeys : HasEntry(raw, key)
      BY <1>1, <2>2 DEF WInv, IInv, TypeOK, Staged
    <3> QED BY <3>1, EncodedRows
  <2>4. Qualifying(req[c].picks) \subseteq Key
    <3>1. PICK K \in SUBSET Key : req[c].picks \in [K -> Pick \cup {Blank}]
      BY <2>3 DEF Request, Picks
    <3> QED BY <3>1 DEF Qualifying
  <2>5. ASSUME NEW k \in Qualifying(req[c].picks)
        PROVE  RowsOf(disk'.predictions, k) = {RequestedRow(c, k)}
    <3>1. disk'.predictions = predictions /\ k \in Key
      BY <2>2, <2>3, <2>4
    <3> QED BY <1>1, <2>2, <3>1, AtWrite
  <2>6. ASSUME req[c].op = "createCode"
        PROVE  \E r \in disk'.codes : r.id = issuedCodes
    <3> DEFINE r == [id |-> issuedCodes, code |-> req[c].code,
                     issued |-> Stamp(req[c].now), used |-> FALSE]
    <3>1. r \in codes
      BY <1>1, <2>2, <2>6 DEF WInv, CodesApplied
    <3>2. r.issued = Stamp(req[c].now) /\ ~r.used /\ r.id = issuedCodes
      OBVIOUS
    <3> HIDE DEF r
    <3>3. r \in Cleanup(codes, req[c].now)
      BY <2>3, <3>1, <3>2, FreshSurvives DEF Cleanup, Future, Expired, Request
    <3> QED BY <2>2, <2>3, <3>2, <3>3
  <2> QED BY <2>5, <2>6
<1>2. WInv /\ [Next]_vars =>
        [\A c \in Client : reply'[c] = "ok" /\ reply[c] # "ok" =>
           /\ \A k \in Qualifying(req[c].picks) :
                  RowsOf(disk'.predictions, k) = {RequestedRow(c, k)}
           /\ req[c].op = "createCode" =>
                  \E r \in disk'.codes : r.id = issuedCodes]_vars
  BY <1>1
<1> QED BY <1>2, WriteInvariant, PTL DEF Spec, AcknowledgedOnDisk

(***************************************************************************)
(* What a write does to the login codes                                    *)
(***************************************************************************)

(* A created code is the only one that memory has and the file has not.    *)
LEMMA CreatedCode ==
    ASSUME WInv, NEW c \in Client, pc[c] \in Uncommitted, req[c].op = "createCode"
    PROVE  LET r == [id |-> issuedCodes, code |-> req[c].code,
                     issued |-> Stamp(req[c].now), used |-> FALSE]
           IN  r \notin disk.codes /\ codes = disk.codes \cup {r}
<1> DEFINE r == [id |-> issuedCodes, code |-> req[c].code,
                 issued |-> Stamp(req[c].now), used |-> FALSE]
<1>1. r \in codes /\ r.id = issuedCodes
  BY DEF WInv, CodesApplied, Held
<1>2. /\ codes \in SUBSET CodeRow
      /\ issuedCodes \in Nat
      /\ \A q \in codes : q.id <= issuedCodes
      /\ \A p, q \in codes : p.id = q.id => p = q
  BY DEF WInv, IInv, TypeOK, CodesDistinct, UniqueIds
<1>3. \A q \in codes : q.id \in Nat
  BY <1>2 DEF CodeRow
<1>4. {p \in codes : \E q \in codes : q.id > p.id} = disk.codes
  BY DEF WInv, IInv, Recoverable, RestoredCodes
<1> HIDE DEF r
<1>5. \A p \in codes : (\E q \in codes : q.id > p.id) <=> p # r
  <2> SUFFICES ASSUME NEW p \in codes
               PROVE  (\E q \in codes : q.id > p.id) <=> p # r
    OBVIOUS
  <2>1. p # r => p.id < r.id
    BY <1>1, <1>2, <1>3
  <2>2. p = r => \A q \in codes : ~(q.id > p.id)
    BY <1>1, <1>2, <1>3
  <2> QED BY <1>1, <2>1, <2>2, <1>3
<1>6. r \notin disk.codes /\ codes = disk.codes \cup {r}
  BY <1>1, <1>4, <1>5
<1> QED BY <1>6 DEF r

(* A consumed code is a redeemable one of the file, marked in memory.      *)
LEMMA ConsumedCode ==
    ASSUME WInv, NEW c \in Client, pc[c] \in Uncommitted, req[c].op = "consumeCode"
    PROVE  \E r \in disk.codes : /\ Redeemable(r, req[c].code, req[c].now)
                                 /\ codes = MarkUsed(disk.codes, r)
<1>1. PICK u \in codes :
         /\ u.id = undo.index /\ u.used
         /\ Redeemable(WithUsed(u, FALSE), req[c].code, req[c].now)
  BY DEF WInv, CodesApplied, Held
<1> DEFINE r == WithUsed(u, FALSE)
<1>2. codes \in SUBSET CodeRow /\ \A p, q \in codes : p.id = q.id => p = q
  BY DEF WInv, IInv, TypeOK, CodesDistinct, UniqueIds
<1>3. r.id = u.id /\ WithUsed(r, TRUE) = u
  BY <1>1, <1>2 DEF WithUsed, CodeRow
<1>4. disk.codes = {IF q.id = u.id THEN WithUsed(q, FALSE) ELSE q : q \in codes}
  <2>1. RestoredCodes(req[c].op) = disk.codes
    BY DEF WInv, IInv, Recoverable
  <2>2. disk.codes = ClearUsed(codes, undo.index)
    BY <2>1 DEF RestoredCodes
  <2> QED BY <1>1, <2>2 DEF ClearUsed
<1> DEFINE back(q) == IF q.id = u.id THEN WithUsed(q, FALSE) ELSE q
<1>5. \A q \in codes : back(q) = IF q = u THEN r ELSE q
  BY <1>1, <1>2
<1> HIDE DEF r
<1>6. disk.codes = (codes \ {u}) \cup {r}
  <2>1. disk.codes = {back(q) : q \in codes}
    BY <1>4
  <2> HIDE DEF back
  <2> QED BY <1>1, <1>5, <2>1
<1>7. r \notin codes \ {u}
  BY <1>1, <1>2, <1>3
<1>8. codes = (disk.codes \ {r}) \cup {u} /\ r \in disk.codes
  BY <1>1, <1>6, <1>7
<1>9. Redeemable(r, req[c].code, req[c].now)
  BY <1>1 DEF r
<1> QED BY <1>3, <1>8, <1>9 DEF MarkUsed

(* The rename puts the created code on file, takes the redeemed one off,   *)
(* and prunes the others by the caller's reading of the clock.             *)
LEMMA RenamedCodes ==
    ASSUME WInv, NEW c \in Client, Rename(c)
    PROVE  \/ /\ req[c].op = "createCode"
              /\ \E r \in disk'.codes :
                    /\ r \notin disk.codes /\ r.code = req[c].code
                    /\ r.issued = Stamp(req[c].now) /\ ~r.used
                    /\ disk'.codes = Cleanup(disk.codes, req[c].now) \cup {r}
           \/ /\ req[c].op = "consumeCode"
              /\ \E r \in disk.codes :
                    /\ Redeemable(r, req[c].code, req[c].now)
                    /\ disk'.codes = Cleanup(disk.codes \ {r}, req[c].now)
           \/ /\ req[c].op \in {"savePick", "saveBatch"}
              /\ disk'.codes = Cleanup(disk.codes, req[c].now)
<1>1. /\ disk'.codes = Cleanup(codes, req[c].now) /\ pc[c] \in Uncommitted
      /\ req[c] \in Request
  BY RenameWrites DEF WInv, IInv, TypeOK, Uncommitted
<1>2. req[c].now \in Nat /\ req[c].op \in AllOps
  BY <1>1 DEF Request
<1>3. CASE req[c].op = "createCode"
  <2> DEFINE r == [id |-> issuedCodes, code |-> req[c].code,
                   issued |-> Stamp(req[c].now), used |-> FALSE]
  <2>1. r \notin disk.codes /\ codes = disk.codes \cup {r}
    BY <1>1, <1>3, CreatedCode
  <2>2. r.code = req[c].code /\ r.issued = Stamp(req[c].now) /\ ~r.used
    OBVIOUS
  <2> HIDE DEF r
  <2>3. Cleanup({r}, req[c].now) = {r}
    BY <1>2, <2>2, FreshSurvives DEF Cleanup, Future, Expired
  <2>4. Cleanup(codes, req[c].now) = Cleanup(disk.codes, req[c].now) \cup {r}
    BY <2>1, <2>3 DEF Cleanup
  <2> QED BY <1>1, <1>3, <2>1, <2>2, <2>4
<1>4. CASE req[c].op = "consumeCode"
  <2>1. PICK r \in disk.codes : /\ Redeemable(r, req[c].code, req[c].now)
                                /\ codes = MarkUsed(disk.codes, r)
    BY <1>1, <1>4, ConsumedCode
  <2>2. WithUsed(r, TRUE).used
    <3>1. r \in CodeRow
      BY <1>1 DEF WInv, IInv, TypeOK, Recoverable, Document
    <3> QED BY <3>1 DEF WithUsed, CodeRow
  <2>3. Cleanup(codes, req[c].now) = Cleanup(disk.codes \ {r}, req[c].now)
    BY <2>1, <2>2 DEF MarkUsed, Cleanup
  <2> QED BY <1>1, <1>4, <2>1, <2>3
<1>5. CASE req[c].op \in {"savePick", "saveBatch"}
  <2>1. codes = disk.codes
    BY <1>1, <1>5 DEF WInv, IInv, Recoverable, RestoredCodes
  <2> QED BY <1>1, <1>5, <2>1
<1> QED BY <1>2, <1>3, <1>4, <1>5 DEF AllOps, LoginOps

(* A write removes a login code only to redeem it, because it has expired, *)
(* or because the writer's clock reading is older than the code.           *)
THEOREM NoCodeLostWithoutCause == Spec => CodesDroppedForCause
<1>1. ASSUME WInv, [Next]_vars
      PROVE  disk # NoDoc =>
               \A r \in disk.codes \ disk'.codes :
                  /\ r.issued # Unparseable
                  /\ lock \in Client
                  /\ \/ Redeeming(lock, r)
                     \/ Expired(r, clock)
                     \/ Future(r, req[lock].now)
  <2> SUFFICES ASSUME disk # NoDoc, NEW r \in disk.codes, r \notin disk'.codes
               PROVE  /\ r.issued # Unparseable
                      /\ lock \in Client
                      /\ \/ Redeeming(lock, r)
                         \/ Expired(r, clock)
                         \/ Future(r, req[lock].now)
    OBVIOUS
  <2>1. PICK c \in Client : Rename(c)
    BY <1>1, FileSteps
  <2>2. /\ lock = c /\ req[c] \in Request /\ Askable(req[c], clock)
    BY <1>1, <2>1, RenameWrites, AtWrite
  <2>3. r \in CodeRow /\ ~r.used /\ clock \in Nat
    BY <1>1 DEF WInv, IInv, TypeOK, Document, CodesDistinct
  <2>4. \/ r \notin Cleanup(disk.codes, req[c].now)
        \/ req[c].op = "consumeCode" /\ Redeemable(r, req[c].code, req[c].now)
    <3>1. \A q : r # q /\ r \in Cleanup(disk.codes, req[c].now) =>
                    r \in Cleanup(disk.codes \ {q}, req[c].now)
      BY DEF Cleanup
    <3> QED BY <1>1, <2>1, <3>1, RenamedCodes
  <2>5. CASE r \notin Cleanup(disk.codes, req[c].now)
    <3>1. r.issued # Unparseable /\ (Future(r, req[c].now) \/ Expired(r, req[c].now))
      BY <2>3, <2>5 DEF Cleanup
    <3>2. r.issued \in Nat /\ req[c].now \in Nat /\ req[c].now <= clock
      BY <2>2, <2>3, <3>1 DEF CodeRow, Request, Askable
    <3>3. Expired(r, req[c].now) => Expired(r, clock)
      BY <2>3, <3>2, DataAssumption DEF Expired
    <3> QED BY <2>2, <3>1, <3>3
  <2>6. CASE req[c].op = "consumeCode" /\ Redeemable(r, req[c].code, req[c].now)
    BY <2>2, <2>6 DEF Redeemable, Redeeming
  <2> QED BY <2>4, <2>5, <2>6
<1>2. WInv /\ [Next]_vars =>
        [disk # NoDoc =>
           \A r \in disk.codes \ disk'.codes :
              /\ r.issued # Unparseable
              /\ lock \in Client
              /\ \/ Redeeming(lock, r)
                 \/ Expired(r, clock)
                 \/ Future(r, req[lock].now)]_vars
  BY <1>1
<1> QED BY <1>2, WriteInvariant, PTL DEF Spec, CodesDroppedForCause

(***************************************************************************)
(* The refinement: the file is the durable table                           *)
(***************************************************************************)

(* Steps that neither move the clock, start or stop the server, write the  *)
(* file, nor answer anybody are invisible to the callers.                  *)
LEMMA Invisible ==
    ASSUME UNCHANGED <<clock, up, disk, req, reply>>, Stage' = Stage
    PROVE  UNCHANGED Durable!vars
<1>1. Table' = Table /\ Filed' = Filed
  BY DEF Table, Filed
<1> QED BY <1>1 DEF Durable!vars

(* The abstract store is built from the same functions on rows.            *)
LEMMA SameFunctions ==
    /\ Durable!Unparseable = Unparseable
    /\ \A now : Durable!Stamp(now) = Stamp(now)
    /\ \A picks : Durable!Qualifying(picks) = Qualifying(picks)
    /\ \A rows, now : Durable!Cleanup(rows, now) = Cleanup(rows, now)
    /\ \A r, code, now : Durable!Redeemable(r, code, now) = Redeemable(r, code, now)
BY DEF Unparseable, Stamp, Qualifying, Cleanup, Redeemable, Expired, Future,
       Durable!Unparseable, Durable!Stamp, Durable!Qualifying, Durable!Cleanup,
       Durable!Redeemable, Durable!Expired, Durable!Future

LEMMA TreeSections ==
    ASSUME NEW tree \in Tree \cup {NotAMapping}
    PROVE  SectionsOf(Mapped(tree)) \subseteq Section
<1>1. Mapped(tree) \in Seq(Section \cup AppKeys)
  BY TreeFacts DEF Tree
<1> QED BY <1>1 DEF SectionsOf

LEMMA RefinesInit == Init => Durable!Init
<1> SUFFICES ASSUME Init PROVE Durable!Init
  OBVIOUS
<1>1. /\ Filed.predictions = <<>> /\ Filed.tree \in Tree \cup {NotAMapping}
      /\ \A r \in Filed.codes : r.issued = Unparseable
  BY StoreAssumption DEF Init, Filed, EmptyDocument
<1>4. SectionsOf(Mapped(Filed.tree)) \subseteq Section
  BY <1>1, TreeSections
<1>2. Table = [k \in Key |-> NoRow]
  BY <1>1 DEF Table, HasRow
<1>3. Stage = [c \in Client |-> "idle"]
  BY DEF Init, Stage
<1> QED BY <1>1, <1>2, <1>3, <1>4, SameFunctions DEF Init, Durable!Init

(* New on a file or without one, the kill, the edit and the clock.         *)
LEMMA RefinesServer ==
    ASSUME WInv, Load \/ Bootstrap \/ Crash \/ Tick \/ \E tree \in EditedTree : Edit(tree)
    PROVE  Durable!Next
<1>1. CASE Load
  <2>1. Table' = Table /\ Filed' = Filed /\ Stage' = Stage
    BY <1>1 DEF Load, Table, Filed, Stage, caller
  <2>2. Durable!Open
    BY <1>1, <2>1 DEF Load, Durable!Open, caller
  <2> QED BY <2>2 DEF Durable!Next
<1>2. CASE Bootstrap
  <2>1. Filed' = Filed /\ Stage' = Stage
    BY <1>2 DEF Bootstrap, Filed, Stage, caller
  <2>2. Table' = Table
    BY <2>1 DEF Table
  <2>3. Durable!Open
    BY <1>2, <2>1, <2>2 DEF Bootstrap, Durable!Open, caller
  <2> QED BY <2>3 DEF Durable!Next
<1>3. CASE Crash
  <2>1. Table' = Table /\ Filed' = Filed
    BY <1>3 DEF Crash, Table, Filed
  <2>2. Stage' = [c \in Client |-> "idle"]
    BY <1>3 DEF Crash, Stage
  <2>3. Durable!Kill
    BY <1>3, <2>1, <2>2 DEF Crash, Durable!Kill
  <2> QED BY <2>3 DEF Durable!Next
<1>4. CASE Tick
  <2>1. Table' = Table /\ Filed' = Filed /\ Stage' = Stage
    BY <1>4 DEF Tick, Table, Filed, Stage
  <2>2. Durable!Tick
    BY <1>4, <2>1 DEF Tick, Durable!Tick, caller
  <2> QED BY <2>2 DEF Durable!Next
<1>5. ASSUME NEW tree \in EditedTree, Edit(tree) PROVE Durable!Next
  <2>1. disk \in Document /\ disk # NoDoc
    BY <1>5 DEF WInv, IInv, TypeOK, Edit
  <2>2. /\ disk' \in Document /\ disk'.predictions = disk.predictions
        /\ disk'.codes = disk.codes /\ disk'.tree = tree
        /\ tree \in Tree \cup {NotAMapping}
    BY <1>5, <2>1, StoreAssumption DEF Edit, Document
  <2>3. disk' # NoDoc
    BY <2>2, StoreAssumption
  <2>4. Filed = disk /\ Filed' = disk'
    BY <2>1, <2>3 DEF Filed
  <2>5. Table' = Table /\ Stage' = Stage
    BY <1>5, <2>2, <2>4 DEF Edit, Table, Stage
  <2>6. Durable!Edit
    BY <1>5, <2>2, <2>4, <2>5, TreeSections DEF Edit, Durable!Edit, caller
  <2> QED BY <2>6 DEF Durable!Next
<1> QED BY <1>1, <1>2, <1>3, <1>4, <1>5

LEMMA RefinesCall ==
    ASSUME WInv, NEW c \in Client, Call(c) PROVE Durable!Ask(c)
<1>1. PICK op \in Op : \E ask \in Asks(op) :
         req' = [req EXCEPT ![c] = [op |-> op, picks |-> ask.picks,
                                    code |-> ask.code, now |-> clock]]
  BY DEF Call
<1>2. req \in [Client -> Request] /\ pc \in [Client -> Labels]
  BY DEF WInv, IInv, TypeOK
<1>3. req'[c].now = clock /\ req' = [req EXCEPT ![c] = req'[c]]
  BY <1>1, <1>2
<1>4. Stage[c] = "idle" /\ Stage' = [Stage EXCEPT ![c] = "asked"]
  BY <1>2 DEF Call, Stage
<1>5. Table' = Table /\ Filed' = Filed
  BY DEF Call, Table, Filed
<1> QED BY <1>3, <1>4, <1>5 DEF Call, Durable!Ask

(* A return answers the caller.                                            *)
LEMMA RefinesReturn ==
    ASSUME WInv, NEW c \in Client, NEW answer, Return(c, answer), pc[c] # "idle",
           UNCHANGED <<clock, up, disk>>
    PROVE  Durable!Answer(c, answer)
<1>1. Stage' = [Stage EXCEPT ![c] = "idle"]
  BY DEF WInv, IInv, TypeOK, Return, Goto, Stage
<1>2. Table' = Table /\ Filed' = Filed
  BY DEF Table, Filed
<1> QED BY <1>1, <1>2 DEF Return, Durable!Answer

LEMMA RefinesAnswers ==
    ASSUME WInv, NEW c \in Client, RejectLoginCode(c) \/ WriteFails(c) \/ Commit(c)
    PROVE  Durable!Reject(c) \/ Durable!Fail(c) \/ Durable!Confirm(c)
<1>1. CASE RejectLoginCode(c)
  <2>1. Enter(c, "consumeCode") /\ Matches(c) = {} /\ Return(c, "rejected")
        /\ UNCHANGED <<clock, up, disk>>
    BY <1>1 DEF RejectLoginCode
  <2>2. pc[c] # "idle" /\ Stage[c] = "asked" /\ req[c].op = "consumeCode"
    BY <2>1 DEF Enter, Stage
  <2>3. disk # NoDoc /\ disk.codes = codes
    BY <2>1, AtEntry DEF WInv
  <2>4. \A r \in Filed.codes : ~Redeemable(r, req[c].code, req[c].now)
    BY <2>1, <2>3 DEF Filed, Matches
  <2>5. Durable!Answer(c, "rejected")
    BY <2>1, <2>2, RefinesReturn
  <2> QED BY <2>2, <2>4, <2>5, SameFunctions DEF Durable!Reject
<1>2. CASE WriteFails(c)
  <2>1. Return(c, "failed") /\ pc[c] \in {"write", "rename"}
        /\ UNCHANGED <<clock, up, disk>>
    BY <1>2 DEF WriteFails
  <2>2. Durable!Answer(c, "failed")
    BY <2>1, RefinesReturn
  <2>3. Stage[c] = "asked"
    BY <2>1 DEF Stage
  <2> QED BY <2>2, <2>3 DEF Durable!Fail
<1>3. CASE Commit(c)
  <2>1. Return(c, "ok") /\ pc[c] = "renamed" /\ UNCHANGED <<clock, up, disk>>
    BY <1>3 DEF Commit
  <2>2. Durable!Answer(c, "ok")
    BY <2>1, RefinesReturn
  <2>3. Stage[c] = "applied"
    BY <2>1 DEF Stage
  <2> QED BY <2>2, <2>3 DEF Durable!Confirm
<1> QED BY <1>1, <1>2, <1>3

(* The rename is the instant at which a call is applied.                   *)
LEMMA RefinesRename ==
    ASSUME WInv, NEW c \in Client, Rename(c) PROVE Durable!Apply(c)
<1>1. /\ disk # NoDoc /\ disk' # NoDoc /\ disk'.predictions = predictions
      /\ SectionsOf(Mapped(disk'.tree)) = SectionsOf(Mapped(disk.tree))
      /\ pc[c] = "rename"
      /\ UNCHANGED <<clock, up, req, reply>>
  BY RenameWrites
<1>2. Stage[c] = "asked" /\ Stage' = [Stage EXCEPT ![c] = "applied"]
  BY DEF WInv, IInv, TypeOK, Rename, Goto, Stage
<1>3. Filed = disk /\ Filed' = disk'
  BY <1>1 DEF Filed
<1>4. Table' = Durable!Merged(req[c])
  <2> SUFFICES ASSUME NEW k \in Key
               PROVE  (IF HasRow(predictions, k)
                         THEN predictions[IndexOf(predictions, k)] ELSE NoRow)
                    = (IF k \in Qualifying(req[c].picks) THEN RequestedRow(c, k)
                       ELSE IF HasRow(disk.predictions, k)
                         THEN disk.predictions[IndexOf(disk.predictions, k)]
                         ELSE NoRow)
    BY <1>1, <1>3, SameFunctions DEF Table, Durable!Merged, RequestedRow
  <2>1. RowsOf(predictions, k) =
           IF k \in Qualifying(req[c].picks) THEN {RequestedRow(c, k)}
                                             ELSE RowsOf(disk.predictions, k)
    BY RenameWrites, AtWrite
  <2>2. RowsOf(predictions, k) =
           IF HasRow(predictions, k) THEN {predictions[IndexOf(predictions, k)]} ELSE {}
    BY RowsOfKey DEF WInv, IInv, TypeOK
  <2>3. disk.predictions \in Seq(Row) /\ UniqueRows(disk.predictions)
    BY <1>1 DEF WInv, IInv, TypeOK, Document, UniqueKeys, UniqueRows
  <2>4. RowsOf(disk.predictions, k) =
           IF HasRow(disk.predictions, k)
             THEN {disk.predictions[IndexOf(disk.predictions, k)]} ELSE {}
    BY <2>3, RowsOfKey
  <2> QED BY <2>1, <2>2, <2>4
<1>5. \/ /\ req[c].op = "createCode"
         /\ \E r \in Filed'.codes :
               /\ Durable!Fresh(r, req[c])
               /\ Filed'.codes = Cleanup(Filed.codes, req[c].now) \cup {r}
      \/ /\ req[c].op = "consumeCode"
         /\ \E r \in Filed.codes :
               /\ Redeemable(r, req[c].code, req[c].now)
               /\ Filed'.codes = Cleanup(Filed.codes \ {r}, req[c].now)
      \/ /\ req[c].op \in {"savePick", "saveBatch"}
         /\ Filed'.codes = Cleanup(Filed.codes, req[c].now)
  BY <1>3, RenamedCodes, SameFunctions DEF Durable!Fresh
<1> QED BY <1>1, <1>2, <1>3, <1>4, <1>5, SameFunctions DEF Durable!Apply

LEMMA RefinesNext == WInv /\ [Next]_vars => [Durable!Next]_(Durable!vars)
<1> SUFFICES ASSUME WInv, [Next]_vars
             PROVE  Durable!Next \/ UNCHANGED Durable!vars
  OBVIOUS
<1>1. CASE Load \/ Bootstrap \/ Crash \/ Tick \/ \E tree \in EditedTree : Edit(tree)
  BY <1>1, RefinesServer
<1>2. ASSUME NEW c \in Client,
             \/ Call(c) \/ RejectLoginCode(c) \/ WriteFails(c) \/ Commit(c) \/ Rename(c)
      PROVE  Durable!Next
  BY <1>2, RefinesCall, RefinesAnswers, RefinesRename DEF Durable!Next
<1>3. ASSUME NEW c \in Client,
             \/ SavePick(c) \/ BeginBatch(c) \/ CreateLoginCode(c)
             \/ ConsumeLoginCode(c) \/ UpsertNext(c) \/ WriteTemp(c)
      PROVE  UNCHANGED Durable!vars
  <2>1. /\ UNCHANGED <<clock, up, disk, req, reply>>
        /\ pc[c] \in {"calling", "upsert", "write"}
        /\ \E label \in {"upsert", "write", "rename"} : pc' = [pc EXCEPT ![c] = label]
    BY <1>3 DEF SavePick, BeginBatch, CreateLoginCode, ConsumeLoginCode, UpsertNext,
                WriteTemp, Enter, Goto, caller
  <2>2. Stage' = Stage
    BY <2>1 DEF WInv, IInv, TypeOK, Stage
  <2> QED BY <2>1, <2>2, Invisible
<1>4. CASE UNCHANGED vars
  <2>1. Stage' = Stage
    BY <1>4 DEF vars, Stage
  <2> QED BY <1>4, <2>1, Invisible DEF vars
<1> QED BY <1>1, <1>2, <1>3, <1>4 DEF Next, Enters, Holds

(* The store implements its abstract promise: every call looks atomic and  *)
(* durable, applied at its rename, or not at all when it fails; only a     *)
(* call that a kill cuts off may or may not have been applied.             *)
THEOREM StoreIsDurable == Spec => ImplementsDurableStore
<1>1. Init => Durable!Init
  BY RefinesInit
<1>2. WInv /\ [Next]_vars => [Durable!Next]_(Durable!vars)
  BY RefinesNext
<1> QED BY <1>1, <1>2, WriteInvariant, PTL DEF Spec, ImplementsDurableStore, Durable!Spec
=============================================================================
