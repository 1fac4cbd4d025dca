----------------------------- MODULE StoreProofs -----------------------------
(***************************************************************************)
(* Proofs about Store: its inductive invariant IInv, and what follows from *)
(* it for every number of clients, keys, picks and login codes.            *)
(***************************************************************************)
EXTENDS Store, TLAPS, SequenceTheorems, FiniteSetTheorems, WellFoundedInduction

(***************************************************************************)
(* Lemmas about the rows                                                   *)
(***************************************************************************)

(* A set of indices has a least element; the least of them is the greatest *)
(* lower bound of the chain of initial intervals, ordered by inclusion.    *)
LEMMA LeastIndex ==
    ASSUME NEW n \in Nat, NEW S \in SUBSET (1..n), S # {}
    PROVE  \E m \in S : \A k \in S : m <= k
<1> DEFINE R == StrictSubsetOrdering(1..n)
           F == FiniteSubsetsOf(1..n)
           T == {1..i : i \in S}
<1>1. IsWellFoundedOn(R, F)
  BY FS_StrictSubsetOrderingWellFounded
<1>2. \A i \in S : 1..i \subseteq 1..n /\ 1..i \in F
  BY FS_Interval DEF FiniteSubsetsOf
<1>3. T \subseteq F /\ T # {}
  <2> HIDE DEF F
  <2> QED BY <1>2
<1>4. PICK X \in T : \A Y \in T : <<Y, X>> \notin R
  <2> HIDE DEF R, T, F
  <2> QED BY <1>1, <1>3, WFMin
<1>5. PICK m \in S : X = 1..m
  OBVIOUS
<1>6. ASSUME NEW k \in S, k < m
      PROVE  FALSE
  <2>1. 1..k \subseteq 1..m /\ 1..k # 1..m
    BY <1>6
  <2>2. <<1..k, 1..m>> \in R
    BY <2>1, <1>2 DEF StrictSubsetOrdering
  <2> QED BY <1>4, <1>5, <2>2
<1> QED BY <1>6

(* IndexOf finds a row with the key whenever there is one.                 *)
LEMMA IndexOfFound ==
    ASSUME NEW S, NEW rows \in Seq(S), NEW k, HasRow(rows, k)
    PROVE  /\ IndexOf(rows, k) \in 1..Len(rows)
           /\ rows[IndexOf(rows, k)].key = k
<1> DEFINE I == {i \in 1..Len(rows) : rows[i].key = k}
<1>1. I \in SUBSET (1..Len(rows)) /\ I # {} /\ Len(rows) \in Nat
  BY DEF HasRow
<1>2. PICK n \in I : \A m \in I : n <= m
  <2> HIDE DEF I
  <2> QED BY <1>1, LeastIndex
<1>3. \E i \in DOMAIN rows : /\ rows[i].key = k
                             /\ \A j \in DOMAIN rows : rows[j].key = k => i <= j
  BY <1>2
<1> QED BY <1>3 DEF IndexOf

(* Upsert keeps rows rows and keys unique.                                 *)
LEMMA UpsertRows ==
    ASSUME NEW rows \in Seq(Row), NEW row \in Row, UniqueRows(rows)
    PROVE  Upsert(rows, row) \in Seq(Row) /\ UniqueRows(Upsert(rows, row))
<1>1. CASE HasRow(rows, row.key)
  <2> DEFINE i == IndexOf(rows, row.key)
  <2>1. i \in 1..Len(rows) /\ rows[i].key = row.key
    BY <1>1, IndexOfFound
  <2>2. Upsert(rows, row) = [rows EXCEPT ![i] = row]
    BY <1>1 DEF Upsert
  <2> HIDE DEF i
  <2> QED BY <2>1, <2>2 DEF UniqueRows
<1>2. CASE ~HasRow(rows, row.key)
  <2>1. Upsert(rows, row) = Append(rows, row)
    BY <1>2 DEF Upsert
  <2>2. \A i \in 1..Len(rows) : rows[i].key # row.key
    BY <1>2 DEF HasRow
  <2> QED BY <2>1, <2>2 DEF UniqueRows
<1> QED BY <1>1, <1>2

(* Undoing an upsert: truncation after an append, the old row after an     *)
(* update in place.                                                        *)
LEMMA UpsertUndone ==
    ASSUME NEW rows \in Seq(Row), NEW row \in Row
    PROVE  /\ ~HasRow(rows, row.key) => RemoveLast(Upsert(rows, row)) = rows
           /\ HasRow(rows, row.key) =>
                LET i == IndexOf(rows, row.key)
                IN  /\ i \in 1..Len(rows)
                    /\ [Upsert(rows, row) EXCEPT ![i] = rows[i]] = rows
<1>1. CASE ~HasRow(rows, row.key)
  BY <1>1 DEF Upsert, RemoveLast
<1>2. CASE HasRow(rows, row.key)
  <2> DEFINE i == IndexOf(rows, row.key)
  <2>1. i \in 1..Len(rows)
    BY <1>2, IndexOfFound
  <2>2. Upsert(rows, row) = [rows EXCEPT ![i] = row]
    BY <1>2 DEF Upsert
  <2>3. [Upsert(rows, row) EXCEPT ![i] = rows[i]] = rows
    <3> HIDE DEF i
    <3> DEFINE back == [Upsert(rows, row) EXCEPT ![i] = rows[i]]
    <3>1. back \in Seq(Row) /\ Len(back) = Len(rows)
      BY <2>1, <2>2
    <3>2. \A j \in 1..Len(rows) : back[j] = rows[j]
      BY <2>1, <2>2
    <3> QED BY <3>1, <3>2, SeqEqual
  <2> QED BY <1>2, <2>1, <2>3
<1> QED BY <1>1, <1>2

LEMMA StampNat ==
    ASSUME NEW now \in Nat
    PROVE  Stamp(now) \in Nat /\ Stamp(now) <= now
BY DataAssumption DEF Stamp

LEMMA CleanupRows ==
    ASSUME NEW rows \in SUBSET CodeRow, NEW now
    PROVE  /\ Cleanup(rows, now) \in SUBSET rows
           /\ \A r \in Cleanup(rows, now) : ~r.used
BY DEF Cleanup

(***************************************************************************)
(* Lemmas about the tree                                                   *)
(***************************************************************************)
LEMMA TreeFacts ==
    /\ NotAMapping \notin Tree
    /\ BootstrapTree \in Tree /\ RebuiltTree \in Tree
    /\ \A tree \in Tree \cup {NotAMapping} : Mapped(tree) \in Tree
    /\ \A tree \in Tree : Mapped(tree) = tree
BY DataAssumption, StoreAssumption DEF Mapped

(* A splice only adds entries of the server's at the end, and cutting them *)
(* off again gives the tree back.                                          *)
LEMMA SplicedTree ==
    ASSUME NEW tree \in Tree
    PROVE  /\ Spliced(tree) \in Tree
           /\ Len(Additions(tree)) \in Nat
           /\ Extends(Spliced(tree), tree)
           /\ SectionsOf(Spliced(tree)) = SectionsOf(tree)
           /\ \A key \in AppKeys : HasEntry(Spliced(tree), key)
           /\ SubSeq(Spliced(tree), 1, Len(Spliced(tree)) - Len(Additions(tree))) = tree
           /\ Len(Additions(tree)) = 0 => Spliced(tree) = tree
<1> DEFINE more == Additions(tree)
           long == tree \o more
<1>1. tree # NotAMapping
  BY TreeFacts
<1>2. tree \in Seq(Section \cup AppKeys)
  BY DEF Tree
<1>3. /\ Absent(tree, "login_codes") \in Seq(AppKeys)
      /\ Absent(tree, "predictions") \in Seq(AppKeys)
  <2>1. \A key \in AppKeys : <<key>> \in Seq(AppKeys)
    OBVIOUS
  <2>2. <<>> \in Seq(AppKeys) /\ {"login_codes", "predictions"} = AppKeys
    BY DEF AppKeys
  <2> QED BY <2>1, <2>2 DEF Absent
<1>4. more = Absent(tree, "login_codes") \o Absent(tree, "predictions")
  BY <1>1 DEF Additions
<1>5. more \in Seq(AppKeys)
  <2> HIDE DEF more
  <2> QED BY <1>3, <1>4
<1>6. Spliced(tree) = long
  BY <1>1 DEF Spliced
<1>7. \A key \in AppKeys : HasEntry(tree, key) \/ \E i \in 1..Len(more) : more[i] = key
  <2>1. CASE HasEntry(tree, "login_codes")
    BY <2>1, <1>4 DEF Absent, AppKeys
  <2>2. CASE ~HasEntry(tree, "login_codes")
    <3>1. CASE HasEntry(tree, "predictions")
      BY <3>1, <2>2, <1>4 DEF Absent, AppKeys
    <3>2. CASE ~HasEntry(tree, "predictions")
      <4>1. more = <<"login_codes">> \o <<"predictions">>
        BY <3>2, <2>2, <1>4 DEF Absent
      <4>2. Len(more) = 2 /\ more[1] = "login_codes" /\ more[2] = "predictions"
        <5> HIDE DEF more
        <5> QED BY <4>1
      <4> QED BY <4>2 DEF AppKeys
    <3> QED BY <3>1, <3>2
  <2> QED BY <2>1, <2>2
<1> HIDE DEF more
<1>8. /\ long \in Seq(Section \cup AppKeys)
      /\ Len(long) = Len(tree) + Len(more) /\ Len(tree) \in Nat /\ Len(more) \in Nat
      /\ \A i \in 1..Len(tree) : long[i] = tree[i]
      /\ \A i \in 1..Len(more) : long[Len(tree) + i] = more[i]
  BY <1>2, <1>5
<1>9. \A i \in 1..Len(long) : i \notin 1..Len(tree) => long[i] \in AppKeys
  <2> SUFFICES ASSUME NEW i \in 1..Len(long), i \notin 1..Len(tree)
               PROVE  long[i] \in AppKeys
    OBVIOUS
  <2>1. i - Len(tree) \in 1..Len(more) /\ i = Len(tree) + (i - Len(tree))
    BY <1>8
  <2>2. long[i] = more[i - Len(tree)]
    BY <1>8, <2>1
  <2> QED BY <2>1, <2>2, <1>5
<1>10. DOMAIN long = 1..Len(long) /\ DOMAIN tree = 1..Len(tree)
  BY <1>2, <1>8
<1>11. 1..Len(tree) \subseteq 1..Len(long)
  BY <1>8
<1> HIDE DEF long
<1>12. Extends(long, tree)
  BY <1>8, <1>9, <1>10, <1>11 DEF Extends
<1>13. SectionsOf(long) = SectionsOf(tree)
  BY <1>8, <1>9, <1>10, <1>11 DEF SectionsOf
<1>14. ASSUME NEW key \in AppKeys PROVE HasEntry(long, key)
  <2>1. long # NotAMapping
    BY <1>8, TreeFacts DEF Tree
  <2>2. CASE HasEntry(tree, key)
    BY <2>1, <2>2, <1>8, <1>10, <1>11 DEF HasEntry
  <2>3. ASSUME NEW i \in 1..Len(more), more[i] = key PROVE HasEntry(long, key)
    <3>1. Len(tree) + i \in 1..Len(long)
      BY <1>8
    <3> QED BY <2>1, <2>3, <3>1, <1>8, <1>10 DEF HasEntry
  <2> QED BY <2>2, <2>3, <1>7
<1>15. SubSeq(long, 1, Len(long) - Len(more)) = tree
  <2>1. Len(long) - Len(more) = Len(tree) /\ Len(tree) <= Len(long)
    BY <1>8
  <2> DEFINE back == SubSeq(long, 1, Len(tree))
  <2>2. back \in Seq(Section \cup AppKeys) /\ Len(back) = Len(tree)
    BY <1>8, <2>1
  <2>3. \A i \in 1..Len(tree) : back[i] = tree[i]
    BY <1>8, <2>1
  <2>4. back = tree
    <3> HIDE DEF back
    <3> QED BY <2>2, <2>3, <1>2, SeqEqual
  <2> QED BY <2>1, <2>4
<1>16. Len(more) = 0 => long = tree
  <2> SUFFICES ASSUME Len(more) = 0 PROVE long = tree
    OBVIOUS
  <2> QED BY <1>2, <1>8, SeqEqual
<1> QED BY <1>6, <1>8, <1>12, <1>13, <1>14, <1>15, <1>16 DEF more, Tree

(***************************************************************************)
(* The inductive invariant: the initial states                             *)
(***************************************************************************)
LEMMA EmptyDocumentType == EmptyDocument \in Document /\ NoRequest \in Request
<1>1. <<>> \in Seq(Row)
  OBVIOUS
<1>2. EmptyDocument \in Document
  BY <1>1, StoreAssumption DEF EmptyDocument, Document, AppKeys
<1>3. NoPicks \in [{} -> Pick \cup {Blank}]
  BY DEF NoPicks
<1>4. NoPicks \in Picks
  BY <1>3 DEF Picks
<1>5. NoRequest \in Request
  BY <1>4 DEF NoRequest, Request, AllOps, LoginOps
<1> QED BY <1>2, <1>5

LEMMA InitIInv == Init => IInv
<1> SUFFICES ASSUME Init PROVE IInv
  OBVIOUS
<1>1. disk # NoDoc => /\ disk \in Document
                      /\ disk.predictions = <<>>
                      /\ \A r, q \in disk.codes : r = q
                      /\ \A r \in disk.codes : r.id = 0 /\ ~r.used
  <2> SUFFICES ASSUME disk # NoDoc
               PROVE  /\ disk \in Document
                      /\ disk.predictions = <<>>
                      /\ \A r, q \in disk.codes : r = q
                      /\ \A r \in disk.codes : r.id = 0 /\ ~r.used
    OBVIOUS
  <2>1. disk \in [predictions : {<<>>}, tree : EditedTree,
          codes : {{}} \cup {{[id |-> 0, code |-> c, issued |-> Unparseable,
                               used |-> FALSE]} : c \in Code}]
    BY DEF Init
  <2>2. /\ disk.predictions = <<>>
        /\ disk = [predictions |-> disk.predictions, codes |-> disk.codes,
                   tree |-> disk.tree]
        /\ disk.tree \in Tree \cup {NotAMapping}
        /\ disk.codes = {} \/ \E c \in Code :
              disk.codes = {[id |-> 0, code |-> c, issued |-> Unparseable,
                             used |-> FALSE]}
    BY <2>1, StoreAssumption
  <2>3. /\ disk.codes \in SUBSET CodeRow
        /\ \A r, q \in disk.codes : r = q
        /\ \A r \in disk.codes : r.id = 0 /\ ~r.used
    <3>1. CASE disk.codes = {}
      BY <3>1
    <3>2. ASSUME NEW c \in Code,
                 disk.codes = {[id |-> 0, code |-> c, issued |-> Unparseable,
                                used |-> FALSE]}
          PROVE  <2>3
      <4>1. [id |-> 0, code |-> c, issued |-> Unparseable, used |-> FALSE]
              \in CodeRow
        BY DEF CodeRow
      <4> QED BY <3>2, <4>1
    <3> QED BY <2>2, <3>1, <3>2
  <2>4. disk.predictions \in Seq(Row)
    BY <2>2
  <2> QED BY <2>2, <2>3, <2>4 DEF Document
<1>2. TypeOK
  <2>1. undo \in [index : Nat, rows : Seq(Row)]
    BY DEF Init, NoUndo
  <2>2. predictions \in Seq(Row) /\ redeemed \in Seq(Nat)
    BY DEF Init
  <2> QED BY <1>1, <2>1, <2>2, EmptyDocumentType, TreeFacts, StoreAssumption
          DEF Init, TypeOK, Labels, Held, Uncommitted, Replies
<1>3. /\ LockHeld /\ Recoverable /\ Staged /\ MemoryMatchesDisk /\ LeftAsked /\ CodeAsked
      /\ SplicedInWrite
  BY StoreAssumption
  DEF Init, SplicedInWrite, LeftAsked, CodeAsked, LockHeld, Recoverable, Staged, MemoryMatchesDisk, Held, Uncommitted
<1>4. UniqueRows(predictions) /\ UniqueKeys
  BY <1>1 DEF Init, UniqueRows, UniqueKeys
<1>5. CodesDistinct /\ RedeemedGone /\ OneTimeUse
  BY <1>1 DEF Init, CodesDistinct, UniqueIds, RedeemedGone, Redeemed, OneTimeUse,
              Held, Uncommitted
<1> QED BY <1>2, <1>3, <1>4, <1>5 DEF IInv

(***************************************************************************)
(* The inductive invariant: startup, shutdown and the clock                *)
(***************************************************************************)
LEMMA LoadIInv == IInv /\ Load => IInv'
<1> SUFFICES ASSUME IInv, Load PROVE IInv'
  OBVIOUS
<1> USE DEF IInv, Load, caller
<1>1. TypeOK'
  BY TreeFacts DEF TypeOK, Document
<1>2. /\ LockHeld' /\ Recoverable' /\ Staged' /\ LeftAsked' /\ CodeAsked'
      /\ SplicedInWrite'
  BY DEF LockHeld, LeftAsked, CodeAsked, Recoverable, Staged, SplicedInWrite, Held,
         Uncommitted
<1>3. MemoryMatchesDisk'
  BY DEF MemoryMatchesDisk
<1>4. UniqueRows(predictions)' /\ UniqueKeys'
  BY DEF UniqueRows, UniqueKeys
<1>5. CodesDistinct' /\ RedeemedGone' /\ OneTimeUse'
  BY DEF CodesDistinct, UniqueIds, RedeemedGone, Redeemed, OneTimeUse, LockHeld, Held, Uncommitted
<1> QED BY <1>1, <1>2, <1>3, <1>4, <1>5

LEMMA BootstrapIInv == IInv /\ Bootstrap => IInv'
<1> SUFFICES ASSUME IInv, Bootstrap PROVE IInv'
  OBVIOUS
<1> USE DEF IInv, Bootstrap, caller
<1>1. TypeOK'
  BY EmptyDocumentType, TreeFacts DEF TypeOK
<1>2. /\ LockHeld' /\ Recoverable' /\ Staged' /\ LeftAsked' /\ CodeAsked'
      /\ SplicedInWrite'
  BY DEF LockHeld, LeftAsked, CodeAsked, Recoverable, Staged, SplicedInWrite, Held,
         Uncommitted
<1>3. MemoryMatchesDisk'
  BY EmptyDocumentType, TreeFacts, StoreAssumption DEF MemoryMatchesDisk, EmptyDocument
<1>4. UniqueRows(predictions)' /\ UniqueKeys'
  BY DEF UniqueRows, UniqueKeys, EmptyDocument
<1>5. CodesDistinct' /\ RedeemedGone' /\ OneTimeUse'
  BY DEF CodesDistinct, UniqueIds, RedeemedGone, Redeemed, OneTimeUse,
         EmptyDocument, LockHeld, Held, Uncommitted
<1> QED BY <1>1, <1>2, <1>3, <1>4, <1>5

LEMMA CrashIInv == IInv /\ Crash => IInv'
<1> SUFFICES ASSUME IInv, Crash PROVE IInv'
  OBVIOUS
<1> USE DEF IInv, Crash
<1>1. TypeOK'
  <2>1. NoUndo \in [index : Nat, rows : Seq(Row)]
    BY DEF NoUndo
  <2>2. <<>> \in Seq(Row) /\ {} \in SUBSET CodeRow /\ {} \in SUBSET Key
    OBVIOUS
  <2> QED BY <2>1, <2>2, EmptyDocumentType, TreeFacts, StoreAssumption
          DEF TypeOK, Labels, Held, Uncommitted, Replies
<1>2. /\ LockHeld' /\ Recoverable' /\ Staged' /\ MemoryMatchesDisk'
      /\ LeftAsked' /\ CodeAsked' /\ SplicedInWrite'
  BY StoreAssumption
  DEF LockHeld, LeftAsked, CodeAsked, Recoverable, Staged, SplicedInWrite,
      MemoryMatchesDisk, Held, Uncommitted
<1>3. UniqueRows(predictions)' /\ UniqueKeys'
  BY DEF UniqueRows, UniqueKeys
<1>4. CodesDistinct' /\ RedeemedGone' /\ OneTimeUse'
  BY DEF CodesDistinct, UniqueIds, RedeemedGone, Redeemed, OneTimeUse, Held, Uncommitted
<1> QED BY <1>1, <1>2, <1>3, <1>4

LEMMA EditIInv ==
    ASSUME NEW tree \in EditedTree PROVE IInv /\ Edit(tree) => IInv'
<1> SUFFICES ASSUME IInv, Edit(tree) PROVE IInv'
  OBVIOUS
<1> USE DEF IInv, Edit, caller, document, nodes
<1>1. /\ disk \in Document /\ disk' \in Document /\ disk' # NoDoc
      /\ disk'.predictions = disk.predictions /\ disk'.codes = disk.codes
  BY StoreAssumption DEF TypeOK, Document
<1>2. TypeOK'
  BY <1>1 DEF TypeOK
<1>3. /\ LockHeld' /\ Recoverable' /\ Staged' /\ MemoryMatchesDisk'
      /\ LeftAsked' /\ CodeAsked' /\ SplicedInWrite'
  BY DEF LockHeld, LeftAsked, CodeAsked, Recoverable, Staged, SplicedInWrite,
         MemoryMatchesDisk, Held, Uncommitted
<1>4. UniqueRows(predictions)' /\ UniqueKeys'
  BY <1>1 DEF UniqueRows, UniqueKeys
<1>5. CodesDistinct' /\ RedeemedGone' /\ OneTimeUse'
  BY <1>1 DEF CodesDistinct, UniqueIds, RedeemedGone, Redeemed, OneTimeUse, LockHeld, Held, Uncommitted
<1> QED BY <1>2, <1>3, <1>4, <1>5

(* Steps that touch neither the file, memory, the lock nor a request       *)
(* inside a method.                                                        *)
LEMMA OutsideIInv ==
    ASSUME IInv, TypeOK', LockHeld', LeftAsked', CodeAsked',
           UNCHANGED <<up, document, disk, tmp, lock, undo, issuedCodes, redeemed>>,
           \A c \in Client : pc'[c] \in Held =>
              pc'[c] = pc[c] /\ req'[c] = req[c]
    PROVE  IInv'
<1> USE DEF IInv, document, nodes
<1>1. Recoverable'
  <2> SUFFICES ASSUME NEW c \in Client, pc'[c] \in Uncommitted
               PROVE  /\ disk' # NoDoc
                      /\ RestoredPredictions(req[c].op)' = disk'.predictions
                      /\ RestoredCodes(req[c].op)' = disk'.codes
                      /\ RestoredTree' = Mapped(disk'.tree)
                      /\ pc'[c] = "upsert" => req'[c].op = "saveBatch"
    BY DEF Recoverable
  <2>1. pc[c] = pc'[c] /\ req[c] = req'[c]
    BY DEF Held
  <2>2. RestoredPredictions(req[c].op)' = RestoredPredictions(req[c].op)
    BY <2>1 DEF RestoredPredictions
  <2>3. RestoredCodes(req[c].op)' = RestoredCodes(req[c].op)
    BY <2>1 DEF RestoredCodes
  <2>4. RestoredTree' = RestoredTree
    BY DEF RestoredTree
  <2> QED BY <2>1, <2>2, <2>3, <2>4 DEF Recoverable
<1>2. Staged' /\ MemoryMatchesDisk'
  BY DEF Staged, MemoryMatchesDisk, Held, Uncommitted, Encoded
<1>a. SplicedInWrite'
  BY DEF SplicedInWrite, RestoredTree, LockHeld, Held, Uncommitted
<1>3. UniqueRows(predictions)' /\ UniqueKeys'
  BY DEF UniqueRows, UniqueKeys
<1>4. CodesDistinct' /\ RedeemedGone' /\ OneTimeUse'
  BY DEF CodesDistinct, UniqueIds, RedeemedGone, Redeemed, OneTimeUse, Held, Uncommitted
<1> QED BY <1>1, <1>2, <1>a, <1>3, <1>4

LEMMA TickIInv == IInv /\ Tick => IInv'
<1> SUFFICES ASSUME IInv, Tick PROVE IInv'
  OBVIOUS
<1>1. TypeOK' /\ LockHeld' /\ LeftAsked' /\ CodeAsked'
  BY DEF IInv, Tick, caller, document, nodes, TypeOK, LockHeld, LeftAsked, CodeAsked
<1> QED BY <1>1, OutsideIInv DEF Tick, caller

(***************************************************************************)
(* The inductive invariant: calls                                          *)
(***************************************************************************)
LEMMA AsksAreRequests ==
    ASSUME NEW op \in Op, NEW ask \in Asks(op), NEW now \in Nat
    PROVE  [op |-> op, picks |-> ask.picks, code |-> ask.code, now |-> now]
              \in Request
<1>1. NoPicks \in Picks
  BY EmptyDocumentType DEF Request, NoRequest
<1>2. ASSUME NEW k \in Key, NEW f \in [{k} -> Pick]
      PROVE  f \in Picks
  <2>1. f \in [{k} -> Pick \cup {Blank}] /\ {k} \in SUBSET Key
    OBVIOUS
  <2> QED BY <2>1 DEF Picks
<1>3. ask.picks \in Picks /\ ask.code \in Code \cup {NoCode}
  <2>1. CASE op = "savePick"
    BY <2>1, <1>2 DEF Asks
  <2>2. CASE op = "saveBatch"
    BY <2>2 DEF Asks
  <2>3. CASE op \notin {"savePick", "saveBatch"}
    BY <2>3, <1>1 DEF Asks
  <2> QED BY <2>1, <2>2, <2>3
<1> QED BY <1>3, StoreAssumption DEF Request

LEMMA CallIInv == ASSUME NEW c \in Client PROVE IInv /\ Call(c) => IInv'
<1> SUFFICES ASSUME IInv, Call(c) PROVE IInv'
  OBVIOUS
<1>1. TypeOK'
  <2>1. PICK op \in Op : \E ask \in Asks(op) :
           req' = [req EXCEPT ![c] = [op |-> op, picks |-> ask.picks,
                                      code |-> ask.code, now |-> clock]]
    BY DEF Call
  <2>2. req' \in [Client -> Request]
    BY <2>1, AsksAreRequests DEF IInv, TypeOK
  <2> QED BY <2>2 DEF IInv, Call, document, nodes, TypeOK, Labels, Replies
<1>2. LockHeld'
  BY DEF IInv, TypeOK, Call, LockHeld, Held, Uncommitted
<1>3. \A d \in Client : pc'[d] \in Held => pc'[d] = pc[d] /\ req'[d] = req[d]
  BY DEF IInv, TypeOK, Call, Held, Uncommitted
<1>4. LeftAsked'
  BY DEF IInv, TypeOK, Call, LeftAsked
<1>5. CodeAsked'
  <2> SUFFICES ASSUME NEW d \in Client, pc'[d] # "idle", req'[d].op = "createCode"
               PROVE  req'[d].code # NoCode
    BY DEF CodeAsked
  <2>1. CASE d = c
    <3>1. PICK op \in Op : \E ask \in Asks(op) :
             req' = [req EXCEPT ![c] = [op |-> op, picks |-> ask.picks,
                                        code |-> ask.code, now |-> clock]]
      BY DEF Call
    <3>2. PICK ask \in Asks(op) : req'[d] = [op |-> op, picks |-> ask.picks,
                                        code |-> ask.code, now |-> clock]
      BY <2>1, <3>1 DEF IInv, TypeOK
    <3> QED BY <3>2, StoreAssumption DEF Asks
  <2>2. CASE d # c
    BY <2>2 DEF IInv, TypeOK, Call, CodeAsked
  <2> QED BY <2>1, <2>2
<1> QED BY <1>1, <1>2, <1>3, <1>4, <1>5, OutsideIInv DEF Call

LEMMA RejectIInv ==
    ASSUME NEW c \in Client PROVE IInv /\ RejectLoginCode(c) => IInv'
<1> SUFFICES ASSUME IInv, RejectLoginCode(c) PROVE IInv'
  OBVIOUS
<1> USE DEF RejectLoginCode, Enter, Return, Goto
<1>1. TypeOK'
  BY EmptyDocumentType DEF IInv, document, nodes, TypeOK, Labels, Replies
<1>2. LockHeld'
  BY StoreAssumption DEF IInv, TypeOK, LockHeld, Held, Uncommitted
<1>3. \A d \in Client : pc'[d] \in Held => pc'[d] = pc[d] /\ req'[d] = req[d]
  BY DEF IInv, TypeOK, Held, Uncommitted
<1>4. lock' = lock
  OBVIOUS
<1>5. LeftAsked' /\ CodeAsked'
  BY DEF IInv, TypeOK, LeftAsked, CodeAsked, NoRequest
<1> QED BY <1>1, <1>2, <1>3, <1>4, <1>5, OutsideIInv

(***************************************************************************)
(* The inductive invariant: what every method may assume and must keep     *)
(***************************************************************************)

(* A method that gets the lock finds memory and file in agreement.         *)
LEMMA AtEntry ==
    ASSUME IInv, NEW c \in Client, NEW op, Enter(c, op)
    PROVE  /\ up
           /\ disk # NoDoc
           /\ disk.predictions = predictions
           /\ disk.codes = codes
           /\ raw = Mapped(disk.tree)
           /\ appended = 0
           /\ RestoredTree = Mapped(disk.tree)
           /\ \A r \in codes : ~r.used
           /\ \A d \in Client : pc[d] \notin Held
           /\ req[c] \in Request
<1>1. up
  BY DEF IInv, LockHeld, Enter
<1>2. /\ disk # NoDoc /\ predictions = disk.predictions /\ codes = disk.codes
      /\ raw = Mapped(disk.tree)
  BY <1>1 DEF IInv, MemoryMatchesDisk, Enter
<1>3. \A d \in Client : pc[d] \notin Held
  BY StoreAssumption DEF IInv, LockHeld, Enter
<1>4. appended = 0
  BY <1>3 DEF IInv, SplicedInWrite, Held, Uncommitted
<1> QED BY <1>1, <1>2, <1>3, <1>4, StoreAssumption
        DEF IInv, TypeOK, CodesDistinct, RestoredTree

(* What the holder of the lock has to show: the rest of the invariant says *)
(* nothing about requests outside a method.                                *)
LEMMA HolderKeeps ==
    ASSUME NEW c \in Client, LockHeld', lock' = c,
           pc'[c] \in Uncommitted =>
              /\ disk' # NoDoc
              /\ RestoredPredictions(req[c].op)' = disk'.predictions
              /\ RestoredCodes(req[c].op)' = disk'.codes
              /\ RestoredTree' = Mapped(disk'.tree)
              /\ pc'[c] = "upsert" => req'[c].op = "saveBatch",
           pc'[c] \in {"rename", "renamed"} => \A key \in AppKeys : HasEntry(raw', key),
           pc'[c] = "rename" => tmp' = Encoded(raw, req[c].now)',
           pc'[c] = "renamed" => disk' = Encoded(raw, req[c].now)',
           appended' # 0 => pc'[c] \in {"rename", "renamed"},
           pc'[c] = "rename" => Extends(raw, RestoredTree)'
    PROVE  Recoverable' /\ Staged' /\ MemoryMatchesDisk' /\ SplicedInWrite'
<1>1. \A d \in Client : pc'[d] \in Held => d = c
  BY DEF LockHeld
<1>2. lock' # NoClient
  BY StoreAssumption
<1>3. Recoverable'
  BY <1>1 DEF Recoverable, Held
<1>4. Staged'
  BY <1>1 DEF Staged, Held, Uncommitted
<1>5. MemoryMatchesDisk'
  BY <1>2 DEF MemoryMatchesDisk
<1>6. SplicedInWrite'
  BY <1>1 DEF SplicedInWrite, Held, Uncommitted
<1> QED BY <1>3, <1>4, <1>5, <1>6

LEMMA RequestedRowType ==
    ASSUME NEW c \in Client, req[c] \in Request, NEW k \in DOMAIN req[c].picks
    PROVE  RequestedRow(c, k) \in Row
<1>1. req[c].picks \in Picks /\ req[c].now \in Nat
  BY DEF Request
<1>2. PICK K \in SUBSET Key : req[c].picks \in [K -> Pick \cup {Blank}]
  BY <1>1 DEF Picks
<1>3. k \in Key /\ req[c].picks[k] \in Pick \cup {Blank}
  BY <1>2
<1> QED BY <1>1, <1>3, StampNat DEF RequestedRow, Row

(***************************************************************************)
(* The inductive invariant: the methods' changes in memory                 *)
(***************************************************************************)
LEMMA SavePickIInv == ASSUME NEW c \in Client PROVE IInv /\ SavePick(c) => IInv'
<1> SUFFICES ASSUME IInv, SavePick(c) PROVE IInv'
  OBVIOUS
<1>1. PICK k \in DOMAIN req[c].picks :
        /\ predictions' = Upsert(predictions, RequestedRow(c, k))
        /\ undo' = IF HasRow(predictions, k)
                     THEN LET i == IndexOf(predictions, k)
                          IN [index |-> i, rows |-> <<predictions[i]>>]
                     ELSE NoUndo
  BY DEF SavePick
<1> DEFINE row == RequestedRow(c, k)
<1>2. Enter(c, "savePick")
  BY DEF SavePick
<1>3. row \in Row /\ row.key = k /\ predictions \in Seq(Row) /\ UniqueRows(predictions)
  BY <1>2, AtEntry, RequestedRowType DEF IInv, TypeOK, RequestedRow
<1>4. predictions' \in Seq(Row) /\ UniqueRows(predictions)'
  <2> HIDE DEF row
  <2>1. Upsert(predictions, row) \in Seq(Row) /\ UniqueRows(Upsert(predictions, row))
    BY <1>3, UpsertRows
  <2> QED BY <1>1, <2>1 DEF row, UniqueRows
<1>5. /\ undo' \in [index : Nat, rows : Seq(Row)]
      /\ RestoredPredictions("savePick")' = predictions
  <2>1. CASE HasRow(predictions, k)
    <3> DEFINE i == IndexOf(predictions, k)
    <3>1. i \in 1..Len(predictions)
      BY <2>1, <1>3, IndexOfFound
    <3>2. undo' = [index |-> i, rows |-> <<predictions[i]>>]
      BY <2>1, <1>1
    <3>3. [predictions' EXCEPT ![i] = predictions[i]] = predictions
      <4> HIDE DEF row
      <4> QED BY <2>1, <1>1, <1>3, UpsertUndone DEF row
    <3> HIDE DEF i
    <3>4. <<predictions[i]>> \in Seq(Row) /\ i \in Nat /\ i # 0
      BY <3>1, <1>3
    <3> QED BY <3>2, <3>3, <3>4 DEF RestoredPredictions
  <2>2. CASE ~HasRow(predictions, k)
    <3>1. undo' = [index |-> 0, rows |-> <<>>]
      BY <2>2, <1>1 DEF NoUndo
    <3>2. RemoveLast(predictions') = predictions
      <4> HIDE DEF row
      <4> QED BY <2>2, <1>1, <1>3, UpsertUndone DEF row
    <3>3. <<>> \in Seq(Row)
      OBVIOUS
    <3> QED BY <3>1, <3>2, <3>3 DEF RestoredPredictions, RemoveLast
  <2> QED BY <2>1, <2>2
<1>6. TypeOK'
  BY <1>4, <1>5 DEF IInv, TypeOK, SavePick, Goto, caller, nodes, Labels, Held, Uncommitted
<1>7. LockHeld'
  BY <1>2, AtEntry, StoreAssumption
  DEF IInv, TypeOK, LockHeld, SavePick, Goto, Held, Uncommitted
<1>8. Recoverable' /\ Staged' /\ MemoryMatchesDisk' /\ SplicedInWrite'
  <2>1. /\ pc'[c] = "write" /\ req'[c] = req[c] /\ req[c].op = "savePick"
        /\ lock' = c /\ disk' = disk /\ raw' = raw /\ appended' = appended /\ codes' = codes
    BY DEF IInv, TypeOK, SavePick, Enter, Goto, caller, nodes
  <2>2. RestoredPredictions(req[c].op)' = disk'.predictions
    BY <2>1, <1>2, <1>5, AtEntry
  <2>3. RestoredCodes(req[c].op)' = disk'.codes
    BY <2>1, <1>2, AtEntry DEF RestoredCodes
  <2>4. appended' = 0 /\ RestoredTree' = Mapped(disk'.tree)
    BY <2>1, <1>2, AtEntry DEF RestoredTree
  <2> QED BY <2>1, <2>2, <2>3, <2>4, <1>2, <1>7, AtEntry, HolderKeeps
<1>9. UniqueKeys'
  BY DEF IInv, UniqueKeys, SavePick
<1>10. CodesDistinct' /\ RedeemedGone' /\ OneTimeUse'
  <2>1. \A d \in Client : pc'[d] \in Held => d = c /\ req'[d].op # "consumeCode"
    BY <1>7 DEF LockHeld, SavePick, Enter, caller
  <2> QED BY <2>1 DEF IInv, CodesDistinct, UniqueIds, RedeemedGone, Redeemed,
                      OneTimeUse, SavePick
<1>11. LeftAsked' /\ CodeAsked'
  BY DEF IInv, TypeOK, LeftAsked, CodeAsked, SavePick, Enter, Goto, caller, nodes
<1> QED BY <1>4, <1>11, <1>6, <1>7, <1>8, <1>9, <1>10 DEF IInv

LEMMA BeginBatchIInv == ASSUME NEW c \in Client PROVE IInv /\ BeginBatch(c) => IInv'
<1> SUFFICES ASSUME IInv, BeginBatch(c) PROVE IInv'
  OBVIOUS
<1>1. Enter(c, "saveBatch")
  BY DEF BeginBatch
<1>2. Qualifying(req[c].picks) \in SUBSET Key
  <2>1. req[c].picks \in Picks
    BY <1>1, AtEntry DEF Request
  <2>2. PICK K \in SUBSET Key : req[c].picks \in [K -> Pick \cup {Blank}]
    BY <2>1 DEF Picks
  <2> QED BY <2>2 DEF Qualifying
<1>3. TypeOK'
  BY <1>2 DEF IInv, TypeOK, BeginBatch, Goto, document, nodes, caller, Labels, Held, Uncommitted
<1>4. LockHeld'
  BY <1>1, AtEntry, StoreAssumption
  DEF IInv, TypeOK, LockHeld, BeginBatch, Goto, Held, Uncommitted
<1>5. Recoverable' /\ Staged' /\ MemoryMatchesDisk' /\ SplicedInWrite'
  <2>1. /\ pc'[c] \in {"upsert", "write"} /\ req'[c] = req[c]
        /\ req[c].op = "saveBatch"
        /\ lock' = c /\ disk' = disk /\ raw' = raw /\ appended' = appended /\ codes' = codes
        /\ undo'.rows = predictions
    BY DEF IInv, TypeOK, BeginBatch, Enter, Goto, document, nodes, caller
  <2>2. RestoredPredictions(req[c].op)' = disk'.predictions
    BY <2>1, <1>1, AtEntry DEF RestoredPredictions
  <2>3. RestoredCodes(req[c].op)' = disk'.codes
    BY <2>1, <1>1, AtEntry DEF RestoredCodes
  <2>4. appended' = 0 /\ RestoredTree' = Mapped(disk'.tree)
    BY <2>1, <1>1, AtEntry DEF RestoredTree
  <2> QED BY <2>1, <2>2, <2>3, <2>4, <1>1, <1>4, AtEntry, HolderKeeps
<1>6. UniqueRows(predictions)' /\ UniqueKeys'
  BY DEF IInv, UniqueRows, UniqueKeys, BeginBatch, document
<1>7. CodesDistinct' /\ RedeemedGone' /\ OneTimeUse'
  <2>1. \A d \in Client : pc'[d] \in Held => d = c /\ req'[d].op # "consumeCode"
    BY <1>4 DEF LockHeld, BeginBatch, Enter, caller
  <2> QED BY <2>1 DEF IInv, CodesDistinct, UniqueIds, RedeemedGone, Redeemed,
                      OneTimeUse, BeginBatch, document
<1>8. LeftAsked' /\ CodeAsked'
  <2>1. left' \subseteq DOMAIN req[c].picks
    BY DEF BeginBatch, Qualifying
  <2>2. \A d \in Client : pc'[d] = "upsert" => d = c
    BY <1>4 DEF LockHeld, BeginBatch, Held, Uncommitted
  <2> QED BY <2>1, <2>2
          DEF IInv, TypeOK, LeftAsked, CodeAsked, BeginBatch, Enter, Goto, caller
<1> QED BY <1>8, <1>3, <1>4, <1>5, <1>6, <1>7 DEF IInv

LEMMA UpsertNextIInv == ASSUME NEW c \in Client PROVE IInv /\ UpsertNext(c) => IInv'
<1> SUFFICES ASSUME IInv, UpsertNext(c) PROVE IInv'
  OBVIOUS
<1>1. PICK k \in left : /\ predictions' = Upsert(predictions, RequestedRow(c, k))
                        /\ left' = left \ {k}
  BY DEF UpsertNext
<1> DEFINE row == RequestedRow(c, k)
<1>2. /\ pc[c] = "upsert" /\ lock = c /\ req[c] \in Request
      /\ req[c].op = "saveBatch" /\ k \in DOMAIN req[c].picks
  BY DEF IInv, TypeOK, UpsertNext, LockHeld, Recoverable, LeftAsked, Held, Uncommitted
<1>3. row \in Row /\ predictions \in Seq(Row) /\ UniqueRows(predictions)
  BY <1>2, RequestedRowType DEF IInv, TypeOK
<1>4. predictions' \in Seq(Row) /\ UniqueRows(predictions)'
  <2> HIDE DEF row
  <2>1. Upsert(predictions, row) \in Seq(Row) /\ UniqueRows(Upsert(predictions, row))
    BY <1>3, UpsertRows
  <2> QED BY <1>1, <2>1 DEF row, UniqueRows
<1>5. TypeOK'
  BY <1>1, <1>4 DEF IInv, TypeOK, UpsertNext, Goto, caller, nodes, Labels, Held, Uncommitted
<1>6. LockHeld'
  BY <1>2 DEF IInv, TypeOK, LockHeld, UpsertNext, Goto, Held, Uncommitted
<1>7. Recoverable' /\ Staged' /\ MemoryMatchesDisk' /\ SplicedInWrite'
  <2>1. /\ pc'[c] \in {"upsert", "write"} /\ req'[c] = req[c]
        /\ lock' = c /\ disk' = disk /\ raw' = raw /\ appended' = appended /\ codes' = codes
        /\ undo' = undo
    BY <1>2 DEF IInv, TypeOK, UpsertNext, Goto, caller, nodes
  <2>2. RestoredPredictions(req[c].op) = disk.predictions /\ RestoredCodes(req[c].op) = disk.codes
        /\ disk # NoDoc /\ RestoredTree = Mapped(disk.tree)
    BY <1>2 DEF IInv, Recoverable, Uncommitted
  <2>5. appended = 0
    BY <1>2 DEF IInv, SplicedInWrite, LockHeld, Held, Uncommitted
  <2>6. RestoredTree' = RestoredTree
    BY <2>1 DEF RestoredTree
  <2>3. RestoredPredictions(req[c].op)' = disk'.predictions
    BY <2>1, <2>2, <1>2 DEF RestoredPredictions
  <2>4. RestoredCodes(req[c].op)' = disk'.codes
    BY <2>1, <2>2, <1>2 DEF RestoredCodes
  <2> QED BY <2>1, <2>2, <2>3, <2>4, <2>5, <2>6, <1>2, <1>6, HolderKeeps
<1>8. UniqueKeys'
  BY DEF IInv, UniqueKeys, UpsertNext
<1>9. CodesDistinct' /\ RedeemedGone' /\ OneTimeUse'
  <2>1. \A d \in Client : pc'[d] \in Held => d = c /\ req'[d].op # "consumeCode"
    BY <1>2, <1>6 DEF LockHeld, UpsertNext, caller
  <2> QED BY <2>1 DEF IInv, CodesDistinct, UniqueIds, RedeemedGone, Redeemed,
                      OneTimeUse, UpsertNext
<1>10. LeftAsked' /\ CodeAsked'
  <2>1. \A d \in Client : pc'[d] \in Held => d = c
    BY <1>2, <1>6 DEF LockHeld, UpsertNext
  <2> QED BY <2>1, <1>1, <1>2 DEF IInv, TypeOK, LeftAsked, CodeAsked, UpsertNext, Goto, caller,
              Held, Uncommitted
<1> QED BY <1>4, <1>5, <1>6, <1>7, <1>8, <1>9, <1>10 DEF IInv

LEMMA CreateIInv == ASSUME NEW c \in Client PROVE IInv /\ CreateLoginCode(c) => IInv'
<1> SUFFICES ASSUME IInv, CreateLoginCode(c) PROVE IInv'
  OBVIOUS
<1> DEFINE r == [id |-> issuedCodes + 1, code |-> req[c].code,
                 issued |-> Stamp(req[c].now), used |-> FALSE]
<1>1. Enter(c, "createCode") /\ codes' = codes \cup {r}
  BY DEF CreateLoginCode
<1>2. r \in CodeRow /\ issuedCodes \in Nat
  <2>1. req[c] \in Request /\ req[c].code # NoCode
    BY <1>1, AtEntry DEF IInv, CodeAsked, Enter
  <2>2. req[c].code \in Code /\ req[c].now \in Nat
    BY <2>1 DEF Request
  <2>3. Stamp(req[c].now) \in Nat
    BY <2>2, StampNat
  <2>4. issuedCodes \in Nat /\ issuedCodes + 1 \in Nat
    BY DEF IInv, TypeOK
  <2> QED BY <2>2, <2>3, <2>4 DEF CodeRow
<1>3. \A q \in codes : q.id \in Nat /\ q.id <= issuedCodes
  BY DEF IInv, CodesDistinct, UniqueIds, TypeOK, CodeRow
<1>4. TypeOK'
  <2>1. codes' \in SUBSET CodeRow
    <3> HIDE DEF r
    <3> QED BY <1>1, <1>2 DEF IInv, TypeOK
  <2>2. issuedCodes' \in Nat
    BY <1>2 DEF CreateLoginCode
  <2> QED BY <2>1, <2>2 DEF IInv, TypeOK, CreateLoginCode, Goto, caller, nodes, Labels, Held, Uncommitted
<1>5. LockHeld'
  BY <1>1, AtEntry, StoreAssumption
  DEF IInv, TypeOK, LockHeld, CreateLoginCode, Goto, Held, Uncommitted
<1>6. Recoverable' /\ Staged' /\ MemoryMatchesDisk' /\ SplicedInWrite'
  <2>1. /\ pc'[c] = "write" /\ req'[c] = req[c] /\ req[c].op = "createCode"
        /\ lock' = c /\ disk' = disk /\ raw' = raw /\ appended' = appended /\ predictions' = predictions
    BY DEF IInv, TypeOK, CreateLoginCode, Enter, Goto, caller, nodes
  <2>2. RestoredCodes(req[c].op)' = codes
    <3>1. {q \in codes' : \E p \in codes' : p.id > q.id} = codes
      <4>1. r.id = issuedCodes + 1
        OBVIOUS
      <4> HIDE DEF r
      <4> QED BY <1>1, <1>2, <1>3, <4>1
    <3> QED BY <2>1, <3>1 DEF RestoredCodes
  <2>3. RestoredPredictions(req[c].op)' = disk'.predictions
    BY <2>1, <1>1, AtEntry DEF RestoredPredictions
  <2>4. appended' = 0 /\ RestoredTree' = Mapped(disk'.tree)
    BY <2>1, <1>1, AtEntry DEF RestoredTree
  <2> QED BY <2>1, <2>2, <2>3, <2>4, <1>1, <1>5, AtEntry, HolderKeeps
<1>7. UniqueRows(predictions)' /\ UniqueKeys'
  BY DEF IInv, UniqueRows, UniqueKeys, CreateLoginCode
<1>8. CodesDistinct'
  <2>1. \A p, q \in codes' : p.id = q.id => p = q
    <3>1. r.id = issuedCodes + 1
      OBVIOUS
    <3> HIDE DEF r
    <3> QED BY <1>1, <1>2, <1>3, <3>1 DEF IInv, CodesDistinct, UniqueIds
  <2>2. \A q \in codes' : q.id <= issuedCodes'
    BY <1>1, <1>2, <1>3 DEF CreateLoginCode
  <2>3. disk # NoDoc => \A q \in disk.codes : q.id <= issuedCodes'
    BY <1>1, <1>2, <1>3, AtEntry DEF CreateLoginCode
  <2> QED BY <2>1, <2>2, <2>3 DEF IInv, CodesDistinct, UniqueIds, CreateLoginCode
<1>9. RedeemedGone' /\ OneTimeUse'
  <2>1. \A d \in Client : pc'[d] \in Held => d = c /\ req'[d].op # "consumeCode"
    BY <1>5 DEF LockHeld, CreateLoginCode, Enter, caller
  <2>2. \A i \in DOMAIN redeemed : redeemed[i] \in Nat /\ redeemed[i] <= issuedCodes
    BY DEF IInv, TypeOK, RedeemedGone
  <2>3. \A i \in DOMAIN redeemed : redeemed[i] <= issuedCodes' /\ redeemed[i] # r.id
    BY <2>2, <1>2 DEF CreateLoginCode
  <2> HIDE DEF r
  <2> QED BY <1>1, <2>1, <2>3
          DEF IInv, RedeemedGone, Redeemed, OneTimeUse, CreateLoginCode
<1>10. LeftAsked' /\ CodeAsked'
  BY DEF IInv, TypeOK, LeftAsked, CodeAsked, CreateLoginCode, Enter, Goto, caller, nodes
<1> QED BY <1>4, <1>5, <1>6, <1>7, <1>8, <1>9, <1>10 DEF IInv

(* Marking a row used and unmarking it again.                              *)
LEMMA MarkUndone ==
    ASSUME NEW rows \in SUBSET CodeRow, NEW r \in rows, ~r.used,
           \A p, q \in rows : p.id = q.id => p = q
    PROVE  /\ MarkUsed(rows, r) \in SUBSET CodeRow
           /\ \A p, q \in MarkUsed(rows, r) : p.id = q.id => p = q
           /\ \A q \in MarkUsed(rows, r) : \E p \in rows : p.id = q.id
           /\ ClearUsed(MarkUsed(rows, r), r.id) = rows
<1> DEFINE u == WithUsed(r, TRUE)
           marked == (rows \ {r}) \cup {u}
<1>1. u \in CodeRow /\ u.id = r.id /\ WithUsed(u, FALSE) = r
  BY DEF WithUsed, CodeRow
<1>2. \A q \in rows \ {r} : q.id # r.id
  OBVIOUS
<1> HIDE DEF u
<1>3. marked \in SUBSET CodeRow
  BY <1>1
<1>4. \A p, q \in marked : p.id = q.id => p = q
  BY <1>1, <1>2
<1>5. \A q \in marked : \E p \in rows : p.id = q.id
  BY <1>1
<1>6. {IF q.id = r.id THEN WithUsed(q, FALSE) ELSE q : q \in marked} = rows
  <2> DEFINE back(q) == IF q.id = r.id THEN WithUsed(q, FALSE) ELSE q
  <2>1. \A q \in marked : back(q) \in rows
    BY <1>1, <1>2
  <2>2. \A p \in rows : \E q \in marked : back(q) = p
    <3> SUFFICES ASSUME NEW p \in rows PROVE \E q \in marked : back(q) = p
      OBVIOUS
    <3>1. CASE p = r
      BY <1>1, <3>1
    <3>2. CASE p # r
      BY <1>2, <3>2
    <3> QED BY <3>1, <3>2
  <2>3. {back(q) : q \in marked} = rows
    <3> HIDE DEF back, marked
    <3> QED BY <2>1, <2>2
  <2> QED BY <2>3
<1>7. MarkUsed(rows, r) = marked
  BY DEF MarkUsed, u
<1> QED BY <1>3, <1>4, <1>5, <1>6, <1>7 DEF ClearUsed

LEMMA ConsumeIInv ==
    ASSUME NEW c \in Client PROVE IInv /\ ConsumeLoginCode(c) => IInv'
<1> SUFFICES ASSUME IInv, ConsumeLoginCode(c) PROVE IInv'
  OBVIOUS
<1>1. PICK r \in Matches(c) :
        /\ codes' = MarkUsed(codes, r)
        /\ undo' = [index |-> r.id, rows |-> <<>>]
  BY DEF ConsumeLoginCode
<1>2. Enter(c, "consumeCode")
  BY DEF ConsumeLoginCode
<1>3. r \in codes /\ ~r.used /\ codes \in SUBSET CodeRow
  BY DEF IInv, TypeOK, Matches, Redeemable
<1>4. \A p, q \in codes : p.id = q.id => p = q
  BY DEF IInv, CodesDistinct, UniqueIds
<1>5. /\ codes' \in SUBSET CodeRow
      /\ \A p, q \in codes' : p.id = q.id => p = q
      /\ \A q \in codes' : \E p \in codes : p.id = q.id
      /\ ClearUsed(codes', r.id) = codes
  BY <1>1, <1>3, <1>4, MarkUndone
<1>6. TypeOK'
  <2>1. undo' \in [index : Nat, rows : Seq(Row)]
    <3>1. r.id \in Nat /\ <<>> \in Seq(Row)
      BY <1>3 DEF CodeRow
    <3> QED BY <1>1, <3>1
  <2> QED BY <1>5, <2>1 DEF IInv, TypeOK, ConsumeLoginCode, Goto, caller, nodes, Labels,
                            Held, Uncommitted
<1>7. LockHeld'
  BY <1>2, AtEntry, StoreAssumption
  DEF IInv, TypeOK, LockHeld, ConsumeLoginCode, Goto, Held, Uncommitted
<1>8. Recoverable' /\ Staged' /\ MemoryMatchesDisk' /\ SplicedInWrite'
  <2>1. /\ pc'[c] = "write" /\ req'[c] = req[c] /\ req[c].op = "consumeCode"
        /\ lock' = c /\ disk' = disk /\ raw' = raw /\ appended' = appended /\ predictions' = predictions
    BY DEF IInv, TypeOK, ConsumeLoginCode, Enter, Goto, caller, nodes
  <2>2. RestoredCodes(req[c].op)' = disk'.codes
    <3>1. undo'.index = r.id
      BY <1>1
    <3>2. RestoredCodes(req[c].op)' = ClearUsed(codes', r.id)
      BY <2>1, <3>1 DEF RestoredCodes
    <3> QED BY <2>1, <3>2, <1>2, <1>5, AtEntry
  <2>3. RestoredPredictions(req[c].op)' = disk'.predictions
    BY <2>1, <1>2, AtEntry DEF RestoredPredictions
  <2>4. appended' = 0 /\ RestoredTree' = Mapped(disk'.tree)
    BY <2>1, <1>2, AtEntry DEF RestoredTree
  <2> QED BY <2>1, <2>2, <2>3, <2>4, <1>2, <1>7, AtEntry, HolderKeeps
<1>9. UniqueRows(predictions)' /\ UniqueKeys'
  BY DEF IInv, UniqueRows, UniqueKeys, ConsumeLoginCode
<1>10. CodesDistinct'
  BY <1>5 DEF IInv, CodesDistinct, UniqueIds, ConsumeLoginCode
<1>11. RedeemedGone' /\ OneTimeUse'
  <2>1. \A d \in Client : pc'[d] \in Held => d = c
    BY <1>7 DEF LockHeld, ConsumeLoginCode
  <2>2. WithUsed(r, TRUE).id = r.id /\ WithUsed(r, TRUE).used
    BY <1>3 DEF WithUsed, CodeRow
  <2>3. \E q \in codes' : q.id = undo'.index /\ q.used
    BY <1>1, <2>2 DEF MarkUsed
  <2>4. \A q \in codes' : ~Redeemed(q.id)
    BY <1>5 DEF IInv, RedeemedGone, Redeemed
  <2>5. redeemed' = redeemed /\ disk' = disk /\ issuedCodes' = issuedCodes
    BY DEF ConsumeLoginCode
  <2> QED BY <2>1, <2>3, <2>4, <2>5
          DEF IInv, RedeemedGone, Redeemed, OneTimeUse, ConsumeLoginCode
<1>12. LeftAsked' /\ CodeAsked'
  BY DEF IInv, TypeOK, LeftAsked, CodeAsked, ConsumeLoginCode, Enter, Goto, caller, nodes
<1> QED BY <1>6, <1>7, <1>8, <1>9, <1>10, <1>11, <1>12 DEF IInv

(***************************************************************************)
(* The inductive invariant: writeLocked                                    *)
(***************************************************************************)
LEMMA EncodedType ==
    ASSUME IInv, NEW tree \in Tree, NEW now
    PROVE  Encoded(tree, now) \in Document /\ Encoded(tree, now) # NoDoc
<1>1. Cleanup(codes, now) \in SUBSET CodeRow
  BY CleanupRows DEF IInv, TypeOK
<1>2. predictions \in Seq(Row) /\ <<>> \in Seq(Row)
  BY DEF IInv, TypeOK
<1>3. Encoded(tree, now) \in Document
  BY <1>1, <1>2 DEF Encoded, Document
<1> QED BY <1>3, StoreAssumption

(* What a tree with both entries gets encoded to.                          *)
LEMMA EncodedRows ==
    ASSUME NEW tree, NEW now, \A key \in AppKeys : HasEntry(tree, key)
    PROVE  Encoded(tree, now) = [predictions |-> predictions,
                                 codes |-> Cleanup(codes, now), tree |-> tree]
BY DEF Encoded, AppKeys

LEMMA WriteTempIInv == ASSUME NEW c \in Client PROVE IInv /\ WriteTemp(c) => IInv'
<1> SUFFICES ASSUME IInv, WriteTemp(c) PROVE IInv'
  OBVIOUS
<1> USE DEF caller
<1>1. lock = c /\ lock' = c
  BY DEF IInv, WriteTemp, LockHeld, Held, Uncommitted
<1>2. raw \in Tree /\ appended = 0
  BY <1>1 DEF IInv, TypeOK, WriteTemp, SplicedInWrite, LockHeld, Held, Uncommitted
<1>3. /\ raw' = Spliced(raw) /\ appended' = Len(Additions(raw))
      /\ raw' \in Tree /\ appended' \in Nat
      /\ \A key \in AppKeys : HasEntry(raw', key)
  BY <1>2, SplicedTree DEF WriteTemp
<1>4. tmp' = Encoded(raw', req[c].now) /\ tmp' \in Document
  BY <1>3, EncodedType DEF WriteTemp
<1>5. TypeOK'
  BY <1>3, <1>4 DEF IInv, TypeOK, WriteTemp, Goto, Labels, Held, Uncommitted
<1>6. LockHeld'
  BY <1>1 DEF IInv, TypeOK, LockHeld, WriteTemp, Goto, Held, Uncommitted
<1>7. Recoverable' /\ Staged' /\ MemoryMatchesDisk' /\ SplicedInWrite'
  <2>1. /\ pc'[c] = "rename" /\ req' = req /\ disk' = disk
        /\ codes' = codes /\ predictions' = predictions /\ undo' = undo
    BY DEF IInv, TypeOK, WriteTemp, Goto
  <2>2. /\ RestoredPredictions(req[c].op) = disk.predictions
        /\ RestoredCodes(req[c].op) = disk.codes
        /\ disk # NoDoc /\ RestoredTree = Mapped(disk.tree)
    BY DEF IInv, Recoverable, Uncommitted, WriteTemp
  <2>3. RestoredPredictions(req[c].op)' = disk'.predictions
    BY <2>1, <2>2 DEF RestoredPredictions
  <2>4. RestoredCodes(req[c].op)' = disk'.codes
    BY <2>1, <2>2 DEF RestoredCodes
  <2>5. tmp' = Encoded(raw, req[c].now)'
    BY <2>1, <1>4 DEF Encoded
  <2>6. RestoredTree' = raw
    <3>1. RestoredTree' = IF appended' = 0 THEN raw'
                          ELSE SubSeq(raw', 1, Len(raw') - appended')
      BY DEF RestoredTree
    <3> QED BY <3>1, <1>2, <1>3, SplicedTree
  <2>7. raw = Mapped(disk'.tree)
    BY <2>1, <2>2, <1>2 DEF RestoredTree
  <2>8. Extends(raw, RestoredTree)'
    BY <2>6, <1>2, <1>3, SplicedTree
  <2> QED BY <2>1, <2>2, <2>3, <2>4, <2>5, <2>6, <2>7, <2>8, <1>1, <1>3, <1>6,
             HolderKeeps
<1>8. UniqueRows(predictions)' /\ UniqueKeys' /\ CodesDistinct' /\ OneTimeUse'
  BY DEF IInv, UniqueRows, UniqueKeys, CodesDistinct, UniqueIds, OneTimeUse, WriteTemp
<1>9. RedeemedGone' /\ LeftAsked' /\ CodeAsked'
  BY DEF IInv, TypeOK, RedeemedGone, Redeemed, LeftAsked, CodeAsked, WriteTemp,
         Goto, Held, Uncommitted
<1> QED BY <1>5, <1>6, <1>7, <1>8, <1>9 DEF IInv

LEMMA RenameIInv == ASSUME NEW c \in Client PROVE IInv /\ Rename(c) => IInv'
<1> SUFFICES ASSUME IInv, Rename(c) PROVE IInv'
  OBVIOUS
<1> USE DEF document, nodes, caller
<1>1. /\ disk' = Encoded(raw, req[c].now) /\ raw \in Tree
      /\ \A key \in AppKeys : HasEntry(raw, key)
  BY DEF IInv, TypeOK, Staged, Rename
<1>2. /\ disk' \in Document
      /\ disk'.predictions = predictions /\ disk'.codes = Cleanup(codes, req[c].now)
  BY <1>1, EncodedType, EncodedRows
<1>a. TypeOK'
  BY <1>2 DEF IInv, TypeOK, Rename, Goto, Labels, Held, Uncommitted
<1>3. lock = c /\ lock' = c
  BY DEF IInv, Rename, LockHeld, Held, Uncommitted
<1>4. LockHeld'
  BY <1>3 DEF IInv, TypeOK, LockHeld, Rename, Goto, Held, Uncommitted
<1>5. Recoverable' /\ Staged' /\ MemoryMatchesDisk' /\ SplicedInWrite'
  <2>1. pc'[c] = "renamed" /\ disk' = Encoded(raw, req[c].now)'
    BY <1>1 DEF IInv, TypeOK, Rename, Goto, Encoded
  <2>2. \A key \in AppKeys : HasEntry(raw', key)
    BY <1>1 DEF Rename
  <2> QED BY <2>1, <2>2, <1>3, <1>4, HolderKeeps DEF Uncommitted
<1>6. UniqueRows(predictions)' /\ UniqueKeys'
  BY <1>2 DEF IInv, UniqueRows, UniqueKeys, Rename
<1>7. disk'.codes \in SUBSET codes /\ \A r \in disk'.codes : ~r.used
  BY <1>2, CleanupRows DEF IInv, TypeOK
<1>8. CodesDistinct' /\ OneTimeUse'
  BY <1>7 DEF IInv, CodesDistinct, UniqueIds, OneTimeUse, Rename
<1>9. RedeemedGone'
  BY <1>7 DEF IInv, TypeOK, RedeemedGone, Redeemed, Rename, Goto, Held, Uncommitted
<1>10. LeftAsked' /\ CodeAsked'
  BY DEF IInv, TypeOK, LeftAsked, CodeAsked, Rename, Goto
<1> QED BY <1>a, <1>4, <1>5, <1>6, <1>8, <1>9, <1>10 DEF IInv

(* Returning from a method: the lock is free and memory must be the file.  *)
LEMMA ReturnKeeps ==
    ASSUME IInv, NEW c \in Client, lock = c, NEW answer \in Replies, Return(c, answer),
           disk' = disk, disk \in Document, left' = left, up' = up,
           predictions' = disk.predictions, codes' = disk.codes,
           raw' = Mapped(disk.tree), appended' = 0
    PROVE  /\ LockHeld' /\ Recoverable' /\ Staged' /\ LeftAsked' /\ CodeAsked'
           /\ MemoryMatchesDisk' /\ SplicedInWrite'
           /\ UniqueRows(predictions)' /\ UniqueKeys'
           /\ pc' \in [Client -> Labels] /\ req' \in [Client -> Request]
           /\ reply' \in [Client -> Replies] /\ lock' \in Client \cup {NoClient}
           /\ predictions' \in Seq(Row) /\ codes' \in SUBSET CodeRow
           /\ raw' \in Tree /\ \A d \in Client : pc'[d] \notin Held
<1> USE DEF Return, Goto
<1>1. \A d \in Client : pc'[d] \notin Held
  BY DEF IInv, TypeOK, LockHeld, Held, Uncommitted
<1>2. LockHeld'
  BY <1>1, StoreAssumption DEF IInv, TypeOK, LockHeld
<1>3. Recoverable' /\ Staged' /\ LeftAsked'
  BY <1>1 DEF Recoverable, Staged, LeftAsked, Held, Uncommitted
<1>4. CodeAsked'
  BY DEF IInv, TypeOK, CodeAsked
<1>5. MemoryMatchesDisk' /\ SplicedInWrite'
  BY <1>1, StoreAssumption DEF MemoryMatchesDisk, SplicedInWrite, Held, Uncommitted
<1>6. UniqueRows(predictions)' /\ UniqueKeys'
  BY StoreAssumption DEF IInv, UniqueRows, UniqueKeys
<1>7. /\ pc' \in [Client -> Labels] /\ req' \in [Client -> Request]
      /\ reply' \in [Client -> Replies] /\ lock' \in Client \cup {NoClient}
  BY EmptyDocumentType DEF IInv, TypeOK, Labels
<1>8. predictions' \in Seq(Row) /\ codes' \in SUBSET CodeRow /\ raw' \in Tree
  BY TreeFacts DEF Document
<1> QED BY <1>1, <1>2, <1>3, <1>4, <1>5, <1>6, <1>7, <1>8

LEMMA NoUndoType == NoUndo \in [index : Nat, rows : Seq(Row)]
BY DEF NoUndo

LEMMA WriteFailsIInv == ASSUME NEW c \in Client PROVE IInv /\ WriteFails(c) => IInv'
<1> SUFFICES ASSUME IInv, WriteFails(c) PROVE IInv'
  OBVIOUS
<1>1. pc[c] \in Uncommitted /\ lock = c
  BY DEF IInv, WriteFails, LockHeld, Held, Uncommitted
<1>2. /\ predictions' = disk.predictions /\ codes' = disk.codes
      /\ raw' = Mapped(disk.tree) /\ appended' = 0 /\ disk' = disk /\ disk \in Document
      /\ left' = left /\ up' = up /\ Return(c, "failed")
  BY <1>1 DEF IInv, TypeOK, Recoverable, WriteFails
<1>3. /\ LockHeld' /\ Recoverable' /\ Staged' /\ LeftAsked' /\ CodeAsked'
      /\ MemoryMatchesDisk' /\ SplicedInWrite'
      /\ UniqueRows(predictions)' /\ UniqueKeys'
      /\ pc' \in [Client -> Labels] /\ req' \in [Client -> Request]
      /\ reply' \in [Client -> Replies] /\ lock' \in Client \cup {NoClient}
      /\ predictions' \in Seq(Row) /\ codes' \in SUBSET CodeRow
      /\ raw' \in Tree /\ \A d \in Client : pc'[d] \notin Held
  BY <1>1, <1>2, ReturnKeeps DEF Replies
<1>4. TypeOK'
  BY <1>3, NoUndoType DEF IInv, TypeOK, WriteFails
<1>5. disk # NoDoc /\ disk'.codes = disk.codes
  BY <1>2, StoreAssumption
<1>6. CodesDistinct'
  BY <1>2, <1>5 DEF IInv, CodesDistinct, UniqueIds, WriteFails
<1>7. RedeemedGone' /\ OneTimeUse'
  BY <1>2, <1>3, <1>5 DEF IInv, RedeemedGone, Redeemed, OneTimeUse, WriteFails
<1> QED BY <1>3, <1>4, <1>6, <1>7 DEF IInv

LEMMA CommitIInv == ASSUME NEW c \in Client PROVE IInv /\ Commit(c) => IInv'
<1> SUFFICES ASSUME IInv, Commit(c) PROVE IInv'
  OBVIOUS
<1>1. lock = c /\ pc[c] \in Held
  BY DEF IInv, Commit, LockHeld, Held
<1>a. /\ disk = Encoded(raw, req[c].now) /\ raw \in Tree
      /\ \A key \in AppKeys : HasEntry(raw, key)
  BY DEF IInv, TypeOK, Staged, Commit
<1>2. /\ disk = [predictions |-> predictions, codes |-> Cleanup(codes, req[c].now),
                 tree |-> raw]
      /\ disk \in Document /\ disk # NoDoc
  BY <1>a, EncodedType, EncodedRows
<1>3. /\ predictions' = disk.predictions /\ codes' = disk.codes
      /\ raw' = Mapped(disk.tree) /\ appended' = 0 /\ disk' = disk
      /\ left' = left /\ up' = up /\ Return(c, "ok")
  BY <1>2, <1>a, TreeFacts DEF Commit
<1>4. /\ LockHeld' /\ Recoverable' /\ Staged' /\ LeftAsked' /\ CodeAsked'
      /\ MemoryMatchesDisk' /\ SplicedInWrite'
      /\ UniqueRows(predictions)' /\ UniqueKeys'
      /\ pc' \in [Client -> Labels] /\ req' \in [Client -> Request]
      /\ reply' \in [Client -> Replies] /\ lock' \in Client \cup {NoClient}
      /\ predictions' \in Seq(Row) /\ codes' \in SUBSET CodeRow
      /\ raw' \in Tree /\ \A d \in Client : pc'[d] \notin Held
  BY <1>1, <1>2, <1>3, ReturnKeeps DEF Replies
<1>5. CodesDistinct'
  BY <1>2, <1>3 DEF IInv, CodesDistinct, UniqueIds, Commit
<1>6. redeemed' \in Seq(Nat) /\ RedeemedGone' /\ OneTimeUse'
  <2>1. CASE req[c].op # "consumeCode"
    <3>1. redeemed' = redeemed
      BY <2>1 DEF Commit
    <3> QED BY <3>1, <1>2, <1>3, <1>4
            DEF IInv, TypeOK, RedeemedGone, Redeemed, OneTimeUse, Commit
  <2>2. CASE req[c].op = "consumeCode"
    <3>1. PICK r \in codes : r.id = undo.index /\ r.used
      BY <2>2, <1>1 DEF IInv, RedeemedGone
    <3>2. redeemed' = Append(redeemed, r.id) /\ issuedCodes' = issuedCodes
      BY <2>2, <3>1 DEF Commit
    <3>3. redeemed \in Seq(Nat) /\ r.id \in Nat
      BY DEF IInv, TypeOK, CodeRow
    <3>4. \A i \in DOMAIN redeemed : redeemed[i] # r.id
      BY DEF IInv, RedeemedGone, Redeemed
    <3>5. /\ redeemed' \in Seq(Nat)
          /\ DOMAIN redeemed' = 1..(Len(redeemed) + 1)
          /\ \A i \in 1..Len(redeemed) : redeemed'[i] = redeemed[i]
          /\ redeemed'[Len(redeemed) + 1] = r.id
      BY <3>2, <3>3
    <3>6. OneTimeUse'
      <4> SUFFICES ASSUME NEW i \in DOMAIN redeemed', NEW j \in DOMAIN redeemed',
                          redeemed'[i] = redeemed'[j]
                   PROVE  i = j
        BY DEF OneTimeUse
      <4>1. CASE i \in DOMAIN redeemed /\ j \in DOMAIN redeemed
        <5>1. DOMAIN redeemed = 1..Len(redeemed)
          BY <3>3
        <5>2. redeemed'[i] = redeemed[i] /\ redeemed'[j] = redeemed[j]
          BY <4>1, <5>1, <3>5
        <5>3. redeemed[i] = redeemed[j]
          BY <5>2
        <5>4. OneTimeUse
          BY DEF IInv
        <5> QED BY <4>1, <5>3, <5>4 DEF OneTimeUse
      <4>2. CASE i \notin DOMAIN redeemed \/ j \notin DOMAIN redeemed
        BY <4>2, <3>3, <3>4, <3>5
      <4> QED BY <4>1, <4>2
    <3>7. \A i \in DOMAIN redeemed' : redeemed'[i] <= issuedCodes'
      BY <3>2, <3>3, <3>5 DEF IInv, RedeemedGone, CodesDistinct, UniqueIds
    <3>8. \A q \in disk.codes : q.id # r.id /\ ~Redeemed(q.id)
      <4>1. disk.codes \in SUBSET codes /\ \A q \in disk.codes : ~q.used
        BY <1>2, CleanupRows DEF IInv, TypeOK
      <4> QED BY <3>1, <4>1 DEF IInv, RedeemedGone, CodesDistinct, UniqueIds
    <3>9. \A q \in disk.codes : ~Redeemed(q.id)'
      BY <3>3, <3>5, <3>8 DEF Redeemed
    <3>10. RedeemedGone'
      BY <3>7, <3>9, <1>3, <1>4 DEF RedeemedGone
    <3> QED BY <3>5, <3>6, <3>10
  <2> QED BY <2>1, <2>2
<1>7. TypeOK'
  <2>1. /\ clock' = clock /\ up' = up /\ disk' = disk /\ tmp' = tmp /\ left' = left
        /\ appended' = 0 /\ undo' = NoUndo /\ issuedCodes' = issuedCodes
    BY DEF Commit
  <2> QED BY <2>1, <1>4, <1>6, NoUndoType DEF IInv, TypeOK
<1> QED BY <1>4, <1>5, <1>6, <1>7 DEF IInv

(***************************************************************************)
(* The theorems                                                            *)
(***************************************************************************)
LEMMA StutterIInv == IInv /\ UNCHANGED vars => IInv'
<1> SUFFICES ASSUME IInv, UNCHANGED vars PROVE IInv'
  OBVIOUS
<1>1. TypeOK' /\ LockHeld' /\ LeftAsked' /\ CodeAsked'
  BY DEF IInv, vars, TypeOK, LockHeld, LeftAsked, CodeAsked
<1> QED BY <1>1, OutsideIInv DEF vars, document, nodes

LEMMA NextIInv == IInv /\ [Next]_vars => IInv'
<1> SUFFICES ASSUME IInv, [Next]_vars PROVE IInv'
  OBVIOUS
<1>1. CASE Load \/ Bootstrap \/ Crash \/ Tick
  BY <1>1, LoadIInv, BootstrapIInv, CrashIInv, TickIInv
<1>2. ASSUME NEW tree \in EditedTree, Edit(tree) PROVE IInv'
  BY <1>2, EditIInv
<1>3. ASSUME NEW c \in Client, Call(c) PROVE IInv'
  BY <1>3, CallIInv
<1>4. ASSUME NEW c \in Client, Enters(c) PROVE IInv'
  BY <1>4, SavePickIInv, BeginBatchIInv, CreateIInv, ConsumeIInv, RejectIInv
  DEF Enters
<1>5. ASSUME NEW c \in Client, Holds(c) PROVE IInv'
  BY <1>5, UpsertNextIInv, WriteTempIInv, RenameIInv, WriteFailsIInv, CommitIInv
  DEF Holds
<1>6. CASE UNCHANGED vars
  BY <1>6, StutterIInv
<1> QED BY <1>1, <1>2, <1>3, <1>4, <1>5, <1>6 DEF Next

(* Every reachable state of the store satisfies the inductive invariant:   *)
(* the lock is held by whoever is inside a method, a failing write can     *)
(* still be undone, and what is being written is what memory holds.        *)
THEOREM StoreInvariant == Spec => []IInv
<1>1. Init => IInv
  BY InitIInv
<1>2. IInv /\ [Next]_vars => IInv'
  BY NextIInv
<1> QED BY <1>1, <1>2, PTL DEF Spec

(* Every variable of the store keeps its type.                             *)
THEOREM TypeCorrect == Spec => []TypeOK
<1>1. IInv => TypeOK
  BY DEF IInv
<1> QED BY <1>1, StoreInvariant, PTL

(* Between method calls memory is the data file, whatever failed or was    *)
(* killed before: a rolled-back change is never left behind for the next   *)
(* write (SavePrediction ... writeLocked, store.go).                       *)
THEOREM MemoryIsTheFile == Spec => []MemoryMatchesDisk
<1>1. IInv => MemoryMatchesDisk
  BY DEF IInv
<1> QED BY <1>1, StoreInvariant, PTL

(* The data file holds at most one row per player, kind and scope.         *)
THEOREM OneRowPerKey == Spec => []UniqueKeys
<1>1. IInv => UniqueKeys
  BY DEF IInv
<1> QED BY <1>1, StoreInvariant, PTL

(* A login code lets somebody in at most once (ConsumeLoginCode).          *)
THEOREM CodesAreOneTime == Spec => []OneTimeUse
<1>1. IInv => OneTimeUse
  BY DEF IInv
<1> QED BY <1>1, StoreInvariant, PTL

(* Whatever the file held when the server started, no write of a running   *)
(* server moves, alters or drops a section kept by hand, or adds anything  *)
(* but its own two entries (writeLocked, spliceNamedValueLocked).          *)
THEOREM HandSectionsKept == Spec => SectionsKept
<1>1. IInv /\ [Next]_vars =>
        (up /\ disk # NoDoc => Extends(Mapped(disk'.tree), Mapped(disk.tree)))
  <2> SUFFICES ASSUME IInv, [Next]_vars, up, disk # NoDoc
               PROVE  Extends(Mapped(disk'.tree), Mapped(disk.tree))
    OBVIOUS
  <2>1. ASSUME NEW c \in Client, Rename(c)
        PROVE  Extends(Mapped(disk'.tree), Mapped(disk.tree))
    <3>1. /\ disk'.tree = raw /\ raw \in Tree /\ appended \in Nat
          /\ RestoredTree = Mapped(disk.tree)
      BY <2>1 DEF IInv, TypeOK, Rename, Staged, Encoded, Recoverable, Uncommitted
    <3>2. Extends(raw, RestoredTree)
      BY <2>1 DEF IInv, Rename, SplicedInWrite
    <3> QED BY <3>1, <3>2, TreeFacts
  <2>2. ASSUME disk' = disk
        PROVE  Extends(Mapped(disk'.tree), Mapped(disk.tree))
    BY <2>2 DEF Extends
  <2>3. ASSUME NEW c \in Client, ~Rename(c), Call(c) \/ Enters(c) \/ Holds(c)
        PROVE  disk' = disk
    BY <2>3 DEF Call, Enters, SavePick, BeginBatch, CreateLoginCode, ConsumeLoginCode,
                RejectLoginCode, Holds, UpsertNext, WriteTemp, WriteFails, Commit
  <2>4. CASE Load \/ Bootstrap \/ Crash \/ Tick \/ \E tree \in EditedTree : Edit(tree)
    <3>1. disk' = disk
      BY <2>4 DEF Load, Bootstrap, Crash, Tick, Edit
    <3> QED BY <3>1, <2>2
  <2>5. CASE UNCHANGED vars
    BY <2>2, <2>5 DEF vars
  <2> QED BY <2>1, <2>2, <2>3, <2>4, <2>5 DEF Next
<1>2. IInv /\ [Next]_vars =>
        [up /\ disk # NoDoc => Extends(Mapped(disk'.tree), Mapped(disk.tree))]_vars
  BY <1>1
<1> QED BY <1>2, StoreInvariant, PTL DEF Spec, SectionsKept
=============================================================================
