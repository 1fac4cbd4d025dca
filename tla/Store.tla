-------------------------------- MODULE Store --------------------------------
(***************************************************************************)
(* internal/store: the one Store of the server, called concurrently by     *)
(* request goroutines, and the data file it keeps.                         *)
(*                                                                         *)
(* Every mutating method holds s.mu from its first statement to its        *)
(* return.  It changes the document in memory, then writeLocked writes a   *)
(* temporary file and renames it over the data file; when any of that      *)
(* fails the method takes its change back out of memory.  The steps are    *)
(* separate actions, because the process can be killed between any two of  *)
(* them, and because what a failed step leaves in memory is written to the *)
(* file by the next request that succeeds.                                 *)
(*                                                                         *)
(* The instant a method stamps and prunes with is its caller's argument:   *)
(* the caller read the clock before it waited for s.mu.                    *)
(***************************************************************************)
EXTENDS StoreRows, FiniteSets

CONSTANTS
    Client,         \* request goroutines
    Op,             \* the operations the clients call
    NoClient,       \* nobody holds s.mu
    NoCode,         \* the code of a request that has none
    NoDoc,          \* no such file
    BootstrapTree,  \* the tree of the file New writes where none is
    RebuiltTree,    \* the tree loadExisting makes of a file without a mapping
    EditedTree,     \* bound: the trees the operator leaves behind
    Malformed,      \* the sections New refuses to load
    MaxClock,       \* bound: the clock stops here
    MaxCodes        \* bound: login codes ever issued

LoginOps == {"createCode", "consumeCode"}
AllOps == {"savePick", "saveBatch"} \cup LoginOps

ASSUME StoreAssumption ==
    /\ Op \subseteq AllOps
    /\ NoClient \notin Client
    /\ NoCode \notin Code
    /\ NoDoc \notin Document
    /\ {BootstrapTree, RebuiltTree} \subseteq Tree
    /\ \A key \in AppKeys :
          HasEntry(BootstrapTree, key) /\ HasEntry(RebuiltTree, key)
    /\ EditedTree \subseteq Tree \cup {NotAMapping}
    /\ Malformed \subseteq Section
    /\ MaxClock \in Nat
    /\ MaxCodes \in Nat

VARIABLES
    clock,          \* clock.NowTime, in ticks
    up,             \* the server process is running
    predictions,    \* s.doc.Predictions
    codes,          \* s.doc.LoginCodes
    raw,            \* the top-level mapping of s.raw
    appended,       \* how many entries a write at work has appended to it
    disk,           \* the data file
    tmp,            \* the temporary file being written
    lock,           \* who holds s.mu for writing
    pc,             \* where each request is
    req,            \* what each request asks, and its caller's now
    left,           \* keys SaveDivisionPicks/SaveAwardPicks still has to upsert
    undo,           \* what the method's error path needs to roll back
    reply,          \* what the last call of each client returned
    issuedCodes,    \* history: how many login codes were ever appended
    redeemed        \* history: the login codes that let somebody in, in order

vars == <<clock, up, predictions, codes, raw, appended, disk, tmp, lock, pc, req, left,
          undo, reply, issuedCodes, redeemed>>

nodes == <<raw, appended>>
document == <<predictions, codes, nodes>>
caller == <<req, reply>>

Picks == UNION {[K -> Pick \cup {Blank}] : K \in SUBSET Key}

Request == [op : AllOps, picks : Picks, code : Code \cup {NoCode}, now : Nat]

NoPicks == [k \in {} |-> Blank]

NoRequest ==
    [op |-> "consumeCode", picks |-> NoPicks, code |-> NoCode, now |-> 0]

NoUndo == [index |-> 0, rows |-> <<>>]

EmptyDocument == [predictions |-> <<>>, codes |-> {}, tree |-> BootstrapTree]

Uncommitted == {"upsert", "write", "rename"}
Held == Uncommitted \cup {"renamed"}
Labels == {"idle", "calling"} \cup Held

Replies == {"none", "ok", "failed", "rejected"}

TypeOK ==
    /\ clock \in Nat
    /\ up \in BOOLEAN
    /\ predictions \in Seq(Row)
    /\ codes \in SUBSET CodeRow
    /\ raw \in Tree
    /\ appended \in Nat
    /\ disk \in Document \cup {NoDoc}
    /\ tmp \in Document \cup {NoDoc}
    /\ lock \in Client \cup {NoClient}
    /\ pc \in [Client -> Labels]
    /\ req \in [Client -> Request]
    /\ left \in SUBSET Key
    /\ undo \in [index : Nat, rows : Seq(Row)]
    /\ reply \in [Client -> Replies]
    /\ issuedCodes \in Nat
    /\ redeemed \in Seq(Nat)

Init ==
    /\ clock = 0
    /\ up = FALSE
    /\ predictions = <<>>
    /\ codes = {}
    /\ raw = RebuiltTree
    /\ appended = 0
    /\ disk \in {NoDoc} \cup
         [predictions : {<<>>}, tree : EditedTree,
          codes : {{}} \cup {{[id |-> 0, code |-> c, issued |-> Unparseable,
                               used |-> FALSE]} : c \in Code}]
    /\ disk # NoDoc => RowsHaveEntries(disk)
    /\ tmp = NoDoc
    /\ lock = NoClient
    /\ pc = [c \in Client |-> "idle"]
    /\ req = [c \in Client |-> NoRequest]
    /\ left = {}
    /\ undo = NoUndo
    /\ reply = [c \in Client |-> "none"]
    /\ issuedCodes = 0
    /\ redeemed = <<>>

(***************************************************************************)
(* Startup and shutdown                                                    *)
(***************************************************************************)

(* A shape error fails New, unless it is inside results or award_finalists,*)
(* and so does a key that stands twice.                                    *)
Loadable(tree) ==
    tree # NotAMapping =>
        /\ SectionsOf(tree) \cap Malformed = {}
        /\ \A i, j \in DOMAIN tree : tree[i] = tree[j] => i = j

(* Mutant: the tree is kept as it was parsed.                              *)
AsParsed(tree) == tree

(* Where the file has no mapping to splice into, raw is rebuilt from the   *)
(* typed document.                                                         *)
Mapped(tree) == IF tree = NotAMapping THEN RebuiltTree ELSE tree

(* New on an existing file: the document is what the file says.            *)
Load ==
    /\ ~up
    /\ disk # NoDoc
    /\ Loadable(disk.tree)
    /\ up' = TRUE
    /\ predictions' = disk.predictions
    /\ codes' = disk.codes
    /\ raw' = Mapped(disk.tree)
    /\ UNCHANGED <<clock, appended, disk, tmp, lock, pc, caller, left, undo,
                   issuedCodes, redeemed>>

(* New on a missing file writes an empty document with the default season. *)
Bootstrap ==
    /\ ~up
    /\ disk = NoDoc
    /\ up' = TRUE
    /\ predictions' = <<>>
    /\ codes' = {}
    /\ raw' = BootstrapTree
    /\ disk' = EmptyDocument
    /\ UNCHANGED <<clock, appended, tmp, lock, pc, caller, left, undo, issuedCodes,
                   redeemed>>

(* The process is killed, at any step of any request: memory, the lock and *)
(* every request in flight are gone, the data file is what it was.         *)
Crash ==
    /\ up
    /\ up' = FALSE
    /\ predictions' = <<>>
    /\ codes' = {}
    /\ raw' = RebuiltTree
    /\ appended' = 0
    /\ tmp' = NoDoc
    /\ lock' = NoClient
    /\ pc' = [c \in Client |-> "idle"]
    /\ req' = [c \in Client |-> NoRequest]
    /\ reply' = [c \in Client |-> "none"]
    /\ left' = {}
    /\ undo' = NoUndo
    /\ UNCHANGED <<clock, disk, issuedCodes, redeemed>>

(* The operator's protocol: stop the server, edit the file, start it.  The *)
(* sections may become anything; the rows stay.                            *)
Edit(tree) ==
    /\ ~up
    /\ disk # NoDoc
    /\ disk' = [disk EXCEPT !.tree = tree]
    /\ RowsHaveEntries(disk')
    /\ UNCHANGED <<clock, up, document, tmp, lock, pc, caller, left, undo,
                   issuedCodes, redeemed>>

Tick ==
    /\ clock < MaxClock
    /\ clock' = clock + 1
    /\ UNCHANGED <<up, document, disk, tmp, lock, pc, caller, left, undo,
                   issuedCodes, redeemed>>

(***************************************************************************)
(* A request calls the store                                               *)
(***************************************************************************)

(* What callers pass: one team or series pick, a form of them, a code.     *)
Asks(op) ==
    IF op = "savePick"
      THEN [picks : UNION {[{k} -> Pick] : k \in Key \ TeamsKey}, code : {NoCode}]
    ELSE IF op = "saveBatch" THEN [picks : Picks, code : {NoCode}]
    ELSE [picks : {NoPicks}, code : Code]

(* The bound on login codes, counting those still to be created.           *)
BelowMaxCodes ==
    issuedCodes + Cardinality({c \in Client : pc[c] # "idle" /\
                                              req[c].op = "createCode"}) < MaxCodes

(* The caller reads the clock and calls; s.mu.Lock may make it wait.       *)
Call(c) ==
    /\ up
    /\ pc[c] = "idle"
    /\ \E op \in Op : \E ask \in Asks(op) :
        /\ op = "createCode" => BelowMaxCodes
        /\ req' = [req EXCEPT ![c] = [op |-> op, picks |-> ask.picks,
                                      code |-> ask.code, now |-> clock]]
    /\ pc' = [pc EXCEPT ![c] = "calling"]
    /\ reply' = [reply EXCEPT ![c] = "none"]
    /\ UNCHANGED <<clock, up, document, disk, tmp, lock, left, undo,
                   issuedCodes, redeemed>>

(* s.mu.Lock returns to the caller of op.                                  *)
Enter(c, op) ==
    /\ pc[c] = "calling"
    /\ req[c].op = op
    /\ lock = NoClient

Goto(c, label) == pc' = [pc EXCEPT ![c] = label]

(* Mutant: an error path that returns without unlocking.                   *)
ReturnLocked(c, answer) ==
    /\ lock' = IF answer = "failed" THEN lock ELSE NoClient
    /\ Goto(c, "idle")
    /\ req' = [req EXCEPT ![c] = NoRequest]
    /\ reply' = [reply EXCEPT ![c] = answer]

(* Return to the caller, the deferred Unlock included.                     *)
Return(c, answer) ==
    /\ lock' = NoClient
    /\ Goto(c, "idle")
    /\ req' = [req EXCEPT ![c] = NoRequest]
    /\ reply' = [reply EXCEPT ![c] = answer]

RequestedRow(c, k) ==
    [key |-> k, pick |-> req[c].picks[k], at |-> Stamp(req[c].now)]

(* SavePrediction and SaveSeriesPick, up to the write.                     *)
SavePick(c) ==
    /\ Enter(c, "savePick")
    /\ lock' = c
    /\ \E k \in DOMAIN req[c].picks :
        /\ predictions' = Upsert(predictions, RequestedRow(c, k))
        /\ undo' = IF HasRow(predictions, k)
                     THEN LET i == IndexOf(predictions, k)
                          IN [index |-> i, rows |-> <<predictions[i]>>]
                     ELSE NoUndo
    /\ Goto(c, "write")
    /\ UNCHANGED <<clock, up, codes, nodes, disk, tmp, caller, left, issuedCodes,
                   redeemed>>

(* SaveDivisionPicks and SaveAwardPicks take a snapshot of the rows first. *)
BeginBatch(c) ==
    /\ Enter(c, "saveBatch")
    /\ lock' = c
    /\ undo' = [index |-> 0, rows |-> predictions]
    /\ left' = Qualifying(req[c].picks)
    /\ Goto(c, IF left' = {} THEN "write" ELSE "upsert")
    /\ UNCHANGED <<clock, up, document, disk, tmp, caller, issuedCodes, redeemed>>

(* They then range over the maps: Go picks the order, but the team lists   *)
(* come before the division winners.                                       *)
UpsertNext(c) ==
    /\ pc[c] = "upsert"
    /\ \E k \in left :
        /\ k \in TeamsKey \/ left \cap TeamsKey = {}
        /\ predictions' = Upsert(predictions, RequestedRow(c, k))
        /\ left' = left \ {k}
    /\ Goto(c, IF left' = {} THEN "write" ELSE "upsert")
    /\ UNCHANGED <<clock, up, codes, nodes, disk, tmp, lock, caller, undo,
                   issuedCodes, redeemed>>

(* CreateLoginCode appends the new row, up to the write.                   *)
CreateLoginCode(c) ==
    /\ Enter(c, "createCode")
    /\ lock' = c
    /\ issuedCodes' = issuedCodes + 1
    /\ codes' = codes \cup {[id |-> issuedCodes + 1, code |-> req[c].code,
                             issued |-> Stamp(req[c].now), used |-> FALSE]}
    /\ Goto(c, "write")
    /\ UNCHANGED <<clock, up, predictions, nodes, disk, tmp, caller, left, undo,
                   redeemed>>

Matches(c) == {r \in codes : Redeemable(r, req[c].code, req[c].now)}

(* Mutant: used_at is never set.                                           *)
NeverUsed(r, b) == [r EXCEPT !.used = FALSE]

WithUsed(r, b) == [r EXCEPT !.used = b]

MarkUsed(rows, r) == (rows \ {r}) \cup {WithUsed(r, TRUE)}

ClearUsed(rows, id) ==
    {IF r.id = id THEN WithUsed(r, FALSE) ELSE r : r \in rows}

(* ConsumeLoginCode marks the first row that matches, up to the write.     *)
ConsumeLoginCode(c) ==
    /\ Enter(c, "consumeCode")
    /\ \E r \in Matches(c) :
        /\ \A q \in Matches(c) : r.id <= q.id
        /\ codes' = MarkUsed(codes, r)
        /\ undo' = [index |-> r.id, rows |-> <<>>]
    /\ lock' = c
    /\ Goto(c, "write")
    /\ UNCHANGED <<clock, up, predictions, nodes, disk, tmp, caller, left,
                   issuedCodes, redeemed>>

(* No row matches: ok = false and nothing is written.                      *)
RejectLoginCode(c) ==
    /\ Enter(c, "consumeCode")
    /\ Matches(c) = {}
    /\ Return(c, "rejected")
    /\ UNCHANGED <<clock, up, document, disk, tmp, left, undo, issuedCodes,
                   redeemed>>

(***************************************************************************)
(* writeLocked                                                             *)
(***************************************************************************)

(* Mutant: used codes are written out.                                     *)
EncodedUnpruned(tree, now) ==
    [predictions |-> predictions, codes |-> codes, tree |-> tree]

(* What gets encoded is the tree: the predictions and the pruned codes are *)
(* in the file only as the values of its two entries.                      *)
Encoded(tree, now) ==
    [predictions |-> IF HasEntry(tree, "predictions") THEN predictions ELSE <<>>,
     codes |-> IF HasEntry(tree, "login_codes") THEN Cleanup(codes, now) ELSE {},
     tree |-> tree]

(* Both values are spliced into the tree, which is then encoded and        *)
(* written to the temporary file.                                          *)
WriteTemp(c) ==
    /\ pc[c] = "write"
    /\ raw' = Spliced(raw)
    /\ appended' = Len(Additions(raw))
    /\ tmp' = Encoded(Spliced(raw), req[c].now)
    /\ Goto(c, "rename")
    /\ UNCHANGED <<clock, up, predictions, codes, disk, lock, caller, left, undo,
                   issuedCodes, redeemed>>

Rename(c) ==
    /\ pc[c] = "rename"
    /\ disk' = tmp
    /\ tmp' = NoDoc
    /\ Goto(c, "renamed")
    /\ UNCHANGED <<clock, up, document, lock, caller, left, undo, issuedCodes,
                   redeemed>>

(* Only after the rename do the pruned codes replace those in memory.  The *)
(* method then returns its result, a consumed code its player.             *)
Commit(c) ==
    /\ pc[c] = "renamed"
    /\ codes' = Cleanup(codes, req[c].now)
    /\ redeemed' = IF req[c].op = "consumeCode"
                     THEN Append(redeemed, undo.index)
                     ELSE redeemed
    /\ appended' = 0
    /\ undo' = NoUndo
    /\ Return(c, "ok")
    /\ UNCHANGED <<clock, up, predictions, raw, disk, tmp, left, issuedCodes>>

(* Mutants: an update in place, a batch is not undone; every failure       *)
(* truncates, an update in place too.                                      *)
UpdateNotUndone(op) ==
    IF op = "saveBatch" THEN undo.rows
    ELSE IF op = "savePick" /\ undo.index = 0 THEN RemoveLast(predictions)
    ELSE predictions

BatchNotUndone(op) ==
    IF op # "savePick" THEN predictions
    ELSE IF undo.index = 0 THEN RemoveLast(predictions)
    ELSE [predictions EXCEPT ![undo.index] = undo.rows[1]]

AlwaysTruncates(op) ==
    IF op = "saveBatch" THEN undo.rows
    ELSE IF op # "savePick" THEN predictions
    ELSE RemoveLast(predictions)

(* The error paths of the methods: SavePrediction and SaveSeriesPick put   *)
(* the old row back or truncate, the batches restore their snapshot,       *)
(* CreateLoginCode truncates, ConsumeLoginCode clears the mark.            *)
RestoredPredictions(op) ==
    IF op = "saveBatch" THEN undo.rows
    ELSE IF op # "savePick" THEN predictions
    ELSE IF undo.index = 0 THEN RemoveLast(predictions)
    ELSE [predictions EXCEPT ![undo.index] = undo.rows[1]]

(* Mutant: a consumed code's mark is cleared, a created one stays.         *)
CreateNotUndone(op) ==
    IF op = "consumeCode" THEN ClearUsed(codes, undo.index) ELSE codes

RestoredCodes(op) ==
    IF op = "createCode" THEN {r \in codes : \E q \in codes : q.id > r.id}
    ELSE IF op = "consumeCode" THEN ClearUsed(codes, undo.index)
    ELSE codes

(* Mutant: two entries are cut off though one of them was replaced in its  *)
(* place.                                                                  *)
BothTruncated == IF appended = 0 THEN raw ELSE SubSeq(raw, 1, Len(raw) - 2)

(* restoreSplices: the appended entries are cut off again.                 *)
RestoredTree == IF appended = 0 THEN raw ELSE SubSeq(raw, 1, Len(raw) - appended)

(* CreateTemp, Write, Close or Rename fails.                               *)
WriteFails(c) ==
    /\ pc[c] \in {"write", "rename"}
    /\ predictions' = RestoredPredictions(req[c].op)
    /\ codes' = RestoredCodes(req[c].op)
    /\ raw' = RestoredTree
    /\ appended' = 0
    /\ tmp' = NoDoc
    /\ undo' = NoUndo
    /\ Return(c, "failed")
    /\ UNCHANGED <<clock, up, disk, left, issuedCodes, redeemed>>

(***************************************************************************)
(* Specification                                                           *)
(***************************************************************************)
Enters(c) ==
    \/ SavePick(c)
    \/ BeginBatch(c)
    \/ CreateLoginCode(c)
    \/ ConsumeLoginCode(c)
    \/ RejectLoginCode(c)

Holds(c) ==
    \/ UpsertNext(c)
    \/ WriteTemp(c)
    \/ Rename(c)
    \/ WriteFails(c)
    \/ Commit(c)

Next ==
    \/ Load
    \/ Bootstrap
    \/ Crash
    \/ \E tree \in EditedTree : Edit(tree)
    \/ Tick
    \/ \E c \in Client : Call(c) \/ Enters(c) \/ Holds(c)

Spec == Init /\ [][Next]_vars

(* A goroutine holding s.mu keeps running, and sync.RWMutex lets nobody    *)
(* who waits for it starve.  Nothing obliges anyone to call, to crash, to  *)
(* start the server or to edit the file.                                   *)
Fairness == \A c \in Client : SF_vars(Enters(c)) /\ WF_vars(Holds(c))

FairSpec == Spec /\ Fairness

(***************************************************************************)
(* Refinement: the data file is the durable table, and the rename is the   *)
(* instant at which a call is applied.                                     *)
(***************************************************************************)
NoRow == NoDoc

Filed == IF disk = NoDoc THEN EmptyDocument ELSE disk

Table ==
    [k \in Key |-> IF HasRow(Filed.predictions, k)
                     THEN Filed.predictions[IndexOf(Filed.predictions, k)]
                     ELSE NoRow]

Stage ==
    [c \in Client |-> IF pc[c] = "idle" THEN "idle"
                      ELSE IF pc[c] = "renamed" THEN "applied"
                      ELSE "asked"]

Durable == INSTANCE DurableStore WITH
    running <- up, table <- Table, live <- Filed.codes,
    sections <- SectionsOf(Mapped(Filed.tree)), stage <- Stage, asked <- req, answer <- reply

(***************************************************************************)
(* Properties                                                              *)
(***************************************************************************)

(* Whenever no method runs, memory holds exactly what the file holds, typed*)
(* rows and tree of nodes alike (a rebuilt tree where it has none), so a   *)
(* reader never sees a row that would not survive a restart, and a change  *)
(* whose caller was told it failed is not waiting in memory for the next   *)
(* write to persist it ("rolled back from memory", store.go).              *)
MemoryMatchesDisk ==
    up /\ lock = NoClient =>
        /\ disk # NoDoc
        /\ predictions = disk.predictions
        /\ codes = disk.codes
        /\ raw = Mapped(disk.tree)

(* The file never holds two rows for one player, kind and scope: a         *)
(* resubmission updates, whatever requests raced, failed or were killed.   *)
UniqueKeys ==
    disk # NoDoc =>
        \A i, j \in DOMAIN disk.predictions :
            disk.predictions[i].key = disk.predictions[j].key => i = j

(* A form section left empty never makes a row of its own, save a          *)
(* division's team list (FR-11, quoted at SaveDivisionPicks).              *)
BlankOnlyTeams(rows) ==
    \A i \in DOMAIN rows : rows[i].pick = Blank => rows[i].key \in TeamsKey

NoForcedRows == disk # NoDoc => BlankOnlyTeams(disk.predictions)

(* A prediction row, once in the file, keeps its place in it for ever: no  *)
(* rollback truncates too much and no write drops or reorders rows.        *)
RowsStay ==
    [][disk # NoDoc =>
         \A i \in DOMAIN disk.predictions :
            /\ i \in DOMAIN disk'.predictions
            /\ disk'.predictions[i].key = disk.predictions[i].key]_vars

(* The rows a key has: one at most, by UniqueKeys.                         *)
RowsOf(rows, k) ==
    {rows[i] : i \in {j \in DOMAIN rows : rows[j].key = k}}

(* A write changes the rows its own request asked for, to what it asked,   *)
(* and none besides: it never carries along what an earlier failed or      *)
(* half-done request left in memory.                                       *)
OnlyRequestedPicks ==
    [][disk # NoDoc =>
         \A k \in Key :
            RowsOf(disk'.predictions, k) # RowsOf(disk.predictions, k) =>
                /\ lock \in Client
                /\ k \in Qualifying(req[lock].picks)
                /\ RowsOf(disk'.predictions, k) = {RequestedRow(lock, k)}]_vars

(* A save or a login code is acknowledged only when all of it is in the    *)
(* file: every qualifying pick of a batch, or the new code, which the      *)
(* pruning of its own write must not have removed.                         *)
AcknowledgedOnDisk ==
    [][\A c \in Client : reply'[c] = "ok" /\ reply[c] # "ok" =>
         /\ \A k \in Qualifying(req[c].picks) :
                RowsOf(disk'.predictions, k) = {RequestedRow(c, k)}
         /\ req[c].op = "createCode" =>
                \E r \in disk'.codes : r.id = issuedCodes]_vars

(* A login code lets somebody in at most once, over crashes and restarts   *)
(* between its marking, the write and the answer.                          *)
OneTimeUse ==
    \A i, j \in DOMAIN redeemed : redeemed[i] = redeemed[j] => i = j

Redeeming(c, r) == req[c].op = "consumeCode" /\ req[c].code = r.code

(* A write removes a login code only when it redeems it, when the code has *)
(* expired by now, or when the writer's clock reading is older than the    *)
(* code; a row that cannot be judged stays.                                *)
CodesDroppedForCause ==
    [][disk # NoDoc =>
         \A r \in disk.codes \ disk'.codes :
            /\ r.issued # Unparseable
            /\ lock \in Client
            /\ \/ Redeeming(lock, r)
               \/ Expired(r, clock)
               \/ Future(r, req[lock].now)]_vars

(* "a one-time 6-digit code, valid for 10 minutes" (README.md): a code that*)
(* is still valid leaves the file only when somebody redeems it.           *)
LiveCodesSurvive ==
    [][disk # NoDoc =>
         \A r \in disk.codes \ disk'.codes :
            Redeemable(r, r.code, clock) =>
                lock \in Client /\ Redeeming(lock, r)]_vars

(* "every other hand-maintained section ... round-trips through the exact  *)
(* node objects it was parsed into" (store.go, on Store.raw): whatever the *)
(* operator left in the file, with both, one or none of the entries the    *)
(* server writes, and whatever writes failed since, a write leaves every   *)
(* section in its place and adds only entries of its own.                  *)
SectionsKept ==
    [][up /\ disk # NoDoc => Extends(Mapped(disk'.tree), Mapped(disk.tree))]_vars

(* A call of the store returns: no path leaves s.mu locked behind it.      *)
EveryCallReturns ==
    \A c \in Client : pc[c] = "calling" ~> pc[c] = "idle"

(* The store implements its abstract promise: calls that overlap, fail half*)
(* way or are cut off by a crash look atomic and durable to every caller.  *)
ImplementsDurableStore == Durable!Spec

(***************************************************************************)
(* The inductive invariant behind MemoryMatchesDisk, UniqueKeys and        *)
(* OneTimeUse: what every step of a method leaves true                     *)
(***************************************************************************)

(* s.mu is held by exactly the request that is inside a mutating method.   *)
LockHeld ==
    /\ \A c \in Client : pc[c] \in Held <=> lock = c
    /\ ~up => \A c \in Client : pc[c] = "idle"

(* Until the rename, the error path can still restore what the file holds. *)
Recoverable ==
    \A c \in Client : pc[c] \in Uncommitted =>
        /\ disk # NoDoc
        /\ RestoredPredictions(req[c].op) = disk.predictions
        /\ RestoredCodes(req[c].op) = disk.codes
        /\ RestoredTree = Mapped(disk.tree)
        /\ pc[c] = "upsert" => req[c].op = "saveBatch"

(* The temporary file, then the data file, is the document being written,  *)
(* with an entry for every row.                                            *)
Staged ==
    \A c \in Client :
        /\ pc[c] \in {"rename", "renamed"} => \A key \in AppKeys : HasEntry(raw, key)
        /\ pc[c] = "rename" => tmp = Encoded(raw, req[c].now)
        /\ pc[c] = "renamed" => disk = Encoded(raw, req[c].now)

(* Only a write at work has entries to cut off again, and what it is about *)
(* to rename into place is the file's tree with these entries added.       *)
SplicedInWrite ==
    /\ appended # 0 => \E c \in Client : pc[c] \in {"rename", "renamed"}
    /\ \A c \in Client : pc[c] = "rename" => Extends(raw, RestoredTree)

(* What is left of a batch was asked for, and a code request has a code.   *)
LeftAsked ==
    \A c \in Client : pc[c] = "upsert" => left \subseteq DOMAIN req[c].picks

CodeAsked ==
    \A c \in Client :
        pc[c] # "idle" /\ req[c].op = "createCode" => req[c].code # NoCode

UniqueRows(rows) == \A i, j \in DOMAIN rows : rows[i].key = rows[j].key => i = j

UniqueIds(rows) ==
    /\ \A r, q \in rows : r.id = q.id => r = q
    /\ \A r \in rows : r.id <= issuedCodes

(* No used code is ever in the file, so no restart can bring one back.     *)
CodesDistinct ==
    /\ UniqueIds(codes)
    /\ disk # NoDoc => UniqueIds(disk.codes) /\ \A r \in disk.codes : ~r.used

Redeemed(id) == \E i \in DOMAIN redeemed : redeemed[i] = id

(* A code that let somebody in is gone from memory and file; one that is   *)
(* about to has left the file, and nobody was let in by it before.         *)
RedeemedGone ==
    /\ \A i \in DOMAIN redeemed : redeemed[i] <= issuedCodes
    /\ \A r \in codes : ~Redeemed(r.id)
    /\ disk # NoDoc => \A r \in disk.codes : ~Redeemed(r.id)
    /\ \A c \in Client : pc[c] \in Held /\ req[c].op = "consumeCode" =>
          \E r \in codes : r.id = undo.index /\ r.used

IInv ==
    /\ TypeOK
    /\ LockHeld
    /\ Recoverable
    /\ Staged
    /\ SplicedInWrite
    /\ LeftAsked
    /\ CodeAsked
    /\ MemoryMatchesDisk
    /\ UniqueRows(predictions)
    /\ UniqueKeys
    /\ CodesDistinct
    /\ RedeemedGone
    /\ OneTimeUse

(***************************************************************************)
(* What a write is about to make of the file: with IInv, the inductive     *)
(* invariant behind the action properties and the refinement               *)
(***************************************************************************)

(* What callers pass, having read the clock by now.                        *)
Askable(request, now) ==
    /\ request.now <= now
    /\ request.op = "savePick" =>
          \E k \in Key \ TeamsKey : request.picks \in [{k} -> Pick]
    /\ request.op \in LoginOps => request.picks = NoPicks

WellAsked == \A c \in Client : Askable(req[c], clock)

(* Only a batch that is being upserted has rows left to upsert.            *)
LeftInBatch ==
    /\ left # {} => \E c \in Client : pc[c] = "upsert"
    /\ \A c \in Client : pc[c] = "upsert" => left \subseteq Qualifying(req[c].picks)

(* Memory differs from the file by the picks upserted so far, no other.    *)
PicksApplied ==
    \A c \in Client : pc[c] \in Held => \A k \in Key :
        RowsOf(predictions, k) =
            IF k \in Qualifying(req[c].picks) \ left THEN {RequestedRow(c, k)}
                                                    ELSE RowsOf(disk.predictions, k)

(* Every row of the file is in memory at the same place.                   *)
SameKeys(rows, longer) ==
    \A i \in DOMAIN rows : i \in DOMAIN longer /\ longer[i].key = rows[i].key

RowsInPlace ==
    \A c \in Client : pc[c] \in Held => SameKeys(disk.predictions, predictions)

(* The code that was created or marked is the one that was asked for.      *)
CodesApplied ==
    \A c \in Client : pc[c] \in Held =>
        /\ req[c].op = "createCode" =>
              [id |-> issuedCodes, code |-> req[c].code,
               issued |-> Stamp(req[c].now), used |-> FALSE] \in codes
        /\ req[c].op = "consumeCode" =>
              \E r \in codes :
                 /\ r.id = undo.index /\ r.used
                 /\ Redeemable(WithUsed(r, FALSE), req[c].code, req[c].now)

WInv ==
    /\ IInv
    /\ WellAsked
    /\ LeftInBatch
    /\ PicksApplied
    /\ RowsInPlace
    /\ CodesApplied
    /\ NoForcedRows
    /\ BlankOnlyTeams(predictions)
=============================================================================
