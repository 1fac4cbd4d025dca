------------------------------ MODULE StoreRows ------------------------------
(***************************************************************************)
(* The data of the fantasy hockey data file and the pure functions         *)
(* internal/store applies to it: the rows the server itself writes         *)
(* (predictions and login_codes), the in-place-or-append upsert, the       *)
(* match ConsumeLoginCode makes, the pruning every write performs, and the *)
(* tree of YAML nodes the rows are spliced into.                           *)
(*                                                                         *)
(* Data abstractions.  A Key stands for the tuple a row is looked up by:   *)
(* (player, kind) for a single-team kind, plus the series key, division or *)
(* award for the others.  A Pick stands for the row's payload (team,       *)
(* teams, finalists, winner and games).  A Code stands for a code_hash, all*)
(* that ConsumeLoginCode matches on; the player_id of the row only rides   *)
(* along and is left out.  A Section stands for an entry of the file's     *)
(* top-level mapping that is kept by hand, its key and all below it, which *)
(* the server never looks into when it writes; how the text of it is laid  *)
(* out is left out.  Instants are counted in ticks, TicksPerSecond of them *)
(* to a second, since time.Now has a fraction that RFC3339 cuts off.       *)
(***************************************************************************)
EXTENDS Integers, Sequences

CONSTANTS
    Key,            \* what a prediction row is looked up by
    TeamsKey,       \* the keys of kind division_playoff_teams
    Pick,           \* a complete payload of a row
    Blank,          \* the payload of a form section the player left empty
    Code,           \* a code_hash
    Section,        \* the hand-maintained entries of the file
    NotAMapping,    \* the tree of an empty file, or of one that says null
    TicksPerSecond, \* resolution of the clock
    Validity        \* loginCodeValidity, in ticks

(* The entries the server writes.                                          *)
AppKeys == {"login_codes", "predictions"}

(* The top-level mapping, in the order of the file.                        *)
Tree == Seq(Section \cup AppKeys)

ASSUME DataAssumption ==
    /\ Section \cap AppKeys = {}
    /\ NotAMapping \notin Tree
    /\ TeamsKey \subseteq Key
    /\ Blank \notin Pick
    /\ TicksPerSecond \in Nat \ {0}
    /\ Validity \in Nat
    /\ TicksPerSecond <= Validity

(* An issued_at that time.Parse rejects: a row damaged by hand.            *)
Unparseable == -1

Row == [key : Key, pick : Pick \cup {Blank}, at : Nat]

(* The rows of login_codes are only ever appended to and filtered, so their *)
(* order is the order of their ids; used is TRUE once used_at is set.       *)
CodeRow == [id : Nat, code : Code, issued : Nat \cup {Unparseable},
            used : BOOLEAN]

Document == [predictions : Seq(Row), codes : SUBSET CodeRow,
             tree : Tree \cup {NotAMapping}]

(* now.UTC().Format(time.RFC3339): the fraction of the second is lost.     *)
Stamp(now) == now - (now % TicksPerSecond)

(***************************************************************************)
(* Predictions                                                             *)
(***************************************************************************)
HasRow(rows, k) == \E i \in DOMAIN rows : rows[i].key = k

IndexOf(rows, k) ==
    CHOOSE i \in DOMAIN rows :
        /\ rows[i].key = k
        /\ \A j \in DOMAIN rows : rows[j].key = k => i <= j

(* Mutant: a resubmission appends.                                         *)
AppendAlways(rows, row) == Append(rows, row)

(* Update the first row with this key in place, or append a new one.       *)
Upsert(rows, row) ==
    IF HasRow(rows, row.key)
      THEN [rows EXCEPT ![IndexOf(rows, row.key)] = row]
      ELSE Append(rows, row)

RemoveLast(rows) == SubSeq(rows, 1, Len(rows) - 1)

(* Mutant: every section of the form becomes a row.                        *)
EverySection(picks) == DOMAIN picks

(* Which picks of a batch become rows: a division's team list always does, *)
(* even empty; a division winner or an award trio only when it is complete.*)
Qualifying(picks) == {k \in DOMAIN picks : k \in TeamsKey \/ picks[k] # Blank}

(***************************************************************************)
(* Login codes                                                             *)
(***************************************************************************)
Expired(r, now) == now - r.issued > Validity

Future(r, now) == r.issued > now

(* The condition of ConsumeLoginCode's scan.                               *)
Redeemable(r, code, now) ==
    /\ r.code = code
    /\ ~r.used
    /\ r.issued # Unparseable
    /\ ~Future(r, now)
    /\ ~Expired(r, now)

(* Mutant: pruning takes a code exactly as old as the validity.            *)
CleanupTooSoon(codes, now) ==
    {r \in codes :
        /\ ~r.used
        /\ \/ r.issued = Unparseable
           \/ ~Future(r, now) /\ now - r.issued < Validity}

(* cleanupLoginCodes: used, expired and future-dated rows go; a row whose  *)
(* issued_at cannot be parsed stays.                                       *)
Cleanup(codes, now) ==
    {r \in codes :
        /\ ~r.used
        /\ \/ r.issued = Unparseable
           \/ ~Future(r, now) /\ ~Expired(r, now)}

(***************************************************************************)
(* The tree                                                                *)
(***************************************************************************)
HasEntry(tree, key) == tree # NotAMapping /\ \E i \in DOMAIN tree : tree[i] = key

(* The rows of a document stand in entries of their own.                   *)
RowsHaveEntries(doc) ==
    /\ doc.predictions # <<>> => HasEntry(doc.tree, "predictions")
    /\ doc.codes # {} => HasEntry(doc.tree, "login_codes")

Absent(tree, key) == IF HasEntry(tree, key) THEN <<>> ELSE <<key>>

(* The pairs spliceNamedValueLocked appends; nothing can be appended to    *)
(* what is no mapping.                                                     *)
Additions(tree) ==
    IF tree = NotAMapping THEN <<>>
    ELSE Absent(tree, "login_codes") \o Absent(tree, "predictions")

(* A key that is there keeps its place and gets the new value, any other   *)
(* comes at the end.                                                       *)
Spliced(tree) == IF tree = NotAMapping THEN tree ELSE tree \o Additions(tree)

SectionsOf(tree) == {tree[i] : i \in DOMAIN tree} \ AppKeys

(* Every entry of a tree is in the other at its place, and what the other  *)
(* has besides is the server's.                                            *)
Extends(longer, tree) ==
    /\ \A i \in DOMAIN tree : i \in DOMAIN longer /\ longer[i] = tree[i]
    /\ \A i \in DOMAIN longer \ DOMAIN tree : longer[i] \in AppKeys
=============================================================================
