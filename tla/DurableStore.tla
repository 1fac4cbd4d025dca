---------------------------- MODULE DurableStore ----------------------------
(***************************************************************************)
(* What internal/store promises its callers, without memory, files, locks  *)
(* or rollbacks: a durable table with at most one row per key and a set of *)
(* login codes, to which every call is applied at one instant between the  *)
(* call and its answer, entirely or not at all.  An "ok" answer means it   *)
(* was applied, any other answer that it was not; a call cut off by a      *)
(* crash was applied or not, and nobody is told.                           *)
(***************************************************************************)
EXTENDS StoreRows

CONSTANTS Client, NoRow, NoRequest

VARIABLES
    clock,      \* the server's clock
    running,    \* the server accepts calls
    table,      \* the prediction row of each key
    live,       \* the login codes that are on file
    sections,   \* the hand-maintained sections
    stage,      \* each client: idle, asked, or applied and not yet answered
    asked,      \* its request
    answer      \* what its last call returned

vars == <<clock, running, table, live, sections, stage, asked, answer>>

Init ==
    /\ clock = 0
    /\ running = FALSE
    /\ table = [k \in Key |-> NoRow]
    /\ \A r \in live : r.issued = Unparseable
    /\ sections \subseteq Section
    /\ stage = [c \in Client |-> "idle"]
    /\ asked = [c \in Client |-> NoRequest]
    /\ answer = [c \in Client |-> "none"]

Open ==
    /\ ~running
    /\ running' = TRUE
    /\ UNCHANGED <<clock, table, live, sections, stage, asked, answer>>

Kill ==
    /\ running
    /\ running' = FALSE
    /\ stage' = [c \in Client |-> "idle"]
    /\ asked' = [c \in Client |-> NoRequest]
    /\ answer' = [c \in Client |-> "none"]
    /\ UNCHANGED <<clock, table, live, sections>>

(* Only the operator changes the hand-maintained sections, with the server *)
(* stopped.                                                                *)
Edit ==
    /\ ~running
    /\ sections' \subseteq Section
    /\ UNCHANGED <<clock, running, table, live, stage, asked, answer>>

Tick ==
    /\ clock' = clock + 1
    /\ UNCHANGED <<running, table, live, sections, stage, asked, answer>>

Ask(c) ==
    /\ running
    /\ stage[c] = "idle"
    /\ stage' = [stage EXCEPT ![c] = "asked"]
    /\ asked' = [asked EXCEPT ![c] = asked'[c]]
    /\ asked'[c].now = clock
    /\ answer' = [answer EXCEPT ![c] = "none"]
    /\ UNCHANGED <<clock, running, table, live, sections>>

(* Every pick of a save that qualifies becomes the row of its key.         *)
Merged(request) ==
    [k \in Key |->
        IF k \in Qualifying(request.picks)
          THEN [key |-> k, pick |-> request.picks[k], at |-> Stamp(request.now)]
          ELSE table[k]]

Fresh(r, request) ==
    /\ r \notin live
    /\ r.code = request.code
    /\ r.issued = Stamp(request.now)
    /\ ~r.used

(* A new code is on file afterwards; a redeemed one no longer is; pruning  *)
(* is by the caller's reading of the clock.                                *)
Apply(c) ==
    LET request == asked[c]
    IN  /\ stage[c] = "asked"
        /\ stage' = [stage EXCEPT ![c] = "applied"]
        /\ table' = Merged(request)
        /\ \/ /\ request.op = "createCode"
              /\ \E r \in live' :
                    /\ Fresh(r, request)
                    /\ live' = Cleanup(live, request.now) \cup {r}
           \/ /\ request.op = "consumeCode"
              /\ \E r \in live :
                    /\ Redeemable(r, request.code, request.now)
                    /\ live' = Cleanup(live \ {r}, request.now)
           \/ /\ request.op \in {"savePick", "saveBatch"}
              /\ live' = Cleanup(live, request.now)
        /\ UNCHANGED <<clock, running, sections, asked, answer>>

Answer(c, reply) ==
    /\ stage' = [stage EXCEPT ![c] = "idle"]
    /\ asked' = [asked EXCEPT ![c] = NoRequest]
    /\ answer' = [answer EXCEPT ![c] = reply]
    /\ UNCHANGED <<clock, running, table, live, sections>>

Confirm(c) == stage[c] = "applied" /\ Answer(c, "ok")

Fail(c) == stage[c] = "asked" /\ Answer(c, "failed")

(* A code is turned down only when no code on file matches it.             *)
Reject(c) ==
    /\ stage[c] = "asked"
    /\ asked[c].op = "consumeCode"
    /\ \A r \in live : ~Redeemable(r, asked[c].code, asked[c].now)
    /\ Answer(c, "rejected")

Next ==
    \/ Open
    \/ Kill
    \/ Edit
    \/ Tick
    \/ \E c \in Client :
          Ask(c) \/ Apply(c) \/ Confirm(c) \/ Fail(c) \/ Reject(c)

Spec == Init /\ [][Next]_vars
=============================================================================
