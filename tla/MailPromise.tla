------------------------------ MODULE MailPromise ------------------------------
(***************************************************************************)
(* What a mailer.Sender promises its caller, auth.RequestLoginCode, that   *)
(* sends a login code once and only logs an error: however a send goes, it *)
(* puts the message into the mail at most once; it returns nil only after  *)
(* it did.  An error says nothing: the message may have gone out, or go    *)
(* out yet.                                                                *)
(***************************************************************************)
EXTENDS Naturals

CONSTANT Send   \* the calls of the Sender

VARIABLES
    outcome,    \* what each call has returned: nothing yet, nil or an error
    mails       \* how often its message was put into the mail

vars == <<outcome, mails>>

Init ==
    /\ outcome = [s \in Send |-> "open"]
    /\ mails = [s \in Send |-> 0]

Deliver(s) ==
    /\ outcome[s] # "sent"
    /\ mails[s] = 0
    /\ mails' = [mails EXCEPT ![s] = 1]
    /\ UNCHANGED outcome

ReturnNil(s) ==
    /\ outcome[s] = "open"
    /\ mails[s] = 1
    /\ outcome' = [outcome EXCEPT ![s] = "sent"]
    /\ UNCHANGED mails

ReturnError(s) ==
    /\ outcome[s] = "open"
    /\ outcome' = [outcome EXCEPT ![s] = "failed"]
    /\ UNCHANGED mails

Next == \E s \in Send : Deliver(s) \/ ReturnNil(s) \/ ReturnError(s)

Spec == Init /\ [][Next]_vars
=============================================================================
