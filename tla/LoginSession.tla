----------------------------- MODULE LoginSession -----------------------------
(***************************************************************************)
(* internal/auth and the login and session handlers of internal/web: a     *)
(* player asks for a login code, gets it by mail from a goroutine nobody   *)
(* waits for, types it in and from then on carries a signed session cookie *)
(* that every authenticated response replaces by a fresh one.  The server  *)
(* keeps no sessions: a browser's cookie is whatever the last response to  *)
(* arrive made of it, and the requests of one browser overlap.             *)
(*                                                                         *)
(* A handler reads the clock before it waits for the store's lock; the     *)
(* store call itself, studied in module Store, is one step here.           *)
(* A cookie carries a signature nobody but the server makes, so a cookie is*)
(* its payload; minted, the exact instant of its issue, is a history field.*)
(***************************************************************************)
EXTENDS Integers, Sequences

CONSTANTS
    Browser,        \* each with a cookie jar of its own
    Tab,            \* the concurrent requests of one browser
    Player,
    NoCookie,       \* no session cookie
    Keep,           \* of a response: the cookie is left as it is
    TicksPerSecond, \* resolution of the clock
    IdleTimeout,    \* SessionIdleTimeout, in ticks
    Validity,       \* loginCodeValidity, in ticks
    MaxClock,       \* bound: the clock stops here
    MaxCodes,       \* bound: login codes ever issued
    MaxStops        \* bound: times the server is stopped

Cookie == [player : Player, issued : Nat, minted : Nat]

ASSUME LoginAssumption ==
    /\ TicksPerSecond \in Nat \ {0}
    /\ {IdleTimeout, Validity, MaxClock, MaxCodes, MaxStops} \subseteq Nat
    /\ IdleTimeout % TicksPerSecond = 0
    /\ {NoCookie, Keep} \cap Cookie = {}
    /\ NoCookie # Keep

CodeRow == [id : Nat, player : Player, issued : Nat]

(* A request slot: a browser and one of its tabs.                          *)
Slot == Browser \X Tab
BrowserOf(t) == t[1]

Kinds == {"page", "logout", "request", "code"}

VARIABLES
    clock,      \* clock.NowTime, in ticks
    up,         \* the server is running
    stops,      \* how often it was stopped
    rows,       \* the login codes on file
    issued,     \* history: whom and when each login code was issued to
    sending,    \* the codes whose send goroutine is running
    mailed,     \* the codes that reached their player
    failed,     \* the codes whose send failed and was logged
    cookie,     \* the session cookie in each browser
    pc,         \* where each request is
    ask,        \* what it asks, with the cookie it carries
    effect,     \* what its response does to the cookie
    logins,     \* history: the codes that started a session, in order
    loggedOut   \* history: browsers whose last session event was a logout

vars == <<clock, up, stops, rows, issued, sending, mailed, failed, cookie, pc,
          ask, effect, logins, loggedOut>>
server == <<up, stops>>
mail == <<sending, mailed, failed>>
history == <<logins, loggedOut>>

NoAsk == [kind |-> "page", carried |-> NoCookie, code |-> 0, now |-> 0]

Ask == [kind : Kinds, carried : Cookie \cup {NoCookie}, code : Nat, now : Nat]

(* "waiting": inside the server, before the store's lock.                  *)
Labels == {"idle", "sent", "waiting", "answered"}

TypeOK ==
    /\ {clock, stops} \subseteq Nat
    /\ up \in BOOLEAN
    /\ rows \subseteq CodeRow
    /\ issued \in Seq([player : Player, at : Nat])
    /\ {sending, mailed, failed} \subseteq SUBSET Nat
    /\ cookie \in [Browser -> Cookie \cup {NoCookie}]
    /\ pc \in [Slot -> Labels]
    /\ ask \in [Slot -> Ask]
    /\ effect \in [Slot -> Cookie \cup {NoCookie, Keep}]
    /\ logins \in Seq(Nat)
    /\ loggedOut \subseteq Browser

Init ==
    /\ clock = 0
    /\ up = TRUE
    /\ stops = 0
    /\ rows = {}
    /\ issued = <<>>
    /\ sending = {} /\ mailed = {} /\ failed = {}
    /\ cookie = [b \in Browser |-> NoCookie]
    /\ pc = [t \in Slot |-> "idle"]
    /\ ask = [t \in Slot |-> NoAsk]
    /\ effect = [t \in Slot |-> Keep]
    /\ logins = <<>>
    /\ loggedOut = {}

(***************************************************************************)
(* Cookies                                                                 *)
(***************************************************************************)

(* RFC3339 formatting loses the fraction of the second.                    *)
Stamp(t) == t - (t % TicksPerSecond)

(* Mutants: the age is not checked; a session ends at the timeout itself.  *)
SignedOnly(ck, t) == ck # NoCookie

ValidBelow(ck, t) ==
    /\ ck # NoCookie
    /\ t - ck.issued >= 0
    /\ t - ck.issued < IdleTimeout

(* ValidateSession, for a cookie this server signed.                       *)
ValidSession(ck, t) ==
    /\ ck # NoCookie
    /\ t - ck.issued >= 0
    /\ t - ck.issued <= IdleTimeout

(* Mutant: a second too old from the start.                                *)
FreshEarly(p) ==
    [player |-> p, issued |-> Stamp(clock) - TicksPerSecond, minted |-> clock]

(* IssueSessionCookie                                                      *)
Fresh(p) == [player |-> p, issued |-> Stamp(clock), minted |-> clock]

(***************************************************************************)
(* The browser                                                             *)
(***************************************************************************)

(* A request leaves with the cookie the browser has.  A code is typed in   *)
(* when its mail has come, or is a wrong one (0).                          *)
Send(t) ==
    /\ pc[t] = "idle"
    /\ \E kind \in Kinds, code \in mailed \cup {0} :
        /\ kind # "code" => code = 0
        /\ ask' = [ask EXCEPT ![t] = [kind |-> kind, code |-> code, now |-> 0,
                                      carried |-> cookie[BrowserOf(t)]]]
    /\ pc' = [pc EXCEPT ![t] = "sent"]
    /\ UNCHANGED <<clock, server, rows, issued, mail, cookie, effect, history>>

Reset(t) ==
    /\ pc' = [pc EXCEPT ![t] = "idle"]
    /\ ask' = [ask EXCEPT ![t] = NoAsk]
    /\ effect' = [effect EXCEPT ![t] = Keep]

(* A response arrives, in any order: the cookie becomes what it says.      *)
Receive(t) ==
    /\ pc[t] = "answered"
    /\ cookie' = [cookie EXCEPT ![BrowserOf(t)] =
         IF effect[t] = Keep THEN @ ELSE effect[t]]
    /\ loggedOut' =
         IF effect[t] = NoCookie THEN loggedOut \cup {BrowserOf(t)}
         ELSE IF ask[t].kind = "code" /\ effect[t] # Keep
           THEN loggedOut \ {BrowserOf(t)}
         ELSE loggedOut
    /\ Reset(t)
    /\ UNCHANGED <<clock, server, rows, issued, mail, logins>>

(* A request or its response gets lost.                                    *)
Lose(t) ==
    /\ pc[t] \in {"sent", "answered"}
    /\ Reset(t)
    /\ UNCHANGED <<clock, server, rows, issued, mail, cookie, history>>

(***************************************************************************)
(* The handlers                                                            *)
(***************************************************************************)
Handle(t, kind) ==
    /\ up
    /\ pc[t] = "sent"
    /\ ask[t].kind = kind

Answer(t, change) ==
    /\ pc' = [pc EXCEPT ![t] = "answered"]
    /\ effect' = [effect EXCEPT ![t] = change]

(* requireSession: a valid session slides forward and the page is served.  *)
ServePage(t) ==
    /\ Handle(t, "page")
    /\ ValidSession(ask[t].carried, clock)
    /\ Answer(t, Fresh(ask[t].carried.player))
    /\ UNCHANGED <<clock, server, rows, issued, mail, cookie, ask, history>>

(* requireSession: anything else is sent to /login, its cookie left alone. *)
TurnAway(t) ==
    /\ Handle(t, "page")
    /\ ~ValidSession(ask[t].carried, clock)
    /\ Answer(t, Keep)
    /\ UNCHANGED <<clock, server, rows, issued, mail, cookie, ask, history>>

(* handleLogout clears the cookie whatever it is.                          *)
Logout(t) ==
    /\ Handle(t, "logout")
    /\ Answer(t, NoCookie)
    /\ UNCHANGED <<clock, server, rows, issued, mail, cookie, ask, history>>

(* The handler reads the clock and waits for the store's lock.             *)
CallStore(t) ==
    /\ Handle(t, "request") \/ Handle(t, "code")
    /\ pc' = [pc EXCEPT ![t] = "waiting"]
    /\ ask' = [ask EXCEPT ![t].now = clock]
    /\ UNCHANGED <<clock, server, rows, issued, mail, cookie, effect, history>>

(* The lock is its own.                                                    *)
Enter(t, kind) ==
    /\ up
    /\ pc[t] = "waiting"
    /\ ask[t].kind = kind

(* The age a row may have, by the clock reading of the call.               *)
Live(r, now) == r.issued <= now /\ now - r.issued <= Validity

(* The rows a write keeps.                                                 *)
Unexpired(now) == {r \in rows : Live(r, now)}

(* RequestLoginCode for an address that is a player's: the row is saved    *)
(* first, the mail goes out on a goroutine of its own.                     *)
RequestCode(t) ==
    /\ Enter(t, "request")
    /\ Len(issued) < MaxCodes
    /\ \E p \in Player :
        /\ issued' = Append(issued, [player |-> p, at |-> ask[t].now])
        /\ rows' = Unexpired(ask[t].now) \cup
                     {[id |-> Len(issued'), player |-> p, issued |-> Stamp(ask[t].now)]}
    /\ sending' = sending \cup {Len(issued')}
    /\ Answer(t, Keep)
    /\ UNCHANGED <<clock, server, mailed, failed, cookie, ask, history>>

(* An unknown address, or a write that fails: no code, no mail.            *)
RequestNoCode(t) ==
    /\ Handle(t, "request") \/ Enter(t, "request")
    /\ Answer(t, Keep)
    /\ UNCHANGED <<clock, server, rows, issued, mail, cookie, ask, history>>

(* Mutant: the age of the row is not checked.                              *)
MatchingAnyAge(code, now) == {r \in rows : r.id = code}

(* The rows ConsumeLoginCode would accept for this code.                   *)
Matching(code, now) == {r \in rows : r.id = code /\ Live(r, now)}

(* Mutant: the redeemed row stays on file.                                 *)
KeptRedeemed(r, now) == Unexpired(now)

(* The redeemed row leaves the file with the write that marks it.          *)
WithoutRedeemed(r, now) == Unexpired(now) \ {r}

(* handleLoginCodeSubmit: the code is redeemed, then the cookie set.       *)
Login(t) ==
    /\ Enter(t, "code")
    /\ \E r \in Matching(ask[t].code, ask[t].now) :
        /\ rows' = WithoutRedeemed(r, ask[t].now)
        /\ logins' = Append(logins, r.id)
        /\ Answer(t, Fresh(r.player))
    /\ UNCHANGED <<clock, server, issued, mail, cookie, ask, loggedOut>>

(* Mutant: the cookie is set although the redeemed code was not persisted. *)
LoginUnpersisted(t) ==
    /\ Enter(t, "code")
    /\ IF ask[t].code = 0 THEN Answer(t, Keep)
       ELSE Answer(t, Fresh(issued[ask[t].code].player))
    /\ UNCHANGED <<clock, server, rows, issued, mail, cookie, ask, history>>

(* A malformed form, a wrong, expired or used code, or a write that fails. *)
LoginFails(t) ==
    /\ Handle(t, "code") \/ Enter(t, "code")
    /\ Answer(t, Keep)
    /\ UNCHANGED <<clock, server, rows, issued, mail, cookie, ask, history>>

(***************************************************************************)
(* The mail goroutines, the process and the clock                          *)
(***************************************************************************)
MailArrives(id) ==
    /\ id \in sending
    /\ sending' = sending \ {id}
    /\ mailed' = mailed \cup {id}
    /\ UNCHANGED <<clock, server, rows, issued, failed, cookie, pc, ask, effect,
                   history>>

MailFails(id) ==
    /\ id \in sending
    /\ sending' = sending \ {id}
    /\ failed' = failed \cup {id}
    /\ UNCHANGED <<clock, server, rows, issued, mailed, cookie, pc, ask, effect,
                   history>>

(* Run returns once the requests in flight are answered or given up on;    *)
(* main returns and the goroutines still sending end with it, and so does  *)
(* a handler that still waits for the store.                               *)
Stop ==
    /\ up
    /\ stops < MaxStops
    /\ up' = FALSE
    /\ stops' = stops + 1
    /\ sending' = {}
    /\ pc' = [t \in Slot |-> IF pc[t] = "waiting" THEN "idle" ELSE pc[t]]
    /\ ask' = [t \in Slot |-> IF pc[t] = "waiting" THEN NoAsk ELSE ask[t]]
    /\ UNCHANGED <<clock, rows, issued, mailed, failed, cookie, effect, history>>

Start ==
    /\ ~up
    /\ up' = TRUE
    /\ UNCHANGED <<clock, stops, rows, issued, mail, cookie, pc, ask, effect,
                   history>>

Tick ==
    /\ clock < MaxClock
    /\ clock' = clock + 1
    /\ UNCHANGED <<server, rows, issued, mail, cookie, pc, ask, effect, history>>

Respond(t) ==
    \/ ServePage(t)
    \/ TurnAway(t)
    \/ Logout(t)
    \/ CallStore(t)
    \/ RequestCode(t)
    \/ RequestNoCode(t)
    \/ Login(t)
    \/ LoginFails(t)

Mail == \E id \in sending : MailArrives(id) \/ MailFails(id)

Next ==
    \/ Tick
    \/ Stop
    \/ Start
    \/ Mail
    \/ \E t \in Slot : Send(t) \/ Respond(t) \/ Receive(t) \/ Lose(t)

Spec == Init /\ [][Next]_vars

(* A goroutine that runs gets its turn and a send ends: the Gmail transport*)
(* gives up after gmailTimeout.  smtp.SendMail has no deadline of its own; *)
(* of SMTP this assumes a server that answers or hangs up.                 *)
FairSpec == Spec /\ WF_vars(Mail)

(***************************************************************************)
(* Properties                                                              *)
(***************************************************************************)

(* A code starts one session, however many requests carry it at once.      *)
OneLoginPerCode == \A i, j \in DOMAIN logins : logins[i] = logins[j] => i = j

(* A code starts a session only when it was typed in within its validity,  *)
(* however long the store's lock was waited for after that, never by a     *)
(* clock reading from before its issue, and a session of the player it was *)
(* issued to.                                                              *)
LoginsInTime ==
    [][logins' # logins =>
         \E t \in Slot :
            LET id == ask[t].code
            IN  /\ logins' = Append(logins, id)
                /\ issued[id].at <= ask[t].now
                /\ ask[t].now - issued[id].at <= Validity
                /\ effect'[t] # effect[t]
                /\ effect'[t].player = issued[id].player]_vars

Served(t) == ask[t].kind = "page" /\ pc[t] = "sent" /\ pc'[t] = "answered"

(* "expires after 30 minutes of inactivity" (README.md): no page is served *)
(* on a cookie that was issued longer ago than that, to the instant.       *)
IdleSessionsEnd ==
    [][\A t \in Slot : Served(t) /\ effect'[t] # Keep =>
         clock - ask[t].carried.minted <= IdleTimeout]_vars

(* "stays active while in use": a session used within the timeout, less    *)
(* the fraction of a second that formatting cuts off, is not turned away.  *)
ActiveSessionsKept ==
    [][\A t \in Slot : Served(t) /\ effect'[t] = Keep /\ ask[t].carried # NoCookie =>
         clock - ask[t].carried.minted > IdleTimeout - (TicksPerSecond - 1)]_vars

(* A browser without a session gets one only by redeeming a code, or else  *)
(* from a page it had asked for while it still had one.                    *)
SessionsComeFromLogins ==
    [][\A b \in Browser : cookie[b] = NoCookie /\ cookie'[b] # NoCookie =>
         \E t \in Slot : /\ BrowserOf(t) = b
                         /\ pc[t] = "answered" /\ pc'[t] = "idle"
                         /\ \/ \E i \in DOMAIN logins : logins[i] = ask[t].code
                            \/ ask[t].carried # NoCookie]_vars

(* "ends their session immediately on that device" (README.md): after a    *)
(* logout the browser has no session until somebody logs in on it.         *)
LogoutEndsSession == \A b \in loggedOut : cookie[b] = NoCookie

(* "and a send was attempted" (operator-guide.md): the mail of every code  *)
(* that was issued goes out, or its failure is logged.                     *)
EveryCodeSent ==
    \A id \in 1..MaxCodes : Len(issued) >= id ~> id \in mailed \cup failed

(***************************************************************************)
(* The inductive invariant behind these properties                         *)
(***************************************************************************)

(* The code rows on file are what was issued, and when.                    *)
CodesAsIssued ==
    /\ \A i \in DOMAIN issued : issued[i].at <= clock
    /\ \A r \in rows : /\ r.id \in DOMAIN issued
                       /\ r.player = issued[r.id].player
                       /\ r.issued = Stamp(issued[r.id].at)

(* A code is mailed and typed in after its issue, and the clock read for   *)
(* it later still.                                                         *)
CodesKnown ==
    /\ sending \cup mailed \subseteq DOMAIN issued
    /\ \A t \in Slot :
          /\ ask[t].now <= clock
          /\ ask[t].code # 0 => ask[t].code \in DOMAIN issued
          /\ ask[t].code # 0 /\ pc[t] = "waiting" =>
                issued[ask[t].code].at <= ask[t].now

(* A code that started a session was issued and is no longer on file.      *)
RedeemedGone ==
    \A i \in DOMAIN logins :
        logins[i] \in DOMAIN issued /\ \A r \in rows : r.id # logins[i]

Minted(ck) == ck \in Cookie => ck.issued = Stamp(ck.minted) /\ ck.minted <= clock

(* Every cookie, wherever it is, was minted by the clock of this server.   *)
CookiesAsMinted ==
    /\ \A b \in Browser : Minted(cookie[b])
    /\ \A t \in Slot : Minted(ask[t].carried) /\ Minted(effect[t])

(* A response sets a cookie only for a page that was asked for with one or *)
(* for a code that was redeemed.                                           *)
CookieEarned(t) ==
    effect[t] # Keep =>
        /\ pc[t] = "answered"
        /\ effect[t] # NoCookie =>
              \/ ask[t].carried # NoCookie
              \/ \E i \in DOMAIN logins : logins[i] = ask[t].code

IInv ==
    /\ TypeOK
    /\ CodesAsIssued
    /\ CodesKnown
    /\ RedeemedGone
    /\ OneLoginPerCode
    /\ CookiesAsMinted
    /\ \A t \in Slot : CookieEarned(t)
=============================================================================
