-------------------------------- MODULE Mailer --------------------------------
(***************************************************************************)
(* internal/mailer: the Sender main.go builds from the environment, called *)
(* by one goroutine per login code.                                        *)
(*                                                                         *)
(* MAIL_TYPE selects the transport.  With SMTP a send is one call of       *)
(* smtp.SendMail, which has no deadline.  With the Gmail API a send gets a *)
(* deadline for all of it, takes an access token from the cache, or, when  *)
(* none is cached or it is about to expire, from Google's token endpoint   *)
(* while it keeps the mutex, and posts the message.  Only an answer of 401 *)
(* makes it drop that token, if it is still the cached one, and try once   *)
(* more.  Before an error is returned its text is redacted, and for the    *)
(* last token issued the send waits for the mutex once more, whatever its  *)
(* deadline says by then.                                                  *)
(*                                                                         *)
(* Google is external: it mints tokens, may revoke one at any time, refuses*)
(* (401, nothing sent) exactly those that are revoked or past their end,   *)
(* and otherwise sends the message or not, and says so or not.  A message  *)
(* it was given may go out after the client gave up on the answer.  Texts  *)
(* and encodings are left out; a token minted for a client that gave up is *)
(* known to nobody, and left out too.                                      *)
(***************************************************************************)
EXTENDS Integers

CONSTANTS
    Send,       \* the calls of the Sender; each is made once
    NoSend,     \* nobody: the mutex is free
    Timeout,    \* gmailTimeout
    Margin,     \* gmailExpiryMargin
    Lifetimes,  \* the expires_in values Google may give
    MaxTokens,  \* bound: Google mints no more tokens than this
    MaxClock    \* bound: the clock stops, and no send begins too late to end

Token == 1..MaxTokens

(* The zero value of the cache: an empty string.                           *)
NoToken == 0

(* gmail.go: 10 s for a send, 30 s of margin; Google's tokens live for an  *)
(* hour.                                                                   *)
ASSUME MailerAssumption ==
    /\ NoSend \notin Send
    /\ Timeout \in Nat
    /\ Margin \in Nat
    /\ Margin >= 2 * Timeout
    /\ Lifetimes \subseteq Nat
    /\ \A life \in Lifetimes : life > Timeout
    /\ MaxTokens \in Nat
    /\ MaxClock \in Nat

VARIABLES
    clock,      \* time.Now, in ticks
    transport,  \* the selected transport
    ready,      \* whether its required settings are all set
    mu,         \* who holds gmailSender.mu
    token,      \* the cached access token
    expires,    \* until when it is used
    pc,         \* where each send is
    attempt,    \* which of its two posts it is at
    used,       \* the token it was given
    deadline,   \* of its context
    reply,      \* Google's answer to its open request
    mails,      \* how often its message was put into the mail
    late,       \* the sends that gave up on a message that may yet go out
    minted,     \* how many tokens Google has minted
    life,       \* the expires_in of each
    ends,       \* when Google stops accepting each
    revoked     \* the tokens it stopped accepting before that

vars == <<clock, transport, ready, mu, token, expires, pc, attempt, used,
          deadline, reply, mails, late, minted, life, ends, revoked>>
settings == <<transport, ready>>
cache == <<token, expires>>
google == <<minted, life, ends, revoked>>

Ended == {"sent", "failed"}

TypeOK ==
    /\ clock \in Nat
    /\ transport \in {"SMTP", "API"}
    /\ ready \in BOOLEAN
    /\ mu \in Send \cup {NoSend}
    /\ token \in Token \cup {NoToken}
    /\ expires \in Int
    /\ pc \in [Send -> {"new", "smtp", "token", "exchange", "post", "drop",
                      "redact"} \cup Ended]
    /\ attempt \in [Send -> 1..2]
    /\ used \in [Send -> Token \cup {NoToken}]
    /\ deadline \in [Send -> Nat]
    /\ reply \in [Send -> {"none", "ok", "error", "refused"}]
    /\ mails \in [Send -> Nat]
    /\ late \subseteq Send
    /\ minted \in 0..MaxTokens
    /\ life \in [Token -> Nat]
    /\ ends \in [Token -> Nat]
    /\ revoked \subseteq Token

Init ==
    /\ clock = 0
    /\ transport \in {"SMTP", "API"}
    /\ ready \in BOOLEAN
    /\ mu = NoSend
    /\ token = NoToken
    /\ expires = 0
    /\ pc = [s \in Send |-> "new"]
    /\ attempt = [s \in Send |-> 1]
    /\ used = [s \in Send |-> NoToken]
    /\ deadline = [s \in Send |-> 0]
    /\ reply = [s \in Send |-> "none"]
    /\ mails = [s \in Send |-> 0]
    /\ late = {}
    /\ minted = 0
    /\ life = [t \in Token |-> 0]
    /\ ends = [t \in Token |-> 0]
    /\ revoked = {}

(***************************************************************************)
(* The Sender                                                              *)
(***************************************************************************)

(* post returns to send, or send to its caller: what it knew is gone.      *)
Leave(s, label) ==
    /\ pc' = [pc EXCEPT ![s] = label]
    /\ attempt' = [attempt EXCEPT ![s] = 1]
    /\ deadline' = [deadline EXCEPT ![s] = 0]
    /\ reply' = [reply EXCEPT ![s] = "none"]

Return(s, label) ==
    /\ Leave(s, label)
    /\ used' = [used EXCEPT ![s] = NoToken]

(* A setting that is not set fails the send before anything is sent (as a  *)
(* line break in a header would, which no login code mail has).            *)
Unset(s) ==
    /\ pc[s] = "new"
    /\ ~ready
    /\ Return(s, "failed")
    /\ UNCHANGED <<clock, settings, mu, cache, mails, late, google>>

Begin(s) ==
    /\ pc[s] = "new"
    /\ ready
    /\ clock + Timeout <= MaxClock
    /\ pc' = [pc EXCEPT ![s] = IF transport = "SMTP" THEN "smtp" ELSE "token"]
    /\ deadline' = [deadline EXCEPT ![s] = clock + Timeout]
    /\ UNCHANGED <<clock, settings, mu, cache, attempt, used, reply, mails, late, google>>

Fresh == token # NoToken /\ clock < expires

(* accessToken: the mutex is taken, the cached token read, the mutex given *)
(* back.                                                                   *)
UseCached(s) ==
    /\ pc[s] = "token"
    /\ mu = NoSend
    /\ Fresh
    /\ used' = [used EXCEPT ![s] = token]
    /\ pc' = [pc EXCEPT ![s] = "post"]
    /\ UNCHANGED <<clock, settings, mu, cache, attempt, deadline, reply, mails,
                   late, google>>

(* Mutant: the mutex is not kept over the exchange.                        *)
StartExchangeUnlocked(s) ==
    /\ pc[s] = "token"
    /\ mu = NoSend
    /\ ~Fresh
    /\ pc' = [pc EXCEPT ![s] = "exchange"]
    /\ UNCHANGED <<clock, settings, mu, cache, attempt, used, deadline, reply,
                   mails, late, google>>

(* accessToken: the mutex is kept while the refresh token is exchanged.    *)
StartExchange(s) ==
    /\ pc[s] = "token"
    /\ mu = NoSend
    /\ ~Fresh
    /\ mu' = s
    /\ pc' = [pc EXCEPT ![s] = "exchange"]
    /\ UNCHANGED <<clock, settings, cache, attempt, used, deadline, reply, mails,
                   late, google>>

(* Mutant: the token is used for as long as Google says.                   *)
NoMarginExpiry(t) == clock + life[t]

(* The cached token is given up early, counted from the answer's arrival.  *)
Expiry(t) == clock + life[t] - Margin

ReceiveToken(s) ==
    /\ pc[s] = "exchange"
    /\ reply[s] = "ok"
    /\ clock <= deadline[s]
    /\ token' = used[s]
    /\ expires' = Expiry(used[s])
    /\ mu' = NoSend
    /\ reply' = [reply EXCEPT ![s] = "none"]
    /\ pc' = [pc EXCEPT ![s] = "post"]
    /\ UNCHANGED <<clock, settings, attempt, used, deadline, mails, late, google>>

(* Mutant: any failed answer is tried again.                               *)
RefusedOrFailed(s) == reply[s] # "ok"

(* Only a 401 leads to a second try; a 5xx or 429 may have sent the        *)
(* message.                                                                *)
Refused(s) == reply[s] = "refused"

(* post reads the answer to its request.                                   *)
ReceiveStatus(s) ==
    /\ pc[s] = "post"
    /\ reply[s] # "none"
    /\ clock <= deadline[s]
    /\ IF Refused(s)
         THEN /\ pc' = [pc EXCEPT ![s] = "drop"]
              /\ reply' = [reply EXCEPT ![s] = "none"]
              /\ UNCHANGED <<attempt, used, deadline>>
         ELSE Return(s, IF reply[s] = "ok" THEN "sent" ELSE "redact")
    /\ UNCHANGED <<clock, settings, mu, cache, mails, late, google>>

(* Mutant: whatever token is cached is forgotten.                          *)
WithoutAny(t) == NoToken

(* dropToken forgets the cached token only if it is the refused one.       *)
Without(t) == IF token = t THEN NoToken ELSE token

(* Then post tries a second time, or fails with the second 401.            *)
DropToken(s) ==
    /\ pc[s] = "drop"
    /\ mu = NoSend
    /\ token' = Without(used[s])
    /\ IF attempt[s] = 1
         THEN /\ pc' = [pc EXCEPT ![s] = "token"]
              /\ attempt' = [attempt EXCEPT ![s] = 2]
              /\ used' = [used EXCEPT ![s] = NoToken]
              /\ UNCHANGED <<deadline, reply>>
         ELSE Return(s, "redact")
    /\ UNCHANGED <<clock, settings, mu, expires, mails, late, google>>

(* Mutant: the error of an exchange is redacted while the mutex is held,   *)
(* which its own goroutine then waits for.                                 *)
RedactUnderLock(s) ==
    /\ Leave(s, "redact")
    /\ IF pc[s] = "post" /\ reply[s] = "none"
         THEN late' = late \cup {s} /\ used' = used
         ELSE late' = late /\ used' = [used EXCEPT ![s] = NoToken]
    /\ UNCHANGED <<clock, settings, mu, cache, mails, google>>

(* A request ends in an error: so does its post, and the mutex is free.    *)
(* A message posted but not answered for may yet go out.                   *)
Fail(s) ==
    /\ Leave(s, "redact")
    /\ IF pc[s] = "post" /\ reply[s] = "none"
         THEN late' = late \cup {s} /\ used' = used
         ELSE late' = late /\ used' = [used EXCEPT ![s] = NoToken]
    /\ mu' = IF mu = s THEN NoSend ELSE mu
    /\ UNCHANGED <<clock, settings, cache, mails, google>>

(* redact reads the last token issued under the mutex; send then returns   *)
(* the error.                                                              *)
Redact(s) ==
    /\ pc[s] = "redact"
    /\ mu = NoSend
    /\ pc' = [pc EXCEPT ![s] = "failed"]
    /\ UNCHANGED <<clock, settings, mu, cache, attempt, used, deadline, reply, mails,
                   late, google>>

(* The connection fails, at any moment, or the token endpoint answers with *)
(* an error or with something that is no token.                            *)
RequestFails(s) ==
    /\ pc[s] \in {"exchange", "post"}
    /\ Fail(s)

(* The context of the send runs out; a request made after it fails at once.*)
TimeOut(s) ==
    /\ pc[s] \in {"exchange", "post"}
    /\ clock >= deadline[s]
    /\ Fail(s)

(* smtp.SendMail returns: nil when the server took the message.  With an   *)
(* error the server may have it, or get it yet.                            *)
SmtpReturns(s) ==
    /\ pc[s] = "smtp"
    /\ \/ mails[s] = 1 /\ Return(s, "sent") /\ late' = late
       \/ /\ Return(s, "failed")
          /\ late' = IF mails[s] = 0 THEN late \cup {s} ELSE late
    /\ UNCHANGED <<clock, settings, mu, cache, mails, google>>

(***************************************************************************)
(* The mail server, Google, and time                                       *)
(***************************************************************************)
SmtpDelivers(s) ==
    /\ pc[s] = "smtp"
    /\ mails[s] = 0
    /\ mails' = [mails EXCEPT ![s] = 1]
    /\ UNCHANGED <<clock, settings, mu, cache, pc, attempt, used, deadline, reply,
                   late, google>>

(* The token endpoint mints a token and answers with it.                   *)
Mint(s) ==
    /\ pc[s] = "exchange"
    /\ reply[s] = "none"
    /\ clock <= deadline[s]
    /\ minted < MaxTokens
    /\ minted' = minted + 1
    /\ \E l \in Lifetimes :
        /\ life' = [life EXCEPT ![minted + 1] = l]
        /\ ends' = [ends EXCEPT ![minted + 1] = clock + l]
    /\ used' = [used EXCEPT ![s] = minted + 1]
    /\ reply' = [reply EXCEPT ![s] = "ok"]
    /\ UNCHANGED <<clock, settings, mu, cache, pc, attempt, deadline, mails, late,
                   revoked>>

Accepts(t) == t \notin revoked /\ clock < ends[t]

(* A post in Google's hands.                                               *)
Pending(s) == pc[s] = "post" /\ reply[s] = "none"

(* The message goes out; the answer may say otherwise.                     *)
Deliver(s) ==
    /\ Pending(s)
    /\ Accepts(used[s])
    /\ mails' = [mails EXCEPT ![s] = @ + 1]
    /\ \E r \in {"ok", "error"} : reply' = [reply EXCEPT ![s] = r]
    /\ UNCHANGED <<clock, settings, mu, cache, pc, attempt, used, deadline, late,
                   google>>

(* It goes out although the send has given up on it.                       *)
DeliverLate(s) ==
    /\ s \in late
    /\ transport = "API" => Accepts(used[s])
    /\ mails' = [mails EXCEPT ![s] = @ + 1]
    /\ late' = late \ {s}
    /\ UNCHANGED <<clock, settings, mu, cache, pc, attempt, used, deadline, reply,
                   google>>

(* The message does not go out: 401 for a token that is not accepted, some *)
(* other status otherwise.                                                 *)
TurnDown(s) ==
    /\ Pending(s)
    /\ reply' = [reply EXCEPT ![s] = IF Accepts(used[s]) THEN "error" ELSE "refused"]
    /\ UNCHANGED <<clock, settings, mu, cache, pc, attempt, used, deadline, mails,
                   late, google>>

Revoke ==
    /\ \E t \in 1..minted : t \notin revoked /\ revoked' = revoked \cup {t}
    /\ UNCHANGED <<clock, settings, mu, cache, pc, attempt, used, deadline, reply,
                   mails, late, minted, life, ends>>

Tick ==
    /\ clock < MaxClock
    /\ clock' = clock + 1
    /\ UNCHANGED <<settings, mu, cache, pc, attempt, used, deadline, reply, mails,
                   late, google>>

Sender(s) ==
    \/ Unset(s) \/ Begin(s)
    \/ UseCached(s) \/ StartExchange(s)
    \/ ReceiveToken(s) \/ ReceiveStatus(s)
    \/ DropToken(s) \/ RequestFails(s) \/ TimeOut(s)
    \/ Redact(s) \/ SmtpReturns(s)

MailServer(s) ==
    \/ SmtpDelivers(s) \/ Mint(s)
    \/ Deliver(s) \/ DeliverLate(s) \/ TurnDown(s)

Next ==
    \/ \E s \in Send : Sender(s) \/ MailServer(s)
    \/ Revoke
    \/ Tick

Spec == Init /\ [][Next]_vars

(* Time passes, a context that has run out ends its request, and the       *)
(* runtime lets a goroutine that can go on go on.  Nothing obliges Google  *)
(* or the mail server to answer.                                           *)
Fairness ==
    /\ WF_vars(Tick)
    /\ \A s \in Send :
        /\ WF_vars(TimeOut(s))
        /\ WF_vars(UseCached(s) \/ StartExchange(s))
        /\ WF_vars(DropToken(s)) /\ WF_vars(Redact(s))
        /\ WF_vars(ReceiveToken(s) \/ ReceiveStatus(s))

FairSpec == Spec /\ Fairness

(***************************************************************************)
(* Properties                                                              *)
(***************************************************************************)

(* "so it cannot expire between the cache check and Google handling the    *)
(* send" (gmail.go, gmailExpiryMargin): the token a send presents, whether *)
(* cached by another send long ago or just fetched, is accepted until the  *)
(* send's own deadline unless Google revokes it, however long the exchange *)
(* that fetched it took to answer.                                         *)
TokenOutlivesSend ==
    \A s \in Send : pc[s] = "post" => deadline[s] < ends[used[s]]

(* "so a send that fails late cannot discard a newer token another send    *)
(* cached" (gmail.go, dropToken), and no send fetches a token while one    *)
(* that still serves is cached: a cached token goes only when Google       *)
(* revoked it or its time is up, and only a newer one takes its place.     *)
TokensReplacedForCause ==
    [][token # NoToken /\ token' # token =>
         /\ token \in revoked \/ clock >= expires
         /\ token' = NoToken \/ token' > token]_vars

(* A Sender keeps its promise to its caller with either transport, and     *)
(* whenever a message it gave up on goes out.                              *)
Promise == INSTANCE MailPromise WITH
    outcome <- [s \in Send |-> IF pc[s] \in Ended THEN pc[s] ELSE "open"]

ImplementsMailPromise == Promise!Spec

(* "stops a hung connection from holding a login request open" (gmail.go,  *)
(* gmailTimeout): a send by the Gmail API that has begun ends, although    *)
(* Google may never answer, other sends hold the mutex over their own      *)
(* exchanges, and a send that fails, even one out of time, waits for that  *)
(* mutex again.  With SMTP it would not: smtp.SendMail has no deadline.    *)
EverySendEnds == \A s \in Send : pc[s] = "token" ~> pc[s] \in Ended

(***************************************************************************)
(* The inductive invariant behind TokenOutlivesSend and the promise        *)
(***************************************************************************)

(* The mutex is held by exactly the send whose exchange is open.           *)
MutexHeld == \A s \in Send : pc[s] = "exchange" <=> mu = s

(* No send has more than the timeout left.                                 *)
DeadlineNear ==
    \A s \in Send :
        pc[s] \in {"token", "exchange", "post", "drop"} => deadline[s] <= clock + Timeout

(* A cached token is given up at least the margin, less one exchange,      *)
(* before its end.                                                         *)
CachedEarly ==
    token # NoToken => /\ token <= minted
                       /\ expires + Margin <= ends[token] + Timeout

(* A token on its way here was minted after the send that asked for it     *)
(* began.                                                                  *)
AnswerRecent ==
    \A s \in Send : pc[s] = "exchange" /\ reply[s] = "ok" =>
        /\ used[s] \in Token
        /\ used[s] <= minted
        /\ life[used[s]] > Timeout
        /\ deadline[s] + life[used[s]] <= ends[used[s]] + Timeout

PresentedMinted ==
    \A s \in Send : pc[s] = "post" => used[s] \in Token /\ used[s] <= minted

(* A token is only asked for when none that serves is cached, and the one  *)
(* that comes is newer than the cached one.                                *)
ExchangeNeeded ==
    \A s \in Send : pc[s] = "exchange" =>
        /\ ~Fresh
        /\ reply[s] = "ok" => used[s] > token

(* Within its deadline a token is only refused because it was revoked.     *)
RefusedRevoked ==
    \A s \in Send :
        /\ pc[s] = "drop" => used[s] \in revoked
        /\ pc[s] = "post" /\ reply[s] = "refused" =>
              used[s] \in revoked \/ clock > deadline[s]

(* What Google has answered tells whether the message is out.              *)
MailsCounted ==
    \A s \in Send :
        /\ mails[s] <= 1
        /\ pc[s] \in {"new", "token", "exchange", "drop"} => mails[s] = 0
        /\ pc[s] = "post" /\ reply[s] \in {"none", "refused"} => mails[s] = 0
        /\ pc[s] = "post" /\ reply[s] = "ok" => mails[s] = 1
        /\ pc[s] \in {"new", "token", "drop"} => reply[s] = "none"
        /\ s \in late => pc[s] \in {"redact", "failed"} /\ mails[s] = 0

IInv ==
    /\ TypeOK
    /\ MutexHeld
    /\ DeadlineNear
    /\ CachedEarly
    /\ AnswerRecent
    /\ PresentedMinted
    /\ ExchangeNeeded
    /\ RefusedRevoked
    /\ MailsCounted
    /\ TokenOutlivesSend
=============================================================================
