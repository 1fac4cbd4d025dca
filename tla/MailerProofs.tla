----------------------------- MODULE MailerProofs -----------------------------
(***************************************************************************)
(* Theorems about Mailer, for any number of sends and tokens, any timeout, *)
(* margin and lifetimes with MailerAssumption.                             *)
(***************************************************************************)
EXTENDS Mailer, TLAPS

(* The parts of the invariant that speak of one send only.                 *)
SendFacts(s) ==
    /\ pc[s] = "exchange" <=> mu = s
    /\ pc[s] \in {"token", "exchange", "post", "drop"} => deadline[s] <= clock + Timeout
    /\ pc[s] = "exchange" /\ reply[s] = "ok" =>
        /\ used[s] \in Token
        /\ used[s] <= minted
        /\ life[used[s]] > Timeout
        /\ deadline[s] + life[used[s]] <= ends[used[s]] + Timeout
    /\ pc[s] = "post" =>
        /\ used[s] \in Token
        /\ used[s] <= minted
        /\ deadline[s] < ends[used[s]]
    /\ pc[s] = "exchange" => /\ ~Fresh
                             /\ reply[s] = "ok" => used[s] > token
    /\ pc[s] = "drop" => used[s] \in revoked
    /\ pc[s] = "post" /\ reply[s] = "refused" =>
          used[s] \in revoked \/ clock > deadline[s]
    /\ mails[s] <= 1
    /\ pc[s] \in {"new", "token", "exchange", "drop"} => mails[s] = 0
    /\ pc[s] = "post" /\ reply[s] \in {"none", "refused"} => mails[s] = 0
    /\ pc[s] = "post" /\ reply[s] = "ok" => mails[s] = 1
    /\ pc[s] \in {"new", "token", "drop"} => reply[s] = "none"
    /\ s \in late => pc[s] \in {"redact", "failed"} /\ mails[s] = 0

LEMMA InvariantBySend ==
    IInv <=> TypeOK /\ CachedEarly /\ \A s \in Send : SendFacts(s)
BY DEF IInv, SendFacts, MutexHeld, DeadlineNear, AnswerRecent, PresentedMinted,
    MailsCounted, ExchangeNeeded, RefusedRevoked,
    TokenOutlivesSend

LEMMA InvariantBySendNext ==
    IInv' <=> TypeOK' /\ CachedEarly' /\ \A s \in Send : SendFacts(s)'
BY DEF IInv, SendFacts, MutexHeld, DeadlineNear, AnswerRecent, PresentedMinted,
    MailsCounted, ExchangeNeeded, RefusedRevoked,
    TokenOutlivesSend

LEMMA InitInvariant == Init => IInv
<1> SUFFICES ASSUME Init PROVE IInv
  OBVIOUS
<1>1. NoSend \notin Send /\ Timeout \in Nat /\ Margin \in Nat /\ MaxTokens \in Nat
  BY MailerAssumption
<1>2. TypeOK /\ CachedEarly
  BY <1>1 DEF Init, TypeOK, CachedEarly, Token, NoToken, Ended
<1>3. ASSUME NEW s \in Send PROVE SendFacts(s)
  BY <1>1, <1>3 DEF Init, SendFacts
<1> QED
  BY <1>2, <1>3, InvariantBySend

(* A step of one send leaves what is known of the others as it is: only    *)
(* the holder of the mutex, or a send while nobody has it, changes the     *)
(* cache.                                                                  *)
LEMMA OthersKeep ==
    ASSUME IInv, NEW s \in Send, NEW o \in Send, o # s,
           pc'[o] = pc[o], attempt'[o] = attempt[o], used'[o] = used[o],
           deadline'[o] = deadline[o], reply'[o] = reply[o], mails'[o] = mails[o],
           mu' = o <=> mu = o, mu = o => UNCHANGED cache,
           o \in late' <=> o \in late, clock' = clock, UNCHANGED google
    PROVE  SendFacts(o)'
<1>1. SendFacts(o)
  BY InvariantBySend
<1>2. mu = o => (Fresh' <=> Fresh) /\ token' = token
  BY DEF Fresh, cache
<1> QED
  BY <1>1, <1>2 DEF SendFacts, google

(* What a send leaves behind when it returns has its type.                 *)
LEMMA ReturnType ==
    ASSUME TypeOK, NEW s \in Send, NEW o \in {"redact"} \cup Ended, Leave(s, o)
    PROVE  /\ pc' \in [Send -> {"new", "smtp", "token", "exchange", "post", "drop",
                               "redact"} \cup Ended]
           /\ attempt' \in [Send -> 1..2]
           /\ deadline' \in [Send -> Nat]
           /\ reply' \in [Send -> {"none", "ok", "error", "refused"}]
           /\ Return(s, o) => used' \in [Send -> Token \cup {NoToken}]
BY DEF TypeOK, Return, Leave, Ended

(* A send that fails for want of a setting.                                *)
LEMMA UnsetKeeps == ASSUME IInv, NEW s \in Send, Unset(s) PROVE IInv'
<1>0. TypeOK /\ CachedEarly /\ \A o \in Send : SendFacts(o)
  BY InvariantBySend
<1>1. TypeOK'
  <2>1. Return(s, "failed") /\ Leave(s, "failed") /\ "failed" \in Ended
    BY DEF Unset, Return, Ended
  <2> QED
    BY <1>0, <2>1, ReturnType DEF TypeOK, Unset, settings, cache, google
<1>2. CachedEarly'
  BY <1>0 DEF CachedEarly, Unset, cache, google
<1>3. SendFacts(s)'
  BY <1>0, MailerAssumption DEF TypeOK, SendFacts, CachedEarly, Unset, Return, Leave, Ended, cache, google
<1>4. ASSUME NEW o \in Send, o # s PROVE SendFacts(o)'
  BY <1>0, <1>4, OthersKeep, MailerAssumption DEF TypeOK, SendFacts, Unset, Return, Leave, Ended, cache, google
<1> QED
  BY <1>1, <1>2, <1>3, <1>4, InvariantBySendNext

(* A send that begins.                                                     *)
LEMMA BeginKeeps == ASSUME IInv, NEW s \in Send, Begin(s) PROVE IInv'
<1>0. TypeOK /\ CachedEarly /\ \A o \in Send : SendFacts(o)
  BY InvariantBySend
<1>1. TypeOK'
  BY <1>0, MailerAssumption DEF TypeOK, Begin, settings, cache, google
<1>2. CachedEarly'
  BY <1>0 DEF CachedEarly, Begin, cache, google
<1>3. SendFacts(s)'
  <2>1. /\ pc'[s] \in {"smtp", "token"} /\ deadline'[s] = clock + Timeout
        /\ mails'[s] = 0 /\ reply'[s] = "none" /\ mu # s /\ s \notin late
        /\ UNCHANGED <<mu, late, clock>>
    BY <1>0 DEF TypeOK, SendFacts, Begin
  <2> QED
    BY <1>0, <2>1, MailerAssumption DEF TypeOK, SendFacts
<1>4. ASSUME NEW o \in Send, o # s PROVE SendFacts(o)'
  BY <1>0, <1>4, OthersKeep, MailerAssumption DEF TypeOK, SendFacts, Begin, cache, google
<1> QED
  BY <1>1, <1>2, <1>3, <1>4, InvariantBySendNext

(* A send that takes the cached token: the margin covers it.               *)
LEMMA UseCachedKeeps == ASSUME IInv, NEW s \in Send, UseCached(s) PROVE IInv'
<1>0. TypeOK /\ CachedEarly /\ \A o \in Send : SendFacts(o)
  BY InvariantBySend
<1>1. TypeOK'
  BY <1>0 DEF TypeOK, UseCached, Fresh, settings, cache, google, Token
<1>2. CachedEarly'
  BY <1>0 DEF CachedEarly, UseCached, cache, google
<1>3. SendFacts(s)'
  <2>1. /\ pc'[s] = "post" /\ used'[s] = token /\ deadline'[s] <= clock + Timeout
        /\ deadline'[s] \in Nat
        /\ mails'[s] = 0 /\ reply'[s] = "none" /\ mu # s /\ s \notin late
        /\ UNCHANGED <<mu, late, clock, minted, ends>>
    BY <1>0 DEF TypeOK, SendFacts, UseCached, google
  <2>2. /\ token \in Token /\ token <= minted /\ clock < expires
        /\ expires + Margin <= ends[token] + Timeout
        /\ ends[token] \in Nat /\ expires \in Int /\ clock \in Nat
    BY <1>0 DEF TypeOK, CachedEarly, UseCached, Fresh
  <2>3. deadline'[s] < ends[token]
    BY <2>1, <2>2, MailerAssumption
  <2> QED
    BY <2>1, <2>2, <2>3 DEF SendFacts
<1>4. ASSUME NEW o \in Send, o # s PROVE SendFacts(o)'
  BY <1>0, <1>4, OthersKeep, MailerAssumption DEF TypeOK, SendFacts, UseCached, Fresh, cache, google
<1> QED
  BY <1>1, <1>2, <1>3, <1>4, InvariantBySendNext

(* A send that asks for a token.                                           *)
LEMMA StartExchangeKeeps == ASSUME IInv, NEW s \in Send, StartExchange(s) PROVE IInv'
<1>0. TypeOK /\ CachedEarly /\ \A o \in Send : SendFacts(o)
  BY InvariantBySend
<1>1. TypeOK'
  BY <1>0 DEF TypeOK, StartExchange, settings, cache, google
<1>2. CachedEarly'
  BY <1>0 DEF CachedEarly, StartExchange, cache, google
<1>3. SendFacts(s)'
  BY <1>0, MailerAssumption DEF TypeOK, SendFacts, CachedEarly, StartExchange, Fresh, cache, google
<1>4. ASSUME NEW o \in Send, o # s PROVE SendFacts(o)'
  BY <1>0, <1>4, OthersKeep, MailerAssumption DEF TypeOK, SendFacts, StartExchange, Fresh, cache, google
<1> QED
  BY <1>1, <1>2, <1>3, <1>4, InvariantBySendNext

(* A token arrives and is cached.                                          *)
LEMMA ReceiveTokenKeeps == ASSUME IInv, NEW s \in Send, ReceiveToken(s) PROVE IInv'
<1>0. TypeOK /\ CachedEarly /\ \A o \in Send : SendFacts(o)
  BY InvariantBySend
<1>a. /\ Timeout \in Nat /\ Margin \in Nat /\ NoSend \notin Send
      /\ Token \subseteq Int /\ clock \in Nat /\ deadline[s] \in Nat /\ minted \in Nat
      /\ life[used[s]] \in Nat /\ ends[used[s]] \in Nat /\ used[s] \in Token
  BY <1>0, MailerAssumption DEF TypeOK, SendFacts, ReceiveToken, Token
<1>b. /\ pc[s] = "exchange" /\ reply[s] = "ok" /\ clock <= deadline[s]
      /\ token' = used[s] /\ expires' = clock + life[used[s]] - Margin
      /\ mu = s /\ mu' = NoSend
      /\ reply' = [reply EXCEPT ![s] = "none"]
      /\ pc' = [pc EXCEPT ![s] = "post"]
      /\ UNCHANGED <<clock, transport, ready, attempt, used, deadline, mails, late,
                     minted, life, ends, revoked>>
  BY <1>0 DEF ReceiveToken, Expiry, SendFacts, settings, google
<1>c. /\ used[s] <= minted /\ life[used[s]] > Timeout
      /\ deadline[s] + life[used[s]] <= ends[used[s]] + Timeout
  BY <1>0, <1>b DEF SendFacts
<1>1. TypeOK'
  BY <1>0, <1>a, <1>b DEF TypeOK
<1>2. CachedEarly'
  <2>1. expires' + Margin <= ends[used[s]] + Timeout
    BY <1>a, <1>b, <1>c
  <2> QED
    BY <2>1, <1>b, <1>c DEF CachedEarly
<1>3. SendFacts(s)'
  <2>1. deadline[s] < ends[used[s]]
    BY <1>a, <1>c
  <2>2. pc'[s] = "post" /\ reply'[s] = "none"
    BY <1>0, <1>b DEF TypeOK
  <2> QED
    BY <1>0, <1>a, <1>b, <1>c, <2>1, <2>2 DEF SendFacts
<1>4. ASSUME NEW o \in Send, o # s PROVE SendFacts(o)'
  <2>1. /\ pc'[o] = pc[o] /\ reply'[o] = reply[o]
        /\ (mu' = o <=> mu = o) /\ mu # o
    BY <1>0, <1>a, <1>b, <1>4 DEF TypeOK
  <2> QED
    BY <2>1, <1>b, <1>4, OthersKeep DEF google
<1> QED
  BY <1>1, <1>2, <1>3, <1>4, InvariantBySendNext

(* The answer to a post.                                                   *)
LEMMA ReceiveStatusKeeps == ASSUME IInv, NEW s \in Send, ReceiveStatus(s) PROVE IInv'
<1>0. TypeOK /\ CachedEarly /\ \A o \in Send : SendFacts(o)
  BY InvariantBySend
<1>1. TypeOK'
  <2>1. CASE Refused(s)
    BY <1>0, <2>1 DEF TypeOK, ReceiveStatus, Ended, settings, cache, google
  <2>2. CASE ~Refused(s)
    <3>1. PICK o \in {"redact"} \cup Ended : Return(s, o)
      BY <2>2 DEF ReceiveStatus, Ended
    <3>2. Leave(s, o)
      BY <3>1 DEF Return
    <3> QED
      BY <1>0, <3>1, <3>2, ReturnType DEF TypeOK, ReceiveStatus, settings, cache, google
  <2> QED
    BY <2>1, <2>2
<1>2. CachedEarly'
  BY <1>0 DEF CachedEarly, ReceiveStatus, cache, google
<1>3. SendFacts(s)'
  <2>1. /\ s \notin late /\ mu # s /\ mails[s] <= 1
        /\ UNCHANGED <<mu, late, clock, mails, minted, ends, revoked>>
        /\ clock <= deadline[s] /\ clock \in Nat /\ deadline[s] \in Nat
    BY <1>0 DEF TypeOK, SendFacts, ReceiveStatus, google
  <2>2. CASE Refused(s)
    <3>1. /\ pc'[s] = "drop" /\ reply'[s] = "none" /\ mails[s] = 0
          /\ UNCHANGED <<used, deadline>>
          /\ used[s] \in revoked /\ deadline[s] <= clock + Timeout
      BY <1>0, <2>1, <2>2 DEF TypeOK, SendFacts, ReceiveStatus, Refused
    <3> QED
      BY <2>1, <3>1 DEF SendFacts
  <2>3. CASE ~Refused(s)
    <3>1. pc'[s] \in {"sent", "redact"}
      BY <1>0, <2>3 DEF TypeOK, ReceiveStatus, Return, Leave
    <3> QED
      BY <2>1, <3>1 DEF SendFacts
  <2> QED
    BY <2>2, <2>3
<1>4. ASSUME NEW o \in Send, o # s PROVE SendFacts(o)'
  <2>1. /\ pc'[o] = pc[o] /\ attempt'[o] = attempt[o] /\ used'[o] = used[o]
        /\ deadline'[o] = deadline[o] /\ reply'[o] = reply[o] /\ mails'[o] = mails[o]
    BY <1>0, <1>4 DEF TypeOK, ReceiveStatus, Return, Leave
  <2>2. /\ (mu' = o <=> mu = o) /\ (mu = o => UNCHANGED cache)
        /\ (o \in late' <=> o \in late) /\ clock' = clock /\ UNCHANGED google
    BY <1>0, <1>4, MailerAssumption DEF ReceiveStatus, Return, Leave
  <2> QED
    BY <1>4, <2>1, <2>2, OthersKeep
<1> QED
  BY <1>1, <1>2, <1>3, <1>4, InvariantBySendNext

(* A refused token is dropped.                                             *)
LEMMA DropTokenKeeps == ASSUME IInv, NEW s \in Send, DropToken(s) PROVE IInv'
<1>0. TypeOK /\ CachedEarly /\ \A o \in Send : SendFacts(o)
  BY InvariantBySend
<1>1. TypeOK'
  <2>1. token' \in Token \cup {NoToken}
    BY <1>0 DEF TypeOK, DropToken, Without
  <2>2. CASE attempt[s] = 1
    BY <1>0, <2>1, <2>2 DEF TypeOK, DropToken, Ended, settings, google
  <2>3. CASE attempt[s] # 1
    <3>1. Return(s, "redact") /\ Leave(s, "redact")
      BY <2>3 DEF DropToken, Return
    <3> QED
      BY <1>0, <2>1, <3>1, ReturnType DEF TypeOK, DropToken, settings, google
  <2> QED
    BY <2>2, <2>3
<1>2. CachedEarly'
  BY <1>0 DEF CachedEarly, DropToken, Without, cache, google
<1>3. SendFacts(s)'
  BY <1>0, MailerAssumption DEF TypeOK, SendFacts, CachedEarly, DropToken, Without, Return, Leave, Ended, cache, google
<1>4. ASSUME NEW o \in Send, o # s PROVE SendFacts(o)'
  <2>1. /\ pc'[o] = pc[o] /\ attempt'[o] = attempt[o] /\ used'[o] = used[o]
        /\ deadline'[o] = deadline[o] /\ reply'[o] = reply[o] /\ mails'[o] = mails[o]
    BY <1>0, <1>4 DEF TypeOK, DropToken, Return, Leave
  <2>2. /\ (mu' = o <=> mu = o) /\ (mu = o => UNCHANGED cache)
        /\ (o \in late' <=> o \in late) /\ clock' = clock /\ UNCHANGED google
    BY <1>0, <1>4, MailerAssumption DEF DropToken, Return, Leave
  <2> QED
    BY <1>4, <2>1, <2>2, OthersKeep
<1> QED
  BY <1>1, <1>2, <1>3, <1>4, InvariantBySendNext

(* A send whose request fails.                                             *)
LEMMA FailKeeps ==
    ASSUME IInv, NEW s \in Send, pc[s] \in {"exchange", "post"}, Fail(s)
    PROVE  IInv'
<1>0. TypeOK /\ CachedEarly /\ \A o \in Send : SendFacts(o)
  BY InvariantBySend
<1>1. /\ used' = used \/ used' = [used EXCEPT ![s] = NoToken]
      /\ late' = late \/ (late' = late \cup {s} /\ mails[s] = 0)
      /\ mu' = IF mu = s THEN NoSend ELSE mu
      /\ UNCHANGED <<clock, transport, ready, token, expires, mails, minted, life,
                     ends, revoked>>
  BY <1>0 DEF Fail, SendFacts, settings, cache, google
<1>2. /\ Leave(s, "redact")
      /\ pc'[s] = "redact"
      /\ \A o \in Send : o # s => /\ pc'[o] = pc[o] /\ attempt'[o] = attempt[o]
                                  /\ deadline'[o] = deadline[o]
                                  /\ reply'[o] = reply[o]
  BY <1>0 DEF TypeOK, Fail, Leave
<1>3. TypeOK'
  BY <1>0, <1>1, <1>2, ReturnType DEF TypeOK
<1>4. CachedEarly'
  BY <1>0, <1>1 DEF CachedEarly
<1>5. SendFacts(s)'
  <2>1. s \notin late
    BY <1>0 DEF SendFacts
  <2> QED
    BY <1>0, <1>1, <1>2, <2>1, MailerAssumption DEF SendFacts
<1>6. ASSUME NEW o \in Send, o # s PROVE SendFacts(o)'
  <2>1. /\ pc'[o] = pc[o] /\ attempt'[o] = attempt[o] /\ used'[o] = used[o]
        /\ deadline'[o] = deadline[o] /\ reply'[o] = reply[o] /\ mails'[o] = mails[o]
    BY <1>0, <1>1, <1>2, <1>6 DEF TypeOK
  <2>2. /\ (mu' = o <=> mu = o) /\ (mu = o => UNCHANGED cache)
        /\ (o \in late' <=> o \in late) /\ clock' = clock /\ UNCHANGED google
    BY <1>1, <1>6, MailerAssumption DEF cache, google
  <2> QED
    BY <1>6, <2>1, <2>2, OthersKeep
<1> QED
  BY <1>3, <1>4, <1>5, <1>6, InvariantBySendNext

(* A send whose error is redacted.                                         *)
LEMMA RedactKeeps == ASSUME IInv, NEW s \in Send, Redact(s) PROVE IInv'
<1>0. TypeOK /\ CachedEarly /\ \A o \in Send : SendFacts(o)
  BY InvariantBySend
<1>1. TypeOK'
  BY <1>0 DEF TypeOK, Redact, Ended, settings, cache, google
<1>2. CachedEarly'
  BY <1>0 DEF CachedEarly, Redact, cache, google
<1>3. SendFacts(s)'
  BY <1>0, MailerAssumption DEF TypeOK, SendFacts, Redact, cache, google
<1>4. ASSUME NEW o \in Send, o # s PROVE SendFacts(o)'
  BY <1>0, <1>4, OthersKeep DEF TypeOK, Redact, cache, google
<1> QED
  BY <1>1, <1>2, <1>3, <1>4, InvariantBySendNext

(* A send over SMTP ends.                                                  *)
LEMMA SmtpReturnsKeeps == ASSUME IInv, NEW s \in Send, SmtpReturns(s) PROVE IInv'
<1>0. TypeOK /\ CachedEarly /\ \A o \in Send : SendFacts(o)
  BY InvariantBySend
<1>1. TypeOK'
  <2>1. PICK o \in Ended : Return(s, o) /\ Leave(s, o)
    BY DEF SmtpReturns, Return, Ended
  <2>2. late' \subseteq Send
    BY <1>0 DEF TypeOK, SmtpReturns
  <2> QED
    BY <1>0, <2>1, <2>2, ReturnType DEF TypeOK, SmtpReturns, settings, cache, google
<1>2. CachedEarly'
  BY <1>0 DEF CachedEarly, SmtpReturns, cache, google
<1>3. SendFacts(s)'
  BY <1>0, MailerAssumption DEF TypeOK, SendFacts, CachedEarly, SmtpReturns, Return, Leave, Ended, cache, google
<1>4. ASSUME NEW o \in Send, o # s PROVE SendFacts(o)'
  BY <1>0, <1>4, OthersKeep, MailerAssumption DEF TypeOK, SendFacts, SmtpReturns, Return, Leave, Ended, cache, google
<1> QED
  BY <1>1, <1>2, <1>3, <1>4, InvariantBySendNext

(* The SMTP server takes a message.                                        *)
LEMMA SmtpDeliversKeeps == ASSUME IInv, NEW s \in Send, SmtpDelivers(s) PROVE IInv'
<1>0. TypeOK /\ CachedEarly /\ \A o \in Send : SendFacts(o)
  BY InvariantBySend
<1>1. TypeOK'
  BY <1>0 DEF TypeOK, SmtpDelivers, settings, cache, google
<1>2. CachedEarly'
  BY <1>0 DEF CachedEarly, SmtpDelivers, cache, google
<1>3. SendFacts(s)'
  BY <1>0, MailerAssumption DEF TypeOK, SendFacts, CachedEarly, SmtpDelivers, cache, google
<1>4. ASSUME NEW o \in Send, o # s PROVE SendFacts(o)'
  BY <1>0, <1>4, OthersKeep, MailerAssumption DEF TypeOK, SendFacts, SmtpDelivers, cache, google
<1> QED
  BY <1>1, <1>2, <1>3, <1>4, InvariantBySendNext

(* Google sends a message.                                                 *)
LEMMA DeliverKeeps == ASSUME IInv, NEW s \in Send, Deliver(s) PROVE IInv'
<1>0. TypeOK /\ CachedEarly /\ \A o \in Send : SendFacts(o)
  BY InvariantBySend
<1>1. TypeOK'
  <2>1. mails' \in [Send -> Nat]
    BY <1>0 DEF TypeOK, Deliver
  <2>2. reply' \in [Send -> {"none", "ok", "error", "refused"}]
    BY <1>0 DEF TypeOK, Deliver
  <2> QED
    BY <1>0, <2>1, <2>2 DEF TypeOK, Deliver, settings, cache, google
<1>2. CachedEarly'
  BY <1>0 DEF CachedEarly, Deliver, cache, google
<1>3. SendFacts(s)'
  <2>1. /\ s \notin late /\ mu # s /\ mails'[s] = 1 /\ pc[s] = "post"
        /\ reply'[s] \in {"ok", "error"}
        /\ UNCHANGED <<mu, late, clock, pc, used, deadline, minted, ends>>
    BY <1>0 DEF TypeOK, SendFacts, Deliver, Pending, google
  <2> QED
    BY <1>0, <2>1 DEF SendFacts
<1>4. ASSUME NEW o \in Send, o # s PROVE SendFacts(o)'
  <2>1. /\ pc'[o] = pc[o] /\ attempt'[o] = attempt[o] /\ used'[o] = used[o]
        /\ deadline'[o] = deadline[o] /\ reply'[o] = reply[o] /\ mails'[o] = mails[o]
    BY <1>0, <1>4 DEF TypeOK, Deliver
  <2>2. /\ (mu' = o <=> mu = o) /\ (mu = o => UNCHANGED cache)
        /\ (o \in late' <=> o \in late) /\ clock' = clock /\ UNCHANGED google
    BY <1>0, <1>4, MailerAssumption DEF Deliver
  <2> QED
    BY <1>4, <2>1, <2>2, OthersKeep
<1> QED
  BY <1>1, <1>2, <1>3, <1>4, InvariantBySendNext

(* A message goes out after its send gave up.                              *)
LEMMA DeliverLateKeeps == ASSUME IInv, NEW s \in Send, DeliverLate(s) PROVE IInv'
<1>0. TypeOK /\ CachedEarly /\ \A o \in Send : SendFacts(o)
  BY InvariantBySend
<1>a. /\ s \in late /\ late' = late \ {s}
      /\ mails' = [mails EXCEPT ![s] = @ + 1]
      /\ UNCHANGED <<clock, transport, ready, mu, token, expires, pc, attempt, used,
                     deadline, reply, minted, life, ends, revoked>>
  BY DEF DeliverLate, settings, cache, google
<1>b. pc[s] \in {"redact", "failed"} /\ mails[s] = 0 /\ mails'[s] = 1
  BY <1>0, <1>a DEF SendFacts, TypeOK
<1>1. TypeOK'
  BY <1>0, <1>a DEF TypeOK
<1>2. CachedEarly'
  BY <1>0, <1>a DEF CachedEarly
<1>3. SendFacts(s)'
  BY <1>0, <1>a, <1>b DEF SendFacts, Fresh
<1>4. ASSUME NEW o \in Send, o # s PROVE SendFacts(o)'
  <2>1. mails'[o] = mails[o] /\ (o \in late' <=> o \in late)
    BY <1>0, <1>4, <1>a DEF TypeOK
  <2> QED
    BY <1>4, <1>a, <2>1, OthersKeep DEF cache, google
<1> QED
  BY <1>1, <1>2, <1>3, <1>4, InvariantBySendNext

(* Google does not send a message.                                         *)
LEMMA TurnDownKeeps == ASSUME IInv, NEW s \in Send, TurnDown(s) PROVE IInv'
<1>0. TypeOK /\ CachedEarly /\ \A o \in Send : SendFacts(o)
  BY InvariantBySend
<1>1. TypeOK'
  BY <1>0 DEF TypeOK, TurnDown, Pending, settings, cache, google
<1>2. CachedEarly'
  BY <1>0 DEF CachedEarly, TurnDown, cache, google
<1>3. SendFacts(s)'
  <2>1. /\ s \notin late /\ mu # s /\ mails[s] = 0 /\ pc[s] = "post"
        /\ UNCHANGED <<mu, late, clock, pc, used, deadline, mails, minted, ends, revoked>>
    BY <1>0 DEF TypeOK, SendFacts, TurnDown, Pending, google
  <2>2. reply'[s] = IF Accepts(used[s]) THEN "error" ELSE "refused"
    BY <1>0 DEF TypeOK, TurnDown
  <2>3. /\ used[s] \in Token /\ used[s] <= minted /\ deadline[s] < ends[used[s]]
        /\ deadline[s] \in Nat /\ ends[used[s]] \in Nat /\ clock \in Nat
        /\ deadline[s] <= clock + Timeout
    BY <1>0, <2>1 DEF TypeOK, SendFacts
  <2>4. ~Accepts(used[s]) => used[s] \in revoked \/ clock > deadline[s]
    BY <2>3 DEF Accepts
  <2> QED
    BY <2>1, <2>2, <2>3, <2>4 DEF SendFacts
<1>4. ASSUME NEW o \in Send, o # s PROVE SendFacts(o)'
  BY <1>0, <1>4, OthersKeep, MailerAssumption DEF TypeOK, SendFacts, TurnDown, Pending, Accepts, cache, google
<1> QED
  BY <1>1, <1>2, <1>3, <1>4, InvariantBySendNext

(* A new token is later than all that are cached, presented or on their    *)
(* way.                                                                    *)
LEMMA MintKeeps == ASSUME IInv, NEW s \in Send, Mint(s) PROVE IInv'
<1>0. TypeOK /\ CachedEarly /\ \A o \in Send : SendFacts(o)
  BY InvariantBySend
<1>1. PICK l \in Lifetimes :
        /\ life' = [life EXCEPT ![minted + 1] = l]
        /\ ends' = [ends EXCEPT ![minted + 1] = clock + l]
  BY DEF Mint
<1>2. /\ l \in Nat /\ l > Timeout /\ Timeout \in Nat /\ Margin \in Nat
      /\ minted + 1 \in Token /\ clock \in Nat /\ minted \in Nat
      /\ deadline[s] \in Nat /\ deadline[s] <= clock + Timeout
      /\ token \in Nat /\ token <= minted
  BY <1>0, MailerAssumption DEF TypeOK, Mint, Token, SendFacts, CachedEarly, NoToken
<1>3. /\ life' \in [Token -> Nat] /\ ends' \in [Token -> Nat]
      /\ life'[minted + 1] = l /\ ends'[minted + 1] = clock + l
      /\ \A t \in Token : t <= minted => life'[t] = life[t] /\ ends'[t] = ends[t]
  BY <1>0, <1>1, <1>2 DEF TypeOK, Token
<1>4. /\ used' = [used EXCEPT ![s] = minted + 1]
      /\ reply' = [reply EXCEPT ![s] = "ok"]
      /\ minted' = minted + 1
      /\ pc[s] = "exchange"
      /\ UNCHANGED <<clock, transport, ready, mu, token, expires, pc, attempt,
                     deadline, mails, late, revoked>>
  BY DEF Mint, settings, cache
<1>5. TypeOK'
  <2>1. used' \in [Send -> Token \cup {NoToken}]
    BY <1>0, <1>2, <1>4 DEF TypeOK
  <2>2. minted' \in 0..MaxTokens
    BY <1>0, <1>2, <1>4, MailerAssumption DEF TypeOK, Token
  <2>3. reply' \in [Send -> {"none", "ok", "error", "refused"}]
    BY <1>0, <1>4 DEF TypeOK
  <2> QED
    BY <1>0, <1>3, <1>4, <2>1, <2>2, <2>3 DEF TypeOK
<1>6. CachedEarly'
  <2>1. token # NoToken => token \in Token /\ ends'[token] = ends[token]
    BY <1>0, <1>2, <1>3 DEF TypeOK
  <2> QED
    BY <1>0, <1>2, <1>4, <2>1 DEF CachedEarly
<1>7. SendFacts(s)'
  <2>1. used'[s] = minted + 1 /\ reply'[s] = "ok" /\ pc'[s] = "exchange"
    BY <1>0, <1>4 DEF TypeOK
  <2>2. life'[used'[s]] = l /\ ends'[used'[s]] = clock + l
    BY <1>3, <2>1
  <2>3. ~Fresh'
    BY <1>0, <1>4 DEF SendFacts, Fresh
  <2> QED
    BY <1>0, <1>2, <1>4, <2>1, <2>2, <2>3 DEF SendFacts
<1>8. ASSUME NEW o \in Send, o # s PROVE SendFacts(o)'
  <2>1. used'[o] = used[o] /\ reply'[o] = reply[o]
    BY <1>0, <1>4, <1>8 DEF TypeOK
  <2> QED
    <3>1. pc[o] # "exchange" /\ mu # o
      BY <1>0, <1>4, <1>8 DEF SendFacts
    <3>2. pc[o] = "post" => /\ used[o] \in Token /\ used[o] <= minted + 1
                            /\ ends'[used[o]] = ends[used[o]]
      BY <1>0, <1>2, <1>3 DEF SendFacts, Token
    <3> QED
      BY <1>0, <1>4, <2>1, <3>1, <3>2 DEF SendFacts
<1> QED
  BY <1>5, <1>6, <1>7, <1>8, InvariantBySendNext

LEMMA RevokeKeeps == IInv /\ Revoke => IInv'
<1> SUFFICES ASSUME IInv, Revoke PROVE IInv'
  OBVIOUS
<1>1. PICK t \in 1..minted : revoked' = revoked \cup {t}
  BY DEF Revoke
<1>2. /\ UNCHANGED <<clock, transport, ready, mu, token, expires, pc, attempt, used,
                     deadline, reply, mails, late, minted, life, ends>>
      /\ Fresh' <=> Fresh
  BY DEF Revoke, settings, cache, Fresh
<1>3. TypeOK'
  <2>1. t \in Token
    BY <1>1, MailerAssumption DEF IInv, TypeOK, Token
  <2> QED
    BY <1>1, <1>2, <2>1 DEF IInv, TypeOK
<1>4. CachedEarly'
  BY <1>2 DEF IInv, CachedEarly
<1>5. ASSUME NEW s \in Send PROVE SendFacts(s)'
  BY <1>1, <1>2, InvariantBySend DEF SendFacts
<1> QED
  BY <1>3, <1>4, <1>5, InvariantBySendNext

LEMMA TickKeeps == IInv /\ Tick => IInv'
<1> SUFFICES ASSUME IInv, Tick PROVE IInv'
  OBVIOUS
<1>1. /\ clock \in Nat /\ clock' = clock + 1 /\ Timeout \in Nat
      /\ deadline \in [Send -> Nat] /\ expires \in Int
      /\ UNCHANGED <<transport, ready, mu, token, expires, pc, attempt, used,
                     deadline, reply, mails, late, minted, life, ends,
                     revoked>>
  BY MailerAssumption DEF Tick, IInv, TypeOK, settings, cache, google
<1>2. ~Fresh => ~Fresh'
  BY <1>1 DEF Fresh
<1>3. TypeOK' /\ CachedEarly'
  BY <1>1 DEF IInv, TypeOK, CachedEarly
<1>4. ASSUME NEW s \in Send PROVE SendFacts(s)'
  BY <1>1, <1>2, InvariantBySend DEF SendFacts
<1> QED
  BY <1>3, <1>4, InvariantBySendNext

LEMMA StutterKeeps == IInv /\ UNCHANGED vars => IInv'
<1> SUFFICES ASSUME IInv, UNCHANGED vars PROVE IInv'
  OBVIOUS
<1>1. Fresh' <=> Fresh
  BY DEF vars, Fresh
<1>2. TypeOK' /\ CachedEarly'
  BY DEF vars, IInv, TypeOK, CachedEarly
<1>3. ASSUME NEW s \in Send PROVE SendFacts(s)'
  BY <1>1, InvariantBySend DEF vars, SendFacts
<1> QED
  BY <1>2, <1>3, InvariantBySendNext

(* Every step keeps the invariant.                                         *)
LEMMA StepKeeps == IInv /\ [Next]_vars => IInv'
<1> SUFFICES ASSUME IInv, [Next]_vars PROVE IInv'
  OBVIOUS
<1>1. CASE \E s \in Send : Sender(s)
  <2>1. PICK s \in Send : Sender(s)
    BY <1>1
  <2>2. CASE Unset(s) \/ Begin(s)
    BY <2>2, UnsetKeeps, BeginKeeps
  <2>3. CASE UseCached(s) \/ StartExchange(s)
    BY <2>3, UseCachedKeeps, StartExchangeKeeps
  <2>4. CASE ReceiveToken(s) \/ ReceiveStatus(s)
    BY <2>4, ReceiveTokenKeeps, ReceiveStatusKeeps
  <2>5. CASE DropToken(s) \/ SmtpReturns(s)
    BY <2>5, DropTokenKeeps, SmtpReturnsKeeps
  <2>6. CASE RequestFails(s) \/ TimeOut(s)
    BY <2>6, FailKeeps DEF RequestFails, TimeOut
  <2>7. CASE Redact(s)
    BY <2>7, RedactKeeps
  <2> QED
    BY <2>1, <2>2, <2>3, <2>4, <2>5, <2>6, <2>7 DEF Sender
<1>2. CASE \E s \in Send : MailServer(s)
  BY <1>2, SmtpDeliversKeeps, MintKeeps, DeliverKeeps, DeliverLateKeeps,
      TurnDownKeeps DEF MailServer
<1> QED
  BY <1>1, <1>2, RevokeKeeps, TickKeeps, StutterKeeps DEF Next

(* IInv holds in every state of every behaviour of the Sender.             *)
THEOREM MailerInvariant == Spec => []IInv
<1>1. Init => IInv
  BY InitInvariant
<1>2. IInv /\ [Next]_vars => IInv'
  BY StepKeeps
<1> QED
  BY <1>1, <1>2, PTL DEF Spec

(* The expiry margin does what its comment claims, for every timeout and   *)
(* lifetime it is at least twice, and more than, that: no token a send     *)
(* presents can expire before the send's own deadline.                     *)
THEOREM MarginSuffices == Spec => []TokenOutlivesSend
<1>1. IInv => TokenOutlivesSend
  BY DEF IInv
<1> QED
  BY <1>1, MailerInvariant, PTL

(* A token leaves the cache only for cause, and only for a newer one.      *)
THEOREM TokensKept == Spec => TokensReplacedForCause
<1>1. ASSUME IInv, Next, token # NoToken, token' # token
      PROVE  /\ token \in revoked \/ clock >= expires
             /\ token' = NoToken \/ token' > token
  <2>0. TypeOK /\ \A s \in Send : SendFacts(s)
    BY <1>1, InvariantBySend
  <2>1. PICK s \in Send : ReceiveToken(s) \/ DropToken(s)
    BY <1>1 DEF Next, Sender, MailServer, Unset, Begin, UseCached, StartExchange,
        ReceiveStatus, RequestFails, TimeOut, Fail, Redact, SmtpReturns, SmtpDelivers,
        Mint, Deliver, DeliverLate, TurnDown, Revoke, Tick, cache
  <2>2. CASE ReceiveToken(s)
    <3>1. ~Fresh /\ used[s] > token /\ token' = used[s]
      BY <2>0, <2>2 DEF SendFacts, ReceiveToken
    <3> QED
      BY <1>1, <2>0, <3>1 DEF Fresh, TypeOK
  <2>3. CASE DropToken(s)
    BY <1>1, <2>0, <2>3 DEF SendFacts, DropToken, Without
  <2> QED
    BY <2>1, <2>2, <2>3
<1>2. IInv /\ [Next]_vars =>
        [token # NoToken /\ token' # token =>
           /\ token \in revoked \/ clock >= expires
           /\ token' = NoToken \/ token' > token]_vars
  BY <1>1
<1> QED
  BY <1>2, MailerInvariant, PTL DEF Spec, TokensReplacedForCause

(* Both transports keep the promise of a Sender: every step of a send maps *)
(* to a step of MailPromise or to none.                                    *)
THEOREM PromiseKept == Spec => ImplementsMailPromise
<1> DEFINE Out == [s \in Send |-> IF pc[s] \in Ended THEN pc[s] ELSE "open"]
<1>1. Init => Promise!Init
  BY DEF Init, Promise!Init, Ended
<1>2. ASSUME IInv, [Next]_vars PROVE [Promise!Next]_Promise!vars
  <2>0. TypeOK /\ \A s \in Send : SendFacts(s)
    BY <1>2, InvariantBySend
  <2>1. CASE UNCHANGED <<pc, mails>>
    BY <2>1 DEF Promise!vars
  <2>2. ASSUME NEW s \in Send, NEW p \in {"smtp", "token", "exchange", "post", "drop", "redact"},
               pc[s] \notin Ended, pc' = [pc EXCEPT ![s] = p], mails' = mails
        PROVE  Out' = Out
    BY <2>0, <2>2 DEF TypeOK, Ended
  <2>3. ASSUME NEW s \in Send, pc[s] \notin Ended,
               pc' = [pc EXCEPT ![s] = "failed"], mails' = mails
        PROVE  Promise!ReturnError(s)
    BY <2>0, <2>3 DEF TypeOK, Ended, Promise!ReturnError
  <2>4. ASSUME NEW s \in Send, pc[s] \notin Ended, mails[s] = 1,
               pc' = [pc EXCEPT ![s] = "sent"], mails' = mails
        PROVE  Promise!ReturnNil(s)
    BY <2>0, <2>4 DEF TypeOK, Ended, Promise!ReturnNil
  <2>5. ASSUME NEW s \in Send, pc[s] # "sent", mails[s] = 0,
               pc' = pc, mails' = [mails EXCEPT ![s] = 1]
        PROVE  Promise!Deliver(s)
    BY <2>0, <2>5 DEF TypeOK, Ended, Promise!Deliver
  <2>6. CASE UNCHANGED vars \/ Tick \/ Revoke
    BY <2>1, <2>6 DEF vars, Tick, Revoke
  <2>7. CASE \E s \in Send : MailServer(s)
    <3>1. PICK s \in Send : MailServer(s)
      BY <2>7
    <3>2. CASE SmtpDelivers(s)
      BY <2>0, <2>5, <3>2 DEF SmtpDelivers, Ended, TypeOK, Promise!Next
    <3>3. CASE Deliver(s)
      <4>1. mails[s] = 0 /\ pc[s] = "post"
        BY <2>0, <3>3 DEF SendFacts, Deliver, Pending
      <4>2. mails' = [mails EXCEPT ![s] = 1] /\ pc' = pc
        BY <2>0, <3>3, <4>1 DEF Deliver, TypeOK
      <4> QED
        BY <2>5, <4>1, <4>2 DEF Ended, Promise!Next
    <3>4. CASE Mint(s) \/ TurnDown(s)
      BY <2>1, <3>4 DEF Mint, TurnDown
    <3>5. CASE DeliverLate(s)
      <4>1. mails[s] = 0 /\ pc[s] # "sent"
        BY <2>0, <3>5 DEF SendFacts, DeliverLate
      <4>2. mails' = [mails EXCEPT ![s] = 1] /\ pc' = pc
        BY <2>0, <3>5, <4>1 DEF DeliverLate, TypeOK
      <4> QED
        BY <2>5, <4>1, <4>2 DEF Promise!Next
    <3> QED
      BY <3>1, <3>2, <3>3, <3>4, <3>5 DEF MailServer
  <2>8. CASE \E s \in Send : Sender(s)
    <3>1. PICK s \in Send : Sender(s)
      BY <2>8
    <3>2. CASE Unset(s) \/ Redact(s)
      BY <2>3, <3>2 DEF Unset, Redact, Return, Leave, Ended, Promise!Next
    <3>3. CASE Begin(s)
      BY <2>2, <3>3 DEF Begin, Ended, Promise!vars
    <3>4. CASE UseCached(s) \/ StartExchange(s)
      BY <2>2, <3>4 DEF UseCached, StartExchange, Ended, Promise!vars
    <3>5. CASE ReceiveToken(s)
      BY <2>2, <3>5 DEF ReceiveToken, Ended, Promise!vars
    <3>6. CASE ReceiveStatus(s)
      <4>1. pc[s] = "post" /\ pc[s] \notin Ended /\ mails' = mails
        BY <3>6 DEF ReceiveStatus, Ended
      <4>2. CASE Refused(s)
        BY <2>2, <3>6, <4>1, <4>2 DEF ReceiveStatus, Promise!vars
      <4>3. CASE ~Refused(s) /\ reply[s] = "ok"
        BY <2>0, <2>4, <3>6, <4>1, <4>3 DEF ReceiveStatus, Return, Leave, SendFacts,
            Promise!Next
      <4>4. CASE ~Refused(s) /\ reply[s] # "ok"
        BY <2>2, <3>6, <4>1, <4>4 DEF ReceiveStatus, Return, Leave, Promise!vars
      <4> QED
        BY <4>2, <4>3, <4>4
    <3>7. CASE DropToken(s)
      <4>1. CASE attempt[s] = 1
        BY <2>2, <3>7, <4>1 DEF DropToken, Ended, Promise!vars
      <4>2. CASE attempt[s] # 1
        BY <2>2, <3>7, <4>2 DEF DropToken, Return, Leave, Ended, Promise!vars
      <4> QED
        BY <4>1, <4>2
    <3>8. CASE SmtpReturns(s)
      BY <2>3, <2>4, <3>8 DEF SmtpReturns, Return, Leave, Ended, Promise!Next
    <3>9. CASE RequestFails(s) \/ TimeOut(s)
      <4>1. pc[s] \notin Ended /\ pc' = [pc EXCEPT ![s] = "redact"] /\ mails' = mails
        BY <3>9 DEF RequestFails, TimeOut, Fail, Leave, Ended
      <4> QED
        BY <2>2, <4>1 DEF Promise!vars
    <3> QED
      BY <3>1, <3>2, <3>3, <3>4, <3>5, <3>6, <3>7, <3>8, <3>9 DEF Sender
  <2> QED
    BY <1>2, <2>6, <2>7, <2>8 DEF Next
<1> QED
  BY <1>1, <1>2, MailerInvariant, PTL DEF Spec, ImplementsMailPromise, Promise!Spec
=============================================================================
