-------------------------- MODULE LoginSessionProofs --------------------------
(***************************************************************************)
(* Proofs about LoginSession: its inductive invariant IInv, and what       *)
(* follows from it about login codes and session cookies, for every number *)
(* of browsers, overlapping requests, players and codes, and for every     *)
(* resolution of the clock, idle timeout and validity of a code.           *)
(***************************************************************************)
EXTENDS LoginSession, TLAPS

(***************************************************************************)
(* Lemmas about stamps, cookies and codes                                  *)
(***************************************************************************)

(* Formatting a time loses less than a second.                             *)
LEMMA StampCut ==
    ASSUME NEW t \in Nat
    PROVE  Stamp(t) \in Nat /\ Stamp(t) <= t /\ t - Stamp(t) <= TicksPerSecond - 1
BY LoginAssumption DEF Stamp

LEMMA Elements ==
    ASSUME NEW T, NEW s \in Seq(T) PROVE \A i \in DOMAIN s : s[i] \in T
OBVIOUS

LEMMA FreshCookie ==
    ASSUME NEW p \in Player, clock \in Nat
    PROVE  /\ Fresh(p) \in Cookie /\ Fresh(p).player = p
           /\ Fresh(p).issued = Stamp(clock) /\ Fresh(p).minted = clock
           /\ Fresh(p) # NoCookie /\ Fresh(p) # Keep
<1>1. Fresh(p) \in Cookie
  BY StampCut DEF Fresh, Cookie
<1> QED BY <1>1, LoginAssumption DEF Fresh

(* A cookie that is checked carries the instant it was minted, cut to the  *)
(* second.                                                                 *)
LEMMA CarriedCookie ==
    ASSUME IInv, NEW t \in Slot, ask[t].carried # NoCookie
    PROVE  /\ ask[t].carried \in Cookie
           /\ ask[t].carried.player \in Player
           /\ ask[t].carried.minted \in Nat
           /\ ask[t].carried.issued = Stamp(ask[t].carried.minted)
           /\ ask[t].carried.minted <= clock
<1>1. ask[t].carried \in Cookie
  BY DEF IInv, TypeOK, Ask
<1> QED BY <1>1 DEF IInv, CookiesAsMinted, Minted, Cookie

(* Two rows on file are of two codes.                                      *)
LEMMA RowsByCode ==
    ASSUME IInv, NEW q \in rows, NEW r \in rows, q.id = r.id PROVE q = r
<1>1. q.player = r.player /\ q.issued = r.issued
  BY DEF IInv, CodesAsIssued
<1>2. q \in CodeRow /\ r \in CodeRow
  BY DEF IInv, TypeOK
<1> QED BY <1>1, <1>2 DEF CodeRow

(***************************************************************************)
(* The inductive invariant: the frame                                      *)
(***************************************************************************)
LEMMA NoAskType ==
    /\ NoAsk \in Ask /\ NoAsk.carried = NoCookie /\ NoAsk.code = 0 /\ NoAsk.now = 0
BY DEF NoAsk, Ask, Kinds

LEMMA InitIInv == Init => IInv
<1> SUFFICES ASSUME Init PROVE IInv
  OBVIOUS
<1>1. TypeOK
  <2>1. <<>> \in Seq([player : Player, at : Nat]) /\ <<>> \in Seq(Nat)
    OBVIOUS
  <2> QED BY <2>1, NoAskType DEF Init, TypeOK, Labels
<1>2. CodesAsIssued /\ CodesKnown /\ RedeemedGone /\ OneLoginPerCode
  BY DEF Init, CodesAsIssued, CodesKnown, RedeemedGone, OneLoginPerCode, NoAsk
<1>3. CookiesAsMinted
  BY LoginAssumption DEF Init, CookiesAsMinted, Minted, NoAsk
<1>4. \A t \in Slot : CookieEarned(t)
  BY DEF Init, CookieEarned
<1> QED BY <1>1, <1>2, <1>3, <1>4 DEF IInv

(* What a step of a request slot leaves of the codes.                      *)
LEMMA CodesKept ==
    ASSUME IInv, UNCHANGED <<clock, rows, issued, logins>>
    PROVE  CodesAsIssued' /\ RedeemedGone' /\ OneLoginPerCode'
BY DEF IInv, CodesAsIssued, RedeemedGone, OneLoginPerCode, Stamp

(* Time moves on, requests are answered or given up: what is known of the  *)
(* codes does not change.                                                  *)
LEMMA KnownStays ==
    ASSUME IInv, issued' = issued, clock' \in Nat, clock <= clock',
           sending' \cup mailed' \subseteq sending \cup mailed,
           \A u \in Slot :
              \/ ask'[u] = NoAsk
              \/ ask'[u] = ask[u] /\ (pc'[u] = "waiting" => pc[u] = "waiting")
    PROVE  CodesKnown'
<1>1. sending' \cup mailed' \subseteq DOMAIN issued'
  BY DEF IInv, CodesKnown
<1>2. ASSUME NEW u \in Slot
      PROVE  /\ ask'[u].now <= clock'
             /\ ask'[u].code # 0 => ask'[u].code \in DOMAIN issued'
             /\ ask'[u].code # 0 /\ pc'[u] = "waiting" =>
                   issued'[ask'[u].code].at <= ask'[u].now
  <2>1. CASE ask'[u] = NoAsk
    BY <2>1, NoAskType
  <2>2. CASE ask'[u] = ask[u] /\ (pc'[u] = "waiting" => pc[u] = "waiting")
    <3>1. ask[u].now <= clock /\ ask[u].now \in Nat /\ clock \in Nat
      BY DEF IInv, TypeOK, CodesKnown, Ask
    <3>2. ask'[u].now <= clock'
      BY <2>2, <3>1
    <3> QED BY <2>2, <3>2 DEF IInv, CodesKnown
  <2> QED BY <2>1, <2>2
<1> QED BY <1>1, <1>2 DEF CodesKnown

(* A response is written: its cookie is none, the old one or a fresh one.  *)
LEMMA Answering ==
    ASSUME IInv, NEW t \in Slot, NEW change \in Cookie \cup {NoCookie, Keep},
           Answer(t, change), UNCHANGED <<clock, cookie, ask>>,
           change \in Cookie =>
              change.issued = Stamp(change.minted) /\ change.minted <= clock
    PROVE  /\ pc' \in [Slot -> Labels]
           /\ effect' \in [Slot -> Cookie \cup {NoCookie, Keep}]
           /\ pc'[t] = "answered" /\ effect'[t] = change
           /\ \A u \in Slot : u # t => pc'[u] = pc[u] /\ effect'[u] = effect[u]
           /\ CookiesAsMinted'
           /\ issued' = issued /\ sending' = sending /\ mailed' = mailed => CodesKnown'
<1>1. /\ pc' \in [Slot -> Labels]
      /\ effect' \in [Slot -> Cookie \cup {NoCookie, Keep}]
      /\ pc'[t] = "answered" /\ effect'[t] = change
      /\ \A u \in Slot : u # t => pc'[u] = pc[u] /\ effect'[u] = effect[u]
  BY DEF IInv, TypeOK, Answer, Labels
<1>2. CookiesAsMinted'
  BY <1>1 DEF IInv, CookiesAsMinted, Minted, Stamp
<1>3. ASSUME issued' = issued, sending' = sending, mailed' = mailed PROVE CodesKnown'
  <2>1. clock' \in Nat /\ clock <= clock'
    BY DEF IInv, TypeOK
  <2>2. \A u \in Slot : ask'[u] = ask[u] /\ (pc'[u] = "waiting" => pc[u] = "waiting")
    BY <1>1
  <2>3. sending' \cup mailed' \subseteq sending \cup mailed
    BY <1>3
  <2> QED BY <1>3, <2>1, <2>2, <2>3, KnownStays
<1> QED BY <1>1, <1>2, <1>3

(* The slots a step leaves alone have earned their cookies as before.      *)
LEMMA EarnedStays ==
    ASSUME NEW u \in Slot, CookieEarned(u),
           pc'[u] = pc[u], effect'[u] = effect[u], ask'[u] = ask[u],
           logins' = logins \/ \E id : logins' = Append(logins, id),
           logins \in Seq(Nat)
    PROVE  CookieEarned(u)'
<1>1. CASE logins' = logins
  BY <1>1 DEF CookieEarned
<1>2. ASSUME NEW id, logins' = Append(logins, id) PROVE CookieEarned(u)'
  <2>1. \A i \in DOMAIN logins : i \in DOMAIN logins' /\ logins'[i] = logins[i]
    BY <1>2
  <2> QED BY <2>1 DEF CookieEarned
<1> QED BY <1>1, <1>2

(***************************************************************************)
(* The inductive invariant: the browser, the mail, the process, the clock  *)
(***************************************************************************)
LEMMA SendIInv == ASSUME NEW t \in Slot PROVE IInv /\ Send(t) => IInv'
<1> SUFFICES ASSUME IInv, Send(t) PROVE IInv'
  OBVIOUS
<1>1. BrowserOf(t) \in Browser
  BY DEF Slot, BrowserOf
<1>2. PICK kind \in Kinds : \E code \in mailed \cup {0} :
         ask' = [ask EXCEPT ![t] = [kind |-> kind, code |-> code, now |-> 0,
                                    carried |-> cookie[BrowserOf(t)]]]
  BY DEF Send
<1>3. PICK code \in mailed \cup {0} :
         ask' = [ask EXCEPT ![t] = [kind |-> kind, code |-> code, now |-> 0,
                                    carried |-> cookie[BrowserOf(t)]]]
  BY <1>2
<1>4. /\ pc[t] = "idle" /\ pc' = [pc EXCEPT ![t] = "sent"]
      /\ UNCHANGED <<clock, up, stops, rows, issued, sending, mailed, failed,
                     cookie, effect, logins, loggedOut>>
  BY DEF Send, server, mail, history
<1>5. /\ ask'[t].carried = cookie[BrowserOf(t)]
      /\ ask'[t].code = code /\ ask'[t].now = 0
      /\ \A u \in Slot : u # t => ask'[u] = ask[u]
      /\ ask' \in [Slot -> Ask]
  <2>1. cookie[BrowserOf(t)] \in Cookie \cup {NoCookie} /\ code \in Nat
    BY <1>1 DEF IInv, TypeOK
  <2> QED BY <1>3, <2>1 DEF IInv, TypeOK, Ask
<1>6. TypeOK'
  BY <1>4, <1>5 DEF IInv, TypeOK, Labels
<1>a. CodesKnown'
  <2>1. /\ ask'[t].now <= clock' /\ pc'[t] # "waiting"
        /\ ask'[t].code # 0 => ask'[t].code \in DOMAIN issued
    BY <1>3, <1>4, <1>5 DEF IInv, TypeOK, CodesKnown
  <2>2. \A u \in Slot : u # t => ask'[u] = ask[u] /\ pc'[u] = pc[u]
    BY <1>4, <1>5 DEF IInv, TypeOK
  <2> QED BY <1>4, <2>1, <2>2 DEF IInv, CodesKnown
<1>7. CookiesAsMinted'
  BY <1>1, <1>4, <1>5 DEF IInv, CookiesAsMinted, Minted, Stamp
<1>8. effect[t] = Keep
  BY <1>4 DEF IInv, CookieEarned
<1>9. \A u \in Slot : CookieEarned(u)'
  <2>1. CookieEarned(t)'
    BY <1>4, <1>8 DEF CookieEarned
  <2>2. ASSUME NEW u \in Slot, u # t PROVE CookieEarned(u)'
    <3>1. pc'[u] = pc[u] /\ effect'[u] = effect[u] /\ ask'[u] = ask[u]
      BY <1>4, <1>5, <2>2 DEF IInv, TypeOK
    <3> QED BY <1>4, <3>1, EarnedStays DEF IInv, TypeOK
  <2> QED BY <2>1, <2>2
<1> QED BY <1>4, <1>6, <1>7, <1>9, <1>a, CodesKept DEF IInv

(* A slot that is reset: its response arrived or got lost.                 *)
LEMMA ResetIInv ==
    ASSUME IInv, NEW t \in Slot, Reset(t), TypeOK',
           UNCHANGED <<clock, rows, issued, logins, sending, mailed>>,
           \A b \in Browser : cookie'[b] = cookie[b] \/ cookie'[b] = effect[t]
    PROVE  IInv'
<1>1. /\ effect'[t] = Keep /\ ask'[t] = NoAsk
      /\ \A u \in Slot : u # t =>
            pc'[u] = pc[u] /\ effect'[u] = effect[u] /\ ask'[u] = ask[u]
  BY DEF IInv, TypeOK, Reset
<1>2. CookiesAsMinted'
  BY <1>1, LoginAssumption DEF IInv, CookiesAsMinted, Minted, Stamp, NoAsk
<1>a. CodesKnown'
  <2>1. clock' \in Nat /\ clock <= clock'
    BY DEF IInv, TypeOK
  <2> QED BY <1>1, <2>1, KnownStays
<1>3. \A u \in Slot : CookieEarned(u)'
  <2>1. CookieEarned(t)'
    BY <1>1 DEF CookieEarned
  <2>2. ASSUME NEW u \in Slot, u # t PROVE CookieEarned(u)'
    BY <1>1, <2>2, EarnedStays DEF IInv, TypeOK
  <2> QED BY <2>1, <2>2
<1> QED BY <1>2, <1>3, <1>a, CodesKept DEF IInv

LEMMA ReceiveIInv ==
    ASSUME NEW t \in Slot PROVE IInv /\ (Receive(t) \/ Lose(t)) => IInv'
<1> SUFFICES ASSUME IInv, Receive(t) \/ Lose(t) PROVE IInv'
  OBVIOUS
<1>1. NoAsk \in Ask
  BY NoAskType
<1>2. /\ pc' \in [Slot -> Labels]
      /\ ask' \in [Slot -> Ask]
      /\ effect' \in [Slot -> Cookie \cup {NoCookie, Keep}]
  <2>1. Reset(t)
    BY DEF Receive, Lose
  <2> QED BY <1>1, <2>1 DEF IInv, TypeOK, Reset, Labels
<1>3. BrowserOf(t) \in Browser
  BY DEF Slot, BrowserOf
<1>4. CASE Receive(t)
  <2>1. /\ cookie' \in [Browser -> Cookie \cup {NoCookie}]
        /\ \A b \in Browser : cookie'[b] = cookie[b] \/ cookie'[b] = effect[t]
    BY <1>3, <1>4 DEF IInv, TypeOK, Receive
  <2>2. loggedOut' \subseteq Browser
    BY <1>3, <1>4 DEF IInv, TypeOK, Receive
  <2>3. Reset(t) /\ UNCHANGED <<clock, up, stops, rows, issued, sending, mailed,
                                failed, logins>>
    BY <1>4 DEF Receive, server, mail
  <2>4. TypeOK'
    BY <1>2, <2>1, <2>2, <2>3 DEF IInv, TypeOK
  <2> QED BY <2>1, <2>3, <2>4, ResetIInv
<1>5. CASE Lose(t)
  <2>1. Reset(t) /\ UNCHANGED <<clock, up, stops, rows, issued, sending, mailed,
                                failed, cookie, logins, loggedOut>>
    BY <1>5 DEF Lose, server, mail, history
  <2>2. TypeOK'
    BY <1>2, <2>1 DEF IInv, TypeOK
  <2> QED BY <2>1, <2>2, ResetIInv
<1> QED BY <1>4, <1>5

(* The mail goroutines, the process and the clock touch no code, no cookie *)
(* and no request; time only moves on.                                     *)
LEMMA AroundIInv ==
    IInv /\ (Tick \/ Start \/ Mail \/ UNCHANGED vars) => IInv'
<1> SUFFICES ASSUME IInv, Tick \/ Start \/ Mail \/ UNCHANGED vars
             PROVE  IInv'
  OBVIOUS
<1>1. /\ UNCHANGED <<rows, issued, cookie, pc, ask, effect, logins, loggedOut>>
      /\ clock' \in Nat /\ clock <= clock'
  BY DEF IInv, TypeOK, Tick, Start, Mail, MailArrives, MailFails, vars,
         server, mail, history
<1>2. stops' \in Nat /\ up' \in BOOLEAN
  <2>1. stops \in Nat /\ up \in BOOLEAN
    BY DEF IInv, TypeOK
  <2>2. stops' = stops \/ stops' = stops + 1
    BY DEF Tick, Start, Mail, MailArrives, MailFails, vars, server
  <2>3. up' = up \/ up' = TRUE \/ up' = FALSE
    BY DEF Tick, Start, Mail, MailArrives, MailFails, vars, server
  <2>4. up' \in BOOLEAN
    BY <2>1, <2>3, Zenon
  <2> QED BY <2>1, <2>2, <2>4
<1>3. sending' \in SUBSET Nat /\ mailed' \in SUBSET Nat /\ failed' \in SUBSET Nat
  BY DEF IInv, TypeOK, Tick, Start, Mail, MailArrives, MailFails, vars,
         server, mail
<1>4. TypeOK'
  BY <1>1, <1>2, <1>3 DEF IInv, TypeOK
<1>5. clock \in Nat /\ issued \in Seq([player : Player, at : Nat])
  BY DEF IInv, TypeOK
<1>6. CodesAsIssued'
  <2> DEFINE T == [player : Player, at : Nat]
  <2>1. \A i \in DOMAIN issued : issued[i] \in T
    BY <1>5, Elements
  <2> QED BY <1>1, <1>5, <2>1 DEF IInv, CodesAsIssued, Stamp
<1>a. CodesKnown'
  <2>1. sending' \cup mailed' \subseteq sending \cup mailed
    BY DEF Tick, Start, Mail, MailArrives, MailFails, vars, server, mail
  <2> QED BY <1>1, <2>1, KnownStays
<1>7. RedeemedGone' /\ OneLoginPerCode'
  BY <1>1 DEF IInv, RedeemedGone, OneLoginPerCode
<1>8. CookiesAsMinted'
  <2>1. \A ck \in Cookie : ck.minted \in Nat
    BY DEF Cookie
  <2> QED BY <1>1, <1>5, <2>1 DEF IInv, CookiesAsMinted, Minted, Stamp
<1>9. \A t \in Slot : CookieEarned(t)'
  BY <1>1 DEF IInv, CookieEarned
<1> QED BY <1>4, <1>6, <1>7, <1>8, <1>9, <1>a DEF IInv

(* A shutdown cuts off the handlers that wait for the store.               *)
LEMMA StopIInv == IInv /\ Stop => IInv'
<1> SUFFICES ASSUME IInv, Stop PROVE IInv'
  OBVIOUS
<1>1. /\ UNCHANGED <<clock, rows, issued, mailed, failed, cookie, effect, logins,
                     loggedOut>>
      /\ sending' = {} /\ up' = FALSE /\ stops' = stops + 1
  BY DEF Stop, history
<1>2. /\ pc' \in [Slot -> Labels] /\ ask' \in [Slot -> Ask]
      /\ \A u \in Slot : pc'[u] # "waiting"
      /\ \A u \in Slot : IF pc[u] = "waiting"
                           THEN ask'[u] = NoAsk
                           ELSE pc'[u] = pc[u] /\ ask'[u] = ask[u]
  BY NoAskType DEF IInv, TypeOK, Stop, Labels
<1>3. TypeOK'
  <2>1. clock' \in Nat /\ stops' \in Nat
    BY <1>1 DEF IInv, TypeOK
  <2>2. up' \in BOOLEAN
    BY <1>1, Zenon
  <2>3. sending' \in SUBSET Nat
    BY <1>1
  <2> QED BY <1>1, <1>2, <2>1, <2>2, <2>3 DEF IInv, TypeOK
<1>4. CodesKnown'
  <2>1. clock' \in Nat /\ clock <= clock'
    BY <1>1 DEF IInv, TypeOK
  <2> QED BY <1>1, <1>2, <2>1, KnownStays
<1>5. CookiesAsMinted'
  BY <1>1, <1>2, NoAskType, LoginAssumption DEF IInv, CookiesAsMinted, Minted, Stamp
<1>6. \A u \in Slot : CookieEarned(u)'
  <2> SUFFICES ASSUME NEW u \in Slot PROVE CookieEarned(u)'
    OBVIOUS
  <2>1. CASE pc[u] = "waiting"
    BY <1>1, <2>1 DEF IInv, CookieEarned
  <2>2. CASE pc[u] # "waiting"
    BY <1>1, <1>2, <2>2 DEF IInv, CookieEarned
  <2> QED BY <2>1, <2>2
<1> QED BY <1>1, <1>3, <1>4, <1>5, <1>6, CodesKept DEF IInv

(***************************************************************************)
(* The inductive invariant: the handlers                                   *)
(***************************************************************************)

(* A response that leaves the codes and the cookie alone, or clears it.    *)
LEMMA PlainAnswerIInv ==
    ASSUME IInv, NEW t \in Slot, NEW change \in {NoCookie, Keep}, Answer(t, change),
           UNCHANGED <<clock, up, stops, rows, issued, sending, mailed, failed,
                       cookie, ask, logins, loggedOut>>
    PROVE  IInv'
<1>1. change \notin Cookie
  BY LoginAssumption
<1>2. /\ pc' \in [Slot -> Labels]
      /\ effect' \in [Slot -> Cookie \cup {NoCookie, Keep}]
      /\ pc'[t] = "answered" /\ effect'[t] = change
      /\ \A u \in Slot : u # t => pc'[u] = pc[u] /\ effect'[u] = effect[u]
      /\ CookiesAsMinted'
  BY <1>1, Answering
<1>3. TypeOK'
  BY <1>2 DEF IInv, TypeOK
<1>4. \A u \in Slot : CookieEarned(u)'
  <2>1. CookieEarned(t)'
    BY <1>2 DEF CookieEarned
  <2>2. ASSUME NEW u \in Slot, u # t PROVE CookieEarned(u)'
    BY <1>2, <2>2, EarnedStays DEF IInv, TypeOK
  <2> QED BY <2>1, <2>2
<1>5. CodesKnown'
  BY <1>1, Answering
<1> QED BY <1>2, <1>3, <1>4, <1>5, CodesKept DEF IInv

LEMMA PlainIInv ==
    ASSUME NEW t \in Slot
    PROVE  IInv /\ (TurnAway(t) \/ Logout(t) \/ RequestNoCode(t) \/ LoginFails(t))
             => IInv'
BY PlainAnswerIInv DEF TurnAway, Logout, RequestNoCode, LoginFails, server, mail,
                       history

LEMMA ServePageIInv == ASSUME NEW t \in Slot PROVE IInv /\ ServePage(t) => IInv'
<1> SUFFICES ASSUME IInv, ServePage(t) PROVE IInv'
  OBVIOUS
<1> DEFINE fresh == Fresh(ask[t].carried.player)
<1>1. /\ ask[t].carried # NoCookie /\ Answer(t, fresh)
      /\ UNCHANGED <<clock, up, stops, rows, issued, sending, mailed, failed,
                     cookie, ask, logins, loggedOut>>
  BY DEF ServePage, ValidSession, server, mail, history
<1>2. clock \in Nat
  BY DEF IInv, TypeOK
<1>3. /\ fresh \in Cookie /\ fresh.minted = clock
      /\ fresh.issued = Stamp(clock)
  BY <1>1, <1>2, CarriedCookie, FreshCookie
<1> HIDE DEF fresh
<1>4. /\ pc' \in [Slot -> Labels]
      /\ effect' \in [Slot -> Cookie \cup {NoCookie, Keep}]
      /\ pc'[t] = "answered" /\ effect'[t] = fresh
      /\ \A u \in Slot : u # t => pc'[u] = pc[u] /\ effect'[u] = effect[u]
      /\ CookiesAsMinted'
  BY <1>1, <1>2, <1>3, Answering
<1>5. TypeOK'
  BY <1>1, <1>4 DEF IInv, TypeOK
<1>6. \A u \in Slot : CookieEarned(u)'
  <2>1. CookieEarned(t)'
    BY <1>1, <1>4 DEF CookieEarned
  <2>2. ASSUME NEW u \in Slot, u # t PROVE CookieEarned(u)'
    BY <1>1, <1>4, <2>2, EarnedStays DEF IInv, TypeOK
  <2> QED BY <2>1, <2>2
<1>7. CodesKnown'
  BY <1>1, <1>2, <1>3, Answering
<1> QED BY <1>1, <1>4, <1>5, <1>6, <1>7, CodesKept DEF IInv

(* The clock is read once the code was issued, mailed and typed in.        *)
LEMMA CallStoreIInv == ASSUME NEW t \in Slot PROVE IInv /\ CallStore(t) => IInv'
<1> SUFFICES ASSUME IInv, CallStore(t) PROVE IInv'
  OBVIOUS
<1>1. /\ pc[t] = "sent" /\ pc' = [pc EXCEPT ![t] = "waiting"]
      /\ ask' = [ask EXCEPT ![t].now = clock]
      /\ UNCHANGED <<clock, up, stops, rows, issued, sending, mailed, failed,
                     cookie, effect, logins, loggedOut>>
  BY DEF CallStore, Handle, server, mail, history
<1>2. clock \in Nat /\ ask[t] \in Ask
  BY DEF IInv, TypeOK
<1>3. /\ ask'[t].now = clock /\ ask'[t].code = ask[t].code
      /\ ask'[t].carried = ask[t].carried /\ ask'[t] \in Ask
      /\ \A u \in Slot : u # t => ask'[u] = ask[u] /\ pc'[u] = pc[u]
  BY <1>1, <1>2 DEF IInv, TypeOK, Ask
<1>4. TypeOK'
  <2>1. ask' \in [Slot -> Ask]
    BY <1>1, <1>2, <1>3 DEF IInv, TypeOK
  <2> QED BY <1>1, <2>1 DEF IInv, TypeOK, Labels
<1>5. CodesKnown'
  <2>1. /\ ask'[t].now <= clock'
        /\ ask'[t].code # 0 => /\ ask'[t].code \in DOMAIN issued
                               /\ issued[ask'[t].code].at <= ask'[t].now
    BY <1>1, <1>2, <1>3 DEF IInv, CodesKnown, CodesAsIssued
  <2> QED BY <1>1, <1>3, <2>1 DEF IInv, CodesKnown
<1>6. CookiesAsMinted'
  BY <1>1, <1>3 DEF IInv, CookiesAsMinted, Minted, Stamp
<1>7. effect[t] = Keep
  BY <1>1 DEF IInv, CookieEarned
<1>8. \A u \in Slot : CookieEarned(u)'
  BY <1>1, <1>3, <1>7 DEF IInv, CookieEarned
<1> QED BY <1>1, <1>4, <1>5, <1>6, <1>8, CodesKept DEF IInv

(* A new code: its row is the next id's, the others are as they were.      *)
LEMMA RequestCodeIInv ==
    ASSUME NEW t \in Slot PROVE IInv /\ RequestCode(t) => IInv'
<1> SUFFICES ASSUME IInv, RequestCode(t) PROVE IInv'
  OBVIOUS
<1> DEFINE n == Len(issued) + 1
           now == ask[t].now
<1>1. PICK p \in Player :
         /\ issued' = Append(issued, [player |-> p, at |-> now])
         /\ rows' = Unexpired(now) \cup {[id |-> Len(issued'), player |-> p,
                                     issued |-> Stamp(now)]}
  BY DEF RequestCode
<1>2. /\ sending' = sending \cup {Len(issued')} /\ Answer(t, Keep)
      /\ UNCHANGED <<clock, up, stops, mailed, failed, cookie, ask, logins, loggedOut>>
  BY DEF RequestCode, server, history
<1>3. /\ clock \in Nat /\ now \in Nat /\ now <= clock /\ Stamp(now) \in Nat
      /\ rows \subseteq CodeRow
      /\ issued \in Seq([player : Player, at : Nat]) /\ logins \in Seq(Nat)
  BY StampCut DEF IInv, TypeOK, Ask, CodesKnown
<1> HIDE DEF now
<1>4. /\ [player |-> p, at |-> now] \in [player : Player, at : Nat]
      /\ Len(issued) \in Nat /\ n \in Nat
      /\ DOMAIN issued = 1..Len(issued)
  BY <1>3
<1>5. /\ issued' \in Seq([player : Player, at : Nat])
      /\ Len(issued') = n /\ DOMAIN issued' = 1..n
      /\ \A i \in 1..Len(issued) : issued'[i] = issued[i]
      /\ issued'[n] = [player |-> p, at |-> now]
  BY <1>1, <1>3, <1>4
<1>6. [id |-> n, player |-> p, issued |-> Stamp(now)] \in CodeRow
  BY <1>3, <1>4 DEF CodeRow
<1>7. \A r \in rows' :
         \/ r \in rows
         \/ r.id = n /\ r.player = p /\ r.issued = Stamp(now)
  BY <1>1, <1>5 DEF Unexpired
<1>8. /\ pc' \in [Slot -> Labels]
      /\ effect' \in [Slot -> Cookie \cup {NoCookie, Keep}]
      /\ pc'[t] = "answered" /\ effect'[t] = Keep
      /\ \A u \in Slot : u # t => pc'[u] = pc[u] /\ effect'[u] = effect[u]
      /\ CookiesAsMinted'
  BY <1>2, Answering, LoginAssumption
<1>9. TypeOK'
  <2>1. rows' \subseteq CodeRow
    BY <1>1, <1>3, <1>5, <1>6 DEF Unexpired
  <2>2. sending' \in SUBSET Nat
    BY <1>2, <1>4, <1>5 DEF IInv, TypeOK
  <2> QED BY <1>2, <1>5, <1>8, <2>1, <2>2 DEF IInv, TypeOK
<1> HIDE DEF n
<1>10. CodesAsIssued'
  <2>1. \A i \in DOMAIN issued' : issued'[i].at <= clock'
    <3>1. \A i \in 1..n : i \in 1..Len(issued) \/ i = n
      BY <1>4 DEF n
    <3> QED BY <1>2, <1>3, <1>4, <1>5, <3>1 DEF IInv, CodesAsIssued
  <2>2. ASSUME NEW r \in rows'
        PROVE  /\ r.id \in DOMAIN issued' /\ r.player = issued'[r.id].player
               /\ r.issued = Stamp(issued'[r.id].at)
    <3>1. CASE r \in rows
      <4>1. /\ r.id \in 1..Len(issued) /\ r.player = issued[r.id].player
            /\ r.issued = Stamp(issued[r.id].at)
        BY <1>4, <3>1 DEF IInv, CodesAsIssued
      <4>2. r.id \in 1..n /\ issued'[r.id] = issued[r.id]
        BY <1>4, <1>5, <4>1 DEF n
      <4> QED BY <1>5, <4>1, <4>2
    <3>2. CASE r.id = n /\ r.player = p /\ r.issued = Stamp(now)
      <4>1. n \in 1..n
        BY <1>4 DEF n
      <4> QED BY <1>5, <3>2, <4>1
    <3> QED BY <1>7, <3>1, <3>2
  <2> QED BY <2>1, <2>2 DEF CodesAsIssued, Stamp
<1>11. RedeemedGone' /\ OneLoginPerCode'
  <2>1. ASSUME NEW i \in DOMAIN logins
        PROVE  logins[i] \in DOMAIN issued' /\ \A r \in rows' : r.id # logins[i]
    <3>1. logins[i] \in 1..Len(issued) /\ \A r \in rows : r.id # logins[i]
      BY <1>4 DEF IInv, RedeemedGone
    <3>2. logins[i] \in 1..n /\ logins[i] # n
      BY <1>4, <3>1 DEF n
    <3> QED BY <1>5, <1>7, <3>1, <3>2
  <2> QED BY <1>2, <2>1 DEF IInv, RedeemedGone, OneLoginPerCode
<1>12. \A u \in Slot : CookieEarned(u)'
  <2>1. CookieEarned(t)'
    BY <1>8 DEF CookieEarned
  <2>2. ASSUME NEW u \in Slot, u # t PROVE CookieEarned(u)'
    BY <1>2, <1>8, <2>2, EarnedStays DEF IInv, TypeOK
  <2> QED BY <2>1, <2>2
<1>13. CodesKnown'
  <2>1. sending' \cup mailed' \subseteq DOMAIN issued'
    BY <1>2, <1>4, <1>5 DEF IInv, CodesKnown, n
  <2>2. ASSUME NEW u \in Slot
        PROVE  /\ ask'[u].now <= clock'
               /\ ask'[u].code # 0 => ask'[u].code \in DOMAIN issued'
               /\ ask'[u].code # 0 /\ pc'[u] = "waiting" =>
                     issued'[ask'[u].code].at <= ask'[u].now
    <3>1. pc'[u] = "waiting" => pc[u] = "waiting"
      BY <1>8
    <3>2. ask[u].code # 0 => ask[u].code \in 1..n
                             /\ issued'[ask[u].code] = issued[ask[u].code]
      BY <1>4, <1>5 DEF IInv, CodesKnown, n
    <3> QED BY <1>2, <1>5, <3>1, <3>2 DEF IInv, CodesKnown
  <2> QED BY <2>1, <2>2 DEF CodesKnown
<1> QED BY <1>8, <1>9, <1>10, <1>11, <1>12, <1>13 DEF IInv

(* A code is redeemed: its only row leaves the file with the write.        *)
LEMMA LoginIInv == ASSUME NEW t \in Slot PROVE IInv /\ Login(t) => IInv'
<1> SUFFICES ASSUME IInv, Login(t) PROVE IInv'
  OBVIOUS
<1>1. PICK r \in Matching(ask[t].code, ask[t].now) :
         /\ rows' = WithoutRedeemed(r, ask[t].now) /\ logins' = Append(logins, r.id)
         /\ Answer(t, Fresh(r.player))
  BY DEF Login
<1>2. UNCHANGED <<clock, up, stops, issued, sending, mailed, failed, cookie, ask,
                  loggedOut>>
  BY DEF Login, server, mail
<1>3. /\ r \in rows /\ r.id = ask[t].code
      /\ clock \in Nat /\ rows \subseteq CodeRow /\ logins \in Seq(Nat)
  BY DEF Matching, IInv, TypeOK
<1>4. r.id \in Nat /\ r.player \in Player
  BY <1>3 DEF CodeRow
<1>5. /\ Len(logins) \in Nat /\ DOMAIN logins = 1..Len(logins)
      /\ DOMAIN logins' = 1..(Len(logins) + 1) /\ logins' \in Seq(Nat)
      /\ \A i \in 1..Len(logins) : logins'[i] = logins[i]
      /\ logins'[Len(logins) + 1] = r.id
  BY <1>1, <1>3, <1>4
<1>6. \A i \in 1..(Len(logins) + 1) : i \in 1..Len(logins) \/ i = Len(logins) + 1
  BY <1>5
<1> DEFINE fresh == Fresh(r.player)
<1>7. fresh \in Cookie /\ fresh.minted = clock /\ fresh.issued = Stamp(clock)
  BY <1>3, <1>4, FreshCookie
<1>8. Answer(t, fresh)
  BY <1>1
<1> HIDE DEF fresh
<1>9. /\ pc' \in [Slot -> Labels]
      /\ effect' \in [Slot -> Cookie \cup {NoCookie, Keep}]
      /\ pc'[t] = "answered" /\ effect'[t] = fresh
      /\ \A u \in Slot : u # t => pc'[u] = pc[u] /\ effect'[u] = effect[u]
      /\ CookiesAsMinted'
  BY <1>2, <1>3, <1>7, <1>8, Answering
<1>10. rows' \subseteq rows /\ \A q \in rows' : q.id # r.id
  <2>1. rows' \subseteq rows /\ r \notin rows'
    BY <1>1 DEF WithoutRedeemed, Unexpired
  <2> QED BY <1>3, <2>1, RowsByCode
<1>11. TypeOK'
  BY <1>2, <1>3, <1>5, <1>9, <1>10 DEF IInv, TypeOK
<1>12. CodesAsIssued'
  BY <1>2, <1>10 DEF IInv, CodesAsIssued, Stamp
<1>13. r.id \in DOMAIN issued /\ \A i \in DOMAIN logins : logins[i] # r.id
  BY <1>3 DEF IInv, CodesAsIssued, RedeemedGone
<1>14. RedeemedGone'
  BY <1>2, <1>5, <1>6, <1>10, <1>13 DEF IInv, RedeemedGone
<1>15. OneLoginPerCode'
  BY <1>5, <1>6, <1>13 DEF IInv, OneLoginPerCode
<1>16. \A u \in Slot : CookieEarned(u)'
  <2>1. CookieEarned(t)'
    <3>1. Len(logins) + 1 \in DOMAIN logins' /\ logins'[Len(logins) + 1] = ask'[t].code
      BY <1>2, <1>3, <1>5
    <3> QED BY <1>9, <3>1 DEF CookieEarned
  <2>2. ASSUME NEW u \in Slot, u # t PROVE CookieEarned(u)'
    BY <1>1, <1>2, <1>3, <1>9, <2>2, EarnedStays DEF IInv
  <2> QED BY <2>1, <2>2
<1>17. CodesKnown'
  BY <1>2, <1>3, <1>7, <1>8, Answering
<1> QED BY <1>9, <1>11, <1>12, <1>14, <1>15, <1>16, <1>17 DEF IInv

LEMMA NextIInv == IInv /\ [Next]_vars => IInv'
<1> SUFFICES ASSUME IInv, [Next]_vars PROVE IInv'
  OBVIOUS
<1>1. ASSUME NEW t \in Slot, Send(t) \/ Respond(t) \/ Receive(t) \/ Lose(t)
      PROVE  IInv'
  BY <1>1, SendIInv, ReceiveIInv, PlainIInv, ServePageIInv, CallStoreIInv,
     RequestCodeIInv, LoginIInv DEF Respond
<1> QED BY <1>1, AroundIInv, StopIInv DEF Next

(***************************************************************************)
(* Theorems                                                                *)
(***************************************************************************)

(* In every reachable state the rows on file are codes that were issued    *)
(* and not yet redeemed, every cookie was minted by the server's clock,    *)
(* and a response sets one only for a session or a redeemed code           *)
(* (RequestLoginCode, ConsumeLoginCode, IssueSessionCookie, requireSession)*)
THEOREM SessionInvariant == Spec => []IInv
BY InitIInv, NextIInv, PTL DEF Spec

(* A login code starts one session, however many requests carry it.        *)
THEOREM CodesAreUsedOnce == Spec => []OneLoginPerCode
BY SessionInvariant, PTL DEF IInv

(* A page is served or turned away.                                        *)
LEMMA ServedBy ==
    ASSUME Next, NEW t \in Slot, Served(t), TypeOK
    PROVE  \/ ServePage(t) /\ effect'[t] = Fresh(ask[t].carried.player)
           \/ TurnAway(t) /\ effect'[t] = Keep
<1>1. PICK u \in Slot : Send(u) \/ Respond(u) \/ Receive(u) \/ Lose(u)
  BY DEF Next, Served, Tick, Stop, Start, Mail, MailArrives, MailFails
<1>2. CASE Send(u) \/ Receive(u) \/ Lose(u)
  BY <1>2 DEF Served, Send, Receive, Lose, Reset, TypeOK
<1>3. CASE Respond(u)
  <2>1. u = t
    BY <1>3 DEF Respond, ServePage, TurnAway, Logout, CallStore, RequestCode, RequestNoCode, Login,
                LoginFails, Answer, Served, TypeOK
  <2>2. ServePage(t) \/ TurnAway(t)
    BY <1>3, <2>1 DEF Respond, Served, Logout, RequestCode, RequestNoCode, Login,
                      LoginFails, CallStore, Handle, Enter
  <2> QED BY <2>2 DEF ServePage, TurnAway, Answer, TypeOK
<1> QED BY <1>1, <1>2, <1>3

(* No page is served on a cookie issued longer ago than the idle timeout,  *)
(* to the instant, although its stamp has lost the fraction of a second.   *)
THEOREM SessionsExpire == Spec => IdleSessionsEnd
<1>1. IInv /\ [Next]_vars =>
        [\A t \in Slot : Served(t) /\ effect'[t] # Keep =>
           clock - ask[t].carried.minted <= IdleTimeout]_vars
  <2> SUFFICES ASSUME IInv, Next, NEW t \in Slot, Served(t), effect'[t] # Keep
               PROVE  clock - ask[t].carried.minted <= IdleTimeout
    OBVIOUS
  <2>1. ServePage(t)
    BY ServedBy DEF IInv
  <2>2. /\ ask[t].carried # NoCookie
        /\ clock - ask[t].carried.issued <= IdleTimeout
    BY <2>1 DEF ServePage, ValidSession
  <2>3. ask[t].carried.minted \in Nat
        /\ ask[t].carried.issued = Stamp(ask[t].carried.minted)
    BY <2>2, CarriedCookie
  <2>4. clock \in Nat /\ IdleTimeout \in Nat
    BY LoginAssumption DEF IInv, TypeOK
  <2>5. Stamp(ask[t].carried.minted) \in Nat
        /\ Stamp(ask[t].carried.minted) <= ask[t].carried.minted
    BY <2>3, StampCut
  <2> QED BY <2>2, <2>3, <2>4, <2>5
<1> QED BY <1>1, SessionInvariant, PTL DEF Spec, IdleSessionsEnd

(* A session used within the idle timeout, less the fraction of a second   *)
(* its stamp has lost, is never turned away.                               *)
THEOREM SessionsStayWhileUsed == Spec => ActiveSessionsKept
<1>1. IInv /\ [Next]_vars =>
        [\A t \in Slot :
           Served(t) /\ effect'[t] = Keep /\ ask[t].carried # NoCookie =>
             clock - ask[t].carried.minted > IdleTimeout - (TicksPerSecond - 1)]_vars
  <2> SUFFICES ASSUME IInv, Next, NEW t \in Slot, Served(t), effect'[t] = Keep,
                      ask[t].carried # NoCookie
               PROVE  clock - ask[t].carried.minted > IdleTimeout - (TicksPerSecond - 1)
    OBVIOUS
  <2> DEFINE minted == ask[t].carried.minted
  <2>1. /\ ask[t].carried.player \in Player /\ minted \in Nat
        /\ ask[t].carried.issued = Stamp(minted) /\ minted <= clock
    BY CarriedCookie
  <2>2. clock \in Nat /\ IdleTimeout \in Nat /\ TicksPerSecond \in Nat
    BY LoginAssumption DEF IInv, TypeOK
  <2>3. TurnAway(t)
    BY <2>1, <2>2, ServedBy, FreshCookie DEF IInv
  <2>4. ~(clock - Stamp(minted) >= 0 /\ clock - Stamp(minted) <= IdleTimeout)
    BY <2>1, <2>3 DEF TurnAway, ValidSession
  <2>5. /\ Stamp(minted) \in Nat /\ Stamp(minted) <= minted
        /\ minted - Stamp(minted) <= TicksPerSecond - 1
    BY <2>1, StampCut
  <2> HIDE DEF minted
  <2>6. clock - minted > IdleTimeout - (TicksPerSecond - 1)
    BY <2>1, <2>2, <2>4, <2>5
  <2> QED BY <2>6 DEF minted
<1> QED BY <1>1, SessionInvariant, PTL DEF Spec, ActiveSessionsKept

(* A browser that has no session gets one by redeeming a code, or from a   *)
(* page it had asked for while it still had one.                           *)
THEOREM SessionsAreEarned == Spec => SessionsComeFromLogins
<1>1. IInv /\ [Next]_vars =>
        [\A b \in Browser : cookie[b] = NoCookie /\ cookie'[b] # NoCookie =>
           \E t \in Slot : /\ BrowserOf(t) = b
                           /\ pc[t] = "answered" /\ pc'[t] = "idle"
                           /\ \/ \E i \in DOMAIN logins : logins[i] = ask[t].code
                              \/ ask[t].carried # NoCookie]_vars
  <2> SUFFICES ASSUME IInv, Next, NEW b \in Browser, cookie[b] = NoCookie,
                      cookie'[b] # NoCookie
               PROVE  \E t \in Slot :
                        /\ BrowserOf(t) = b
                        /\ pc[t] = "answered" /\ pc'[t] = "idle"
                        /\ \/ \E i \in DOMAIN logins : logins[i] = ask[t].code
                           \/ ask[t].carried # NoCookie
    OBVIOUS
  <2>1. PICK t \in Slot : Send(t) \/ Respond(t) \/ Receive(t) \/ Lose(t)
    BY DEF Next, Tick, Stop, Start, Mail, MailArrives, MailFails
  <2>2. Receive(t)
    BY <2>1 DEF Send, Respond, Lose, ServePage, TurnAway, Logout, CallStore, RequestCode,
                RequestNoCode, Login, LoginFails
  <2>3. pc[t] = "answered" /\ pc'[t] = "idle"
    BY <2>2 DEF Receive, Reset, IInv, TypeOK
  <2>4. BrowserOf(t) = b /\ effect[t] # Keep /\ effect[t] # NoCookie
    BY <2>2 DEF Receive, IInv, TypeOK
  <2>5. \/ ask[t].carried # NoCookie
        \/ \E i \in DOMAIN logins : logins[i] = ask[t].code
    BY <2>4 DEF IInv, CookieEarned
  <2> QED BY <2>3, <2>4, <2>5
<1> QED BY <1>1, SessionInvariant, PTL DEF Spec, SessionsComeFromLogins

(* A code starts a session only when it was typed in within its validity,  *)
(* by the exact instant of its issue and whatever the lock was waited for, *)
(* and only a session of the player it was issued to.                      *)
THEOREM CodesExpire == Spec => LoginsInTime
<1>1. IInv /\ [Next]_vars =>
        [logins' # logins =>
           \E t \in Slot :
              LET id == ask[t].code
              IN  /\ logins' = Append(logins, id)
                  /\ issued[id].at <= ask[t].now
                  /\ ask[t].now - issued[id].at <= Validity
                  /\ effect'[t] # effect[t]
                  /\ effect'[t].player = issued[id].player]_vars
  <2> SUFFICES ASSUME IInv, Next, logins' # logins
               PROVE  \E t \in Slot :
                        /\ logins' = Append(logins, ask[t].code)
                        /\ issued[ask[t].code].at <= ask[t].now
                        /\ ask[t].now - issued[ask[t].code].at <= Validity
                        /\ effect'[t] # effect[t]
                        /\ effect'[t].player = issued[ask[t].code].player
    OBVIOUS
  <2>1. PICK t \in Slot : Login(t)
    <3>1. PICK t \in Slot : Send(t) \/ Respond(t) \/ Receive(t) \/ Lose(t)
      BY DEF Next, Tick, Stop, Start, Mail, MailArrives, MailFails, history
    <3> QED BY <3>1 DEF Send, Respond, Receive, Lose, ServePage, TurnAway, Logout,
                        CallStore, RequestCode, RequestNoCode, LoginFails, history
  <2> DEFINE id == ask[t].code
             now == ask[t].now
  <2>2. PICK r \in Matching(id, now) :
           logins' = Append(logins, r.id) /\ Answer(t, Fresh(r.player))
    BY <2>1 DEF Login
  <2>3. /\ clock \in Nat /\ Validity \in Nat /\ rows \subseteq CodeRow /\ now \in Nat
        /\ effect \in [Slot -> Cookie \cup {NoCookie, Keep}]
        /\ issued \in Seq([player : Player, at : Nat])
    BY LoginAssumption DEF IInv, TypeOK, Ask
  <2>4. r \in rows /\ r.id = id /\ now - r.issued <= Validity /\ r.player \in Player
    BY <2>2, <2>3 DEF Matching, Live, CodeRow
  <2>5. id \in DOMAIN issued /\ r.player = issued[id].player
        /\ r.issued = Stamp(issued[id].at)
    BY <2>4 DEF IInv, CodesAsIssued
  <2>6. id # 0 /\ issued[id].at \in Nat
    <3>1. issued[id] \in [player : Player, at : Nat]
      BY <2>3, <2>5, Elements
    <3>2. DOMAIN issued = 1..Len(issued)
      BY <2>3
    <3> QED BY <2>5, <3>1, <3>2
  <2>7. issued[id].at <= now
    BY <2>1, <2>6 DEF Login, Enter, IInv, CodesKnown
  <2>8. Stamp(issued[id].at) \in Nat /\ Stamp(issued[id].at) <= issued[id].at
    BY <2>6, StampCut
  <2> HIDE DEF now
  <2>9. now - issued[id].at <= Validity
    BY <2>3, <2>4, <2>5, <2>6, <2>8
  <2>10. effect'[t] = Fresh(r.player) /\ effect[t] = Keep
    BY <2>1, <2>2, <2>3 DEF Answer, Login, Enter, IInv, CookieEarned
  <2>11. effect'[t].player = issued[id].player /\ effect'[t] # Keep
    BY <2>3, <2>4, <2>5, <2>10, FreshCookie
  <2> QED BY <2>2, <2>4, <2>7, <2>9, <2>10, <2>11 DEF now
<1> QED BY <1>1, SessionInvariant, PTL DEF Spec, LoginsInTime
=============================================================================
