# Fantasy hockey: a TLA+ verification project

A formal model of the fantasy hockey prediction pool: one Go server, a
handful of friends, and one YAML data file that an operator edits by hand while
the server is stopped. The repository's source is the reference for every
definition; paths below are relative to the repository's root.

The modules are checked with TLC on small instances; every safety property of the
passing runs, the refinements among them, is also proved with TLAPS for every value
of the constants: of the store, which everything else relies on, of form submission,
of login and sessions, of the mail sender, of the three pick forms, and of scoring
and the leaderboard. `PROJECT.json` is the
machine-readable index: components, runs, the source lines behind every definition
(`map`), the mutants that show each property can fail, the hazards, the findings
and the theorems.

## Inventory

| Component | Code | State it keeps | Operations | Model |
|---|---|---|---|---|
| Store | `src/internal/store/store.go` | `s.doc` (predictions, login codes) and `s.raw` (the YAML tree) behind `s.mu`; the data file | `New`, `SavePrediction`, `SaveSeriesPick`, `SaveDivisionPicks`, `SaveAwardPicks`, `CreateLoginCode`, `ConsumeLoginCode`, readers | `StoreRows`, `Store`, `DurableStore`, `StoreProofs`, `DurableStoreProofs` |
| Recorded results | `src/internal/store/store_results.go` | none; reads the hand-kept sections | accessors that ignore unusable values, `ResultProblems` | `Scoring`, `SeasonProofs` |
| YAML splice and lenient load | `src/internal/store/store_splice.go` | the yaml.Node tree | replace or append two entries, undo that; refuse or rebuild at load | the top-level mapping, in `StoreRows`, `Store` |
| Login codes and mail | `src/internal/auth/auth.go`, `validate.go` | one goroutine per send | `RequestLoginCode`, `ValidateLoginCode` | `LoginSession`, `LoginSessionProofs`; the send itself in `Mailer` |
| Sessions | `src/internal/auth/session.go` | none on the server; a signed cookie in the browser | issue, validate, clear | `LoginSession`, `LoginSessionProofs` |
| Login, logout, `requireSession` | `src/internal/web/login.go`, `web.go` | none | three POST handlers and a middleware | `LoginSession` |
| Sheet gating and submission | `src/internal/web/sheet.go`, `predict.go` | none between requests | POST `/predict/{id}`, the Predict list | `SheetSubmit`, `SheetSubmitProofs` |
| Divisions form | `sheet_divisions.go`, `roster.go`, `static/divisions.js` | boxes and button in the browser | caps, conference totals, rendering, submission | `DivisionsForm`, `PickSheetsProofs` |
| Awards form | `sheet_awards.go`, `static/awards.js` | texts and hidden slugs in the browser | slot edits, validation, flagging | `AwardsForm`, `PickSheetsProofs` |
| Playoff series form | `sheet_series.go` | radio buttons in the browser | per-series save and rejection | `SeriesForm`, `PickSheetsProofs` |
| Compare tab | `compare*.go` | none | which set or note is shown, which cells are filled | `SheetSubmit` |
| Scoring, standings | `src/internal/scoring`, `src/internal/standings` | none; recomputed per request | `PlayerPoints`, `Rows`, `Leaders` | `Scoring`, `Season`, `FiniteSums`, `SeasonProofs` |
| Mailer | `src/internal/mailer` | the Gmail token cache behind its mutex | send, by SMTP or the Gmail API | `MailPromise`, `Mailer`, `MailerProofs` |
| Clock, observe, server, main | `src/internal/clock`, `observe`, `server`, `src/main.go` | the listener; counters | start, stop, audit | as they affect the above |
| Rendering and assets | `leaderboard.go`, `shell.go`, `rules.go`, templates, CSS, `compare.js` | none | layout | not modelled |

How they interact: `main` opens the store and the server; request goroutines of
`net/http` pass `requireSession`, read the clock once, call the store (which
serialises writers on `s.mu`) and answer. Login codes are saved through the
store, then mailed from a goroutine nobody waits for. Points and ranks are
functions of the store's rows and the recorded results at the moment of a
request. The operator never edits the file while the server runs.

What makes it correct, component by component:

* **Store**: a call is atomic and durable whatever fails; memory equals the file
  whenever no writer is inside; one row per item; a code lets in once; what the
  operator wrote keeps its place in the file.
* **Sheet submission and Compare**: the list, the gate and the Compare tab agree; rows are stamped before
  the deadline; an answer says what was saved; every save is audited; a
  divisions form is all-or-nothing.
* **The pick forms**: the page offers what the server accepts and never paints
  the player into a corner; what is saved is what was shown, and legal for the
  teams, players and matchups as they are now.
* **Mailer**: one mail at most per send, nil only for a mail that went out; a
  token from the cache outlives its send; every Gmail send ends.
* **Sessions**: they start with a code, slide with use, end when idle and end
  with a logout.
* **Scoring and standings**: points follow `docs/game-rules.md` for exactly the
  recorded values no startup warning names; a further result never costs points.

Hard behaviours: a process killed between rename and answer; a write that fails
after memory was changed; a clock reading taken before a lock or a slow body and
used after it; timestamps cut to the second and compared with exact ones;
overlapping requests of one player; responses that arrive after a logout; a
goroutine dying with the process; half-recorded and misspelt results; pages left
open while the operator edits what they show; a mutex held over a request to
Google. The
complete list, each at its line, is `hazards` in `PROJECT.json`.

## The modules

```
StoreRows ── Store ── MCStore          Scoring ── Season ─┬─ MCSeason
    │          │ └─── StoreProofs                         └─ SeasonProofs
    │          │        └─ DurableStoreProofs    FiniteSums ──┘
    └── DurableStore (INSTANCE)
                                       SheetSubmit ─┬─ SheetSubmitProofs
Mailer ── MCMailer                                  └─ MCSheetSubmit
  │ └──── MailerProofs
  └── MailPromise (INSTANCE)           LoginSession ─┬─ LoginSessionProofs
                                                     └─ MCLoginSession
DivisionsForm ─┐
AwardsForm ────┼─ MCPickSheets
SeriesForm ────┴─ PickSheetsProofs
```

### StoreRows, Store, DurableStore

`StoreRows` is the data: a prediction row, a login-code row, the document, and
the pure functions on them (`Upsert`, `Qualifying`, `Redeemable`, `Cleanup`,
`Stamp`, `Spliced`). The tree of a document is its top-level mapping, entry by
entry in the order of the file: `login_codes`, `predictions`, and sections kept by
hand, each standing for its key and the node below it; or no mapping at all, as an
empty file has. A `Key` stands for what a row is looked up by (player and kind, plus
series, division or award), a `Pick` for its payload, a `Code` for a code hash.
Time is counted in ticks, several to a second, because `issued_at` and
`submitted_at` lose the fraction of the second that the caller's `now` still has.

`Store` is the code step by step. A method takes `s.mu`, changes memory, and
`writeLocked` writes a temporary file, renames it and only then replaces the
codes in memory by the pruned ones; on an error each method undoes its own
change in its own way. The rows go into `raw`, the tree read at startup, which is
changed in place: an entry that is there gets a new value where it stands, another is
appended, and a failed write truncates what it appended (`appended` counts it).
The values of the two entries are always those of the typed rows, so the tree
holds keys only.

| Action | Code |
|---|---|
| `Load` | `New` on an existing file: refused with a malformed section or a key twice (`Loadable`), rebuilt when it has no mapping (`Mapped`) |
| `Bootstrap` | `New` on a missing file |
| `Crash`, `Edit` | the process is killed at any step; the operator edits a stopped server's file |
| `Call` | a handler reads `clock.NowTime` and calls; it may wait for `s.mu` |
| `SavePick` | `SavePrediction`, `SaveSeriesPick` up to the write |
| `BeginBatch`, `UpsertNext` | `SaveDivisionPicks`, `SaveAwardPicks`: snapshot, then one upsert per entry of the maps, in Go's order |
| `CreateLoginCode`, `ConsumeLoginCode`, `RejectLoginCode` | the methods of these names up to the write |
| `WriteTemp`, `Rename`, `Commit`, `WriteFails` | `writeLocked` and the methods' returns and error paths |

`DurableStore` is the promise: a table with one row per key, a set of codes,
the sections kept by hand, and calls applied at one instant between call and answer,
entirely or not at all. `Store` implements it (`ImplementsDurableStore`): the
table is read off the data file and the instant is the rename.

### SheetSubmit

POST `/predict/{id}`: `TurnAway` and `Accept` are the gate
(`findOpenablePredictionSet` and the deadline test against the one clock reading
of the request), `ReadFails` the body, `Reject` and `Validate` the form, `Save`
and `SaveFails` the store calls, `Finish` the answer; `Respond` writes the audit
lines on every path. The divisions, awards and single-team handlers make one
store call, even for no rows; the series handler walks the recorded matchups in the
file's order, with a store call for a complete series and `Skip` for any other. Store calls are atomic here, which is what `Store` shows of them.
Form entries are a complete `Pick`, `Blank`, `Half` or `Bad`, all the handlers
tell apart. `Status` and `EffectiveUpcoming` are what `predict.go` shows.
`Comparable`, `CompareChips`, `CompareDefaults` and `Compared` are the Compare tab's
own decision which set, note or nothing an id leads to, `Column` which of its cells
are filled. The code checks phase, deadline and matchups separately in
`predict.go`, `sheet.go` and `compare.go`; `ListAgreesWithGate` relates the three.
`Restart` ends every request and may bring another version of the hand-kept
sections.

### DivisionsForm, AwardsForm, SeriesForm

What `SheetSubmit` takes as valid or not, in full: one page in a browser, with the
script or without it where there is one, and the handler that receives it.
In each module a page carries what it was rendered from; the operator may restart
the server on other teams, players or matchups while it is open.

* `DivisionsForm`: `Toggle` with `Capped` is `applyCaps`, `AllValid` both
  `allConferencesValid` and `updateSubmitState`, `Submission` and `Accepts` the
  handler's parsing and three checks, `Rendered` the page from saved or
  rejected lists. The server counts teams of a division's *field*, the page
  boxes of a conference; that the two agree is `PageMatchesServer`. Of the
  winners remains that a stale page may bring one who is refused (`RejectWinners`).
* `AwardsForm`: `EditText` and `ChooseFinalist` are `awards.js`; validation goes by text
  and slug, saving by slug, the incomplete flag by text, and a rejected
  form is rendered from what was submitted.
* `SeriesForm`: each recorded series is complete, passed over or flagged on its
  own; a failing call leaves any of the complete ones saved. Radio buttons can be
  changed, not cleared.

`MCPickSheets` runs the three one beside the other; they share no state.

### Mailer, MailPromise

`Mailer` is the sender `main` builds: one call of `smtp.SendMail`, or the Gmail
API's send.

| Action | Code |
|---|---|
| `Unset`, `Begin` | `checkSettings`; the context with its deadline |
| `UseCached`, `StartExchange`, `ReceiveToken` | `accessToken`, the mutex held over the exchange |
| `ReceiveStatus`, `DropToken` | `post`, `postOnce`, `dropToken`: only a 401 is tried again, once |
| `RequestFails`, `TimeOut` | errors of `do`, the deadline |
| `Redact` | `redact`, which takes the mutex before any error of a Gmail send is returned, past the deadline too |
| `SmtpDelivers`, `SmtpReturns` | `smtp.SendMail` |
| `Mint`, `Deliver`, `TurnDown`, `Revoke` | Google: external, free to answer anything that is consistent with its tokens, or nothing |
| `DeliverLate` | a message whose send gave up on the answer goes out all the same, or never |

`MailPromise` is what `auth.RequestLoginCode` relies on: at most one mail per
send, and nil only after it went out. An error says nothing: the mail may have gone
out, or go out yet.
`ImplementsMailPromise` is the refinement.

### LoginSession

Browsers with a cookie jar and several overlapping requests; every response
carries a cookie change that takes effect when it *arrives*, in any order, or
never (`Receive`, `Lose`). `ServePage` and `TurnAway` are `requireSession`,
`Logout`, `RequestCode`/`RequestNoCode` and `Login`/`LoginFails` the handlers,
`MailArrives`/`MailFails` the send goroutine, `Stop`/`Start` the process. The two
handlers that write read the clock and then wait for `s.mu` (`CallStore`): a code
is redeemed, or stamped, by that reading however late the lock comes. The store
call itself is one step here. A
signature nobody can forge leaves of a cookie its payload. `minted`, `logins` and
`loggedOut` are history that no action reads; `issued` is history that only numbers
the codes and bounds them.

### Scoring, Season

`Scoring` holds the pure algorithms: which recorded values the accessors use,
what `ResultProblems` reports, what a row scores, how rows are sorted and ranked.
`Season` changes their inputs: players save rows, the operator adds or corrects
one recorded value at a time, right or wrong, within the scope of the
behaviour. It also states the rules a second time, in the terms of `docs/game-rules.md` (`RulePoints`): a value
counts when no startup warning names it, a division winner is 15 instead of 5, and
so on. `PointsFollowTheRules` compares the two in every reachable state. The stable
sort of `standings.Rows` is the one order `Before` allows, the rank of a row a
recursive function of the rows above it, and points are sums over the divisions
and the rows.

## The runs

| Run | What it asks | Instance |
|---|---|---|
| `save` | rows, rollback, acknowledgement and the sections kept by hand, under every write failure, crash and edit | two requests, a team-list key and a winner key, two picks; files with both, one or none of the server's entries, with a malformed section, a key twice, or no mapping |
| `codes` | login codes against saves: one-time use, pruning, the refinement with codes, the inductive invariant `WInv` of the proofs (`IInv` is a part of it), and that every call returns | two requests, all operations, one key, one code, two ticks to a second, validity 2, clock to 3, under `FairSpec` |
| `stale` | violation of `LiveCodesSurvive` | the same instance, under `Spec` |
| `forms` | gate, list, Compare tab, stamps, answers, audit, the inductive invariant of the proofs, and that every submission is answered | six sets (single team, divisions, awards, first round, gated round, listed but not pickable), two versions of the file, one request, under `FairSpec` |
| `race` | two overlapping divisions forms of one player | two requests, two divisions |
| `late` | violation of `ReadOnlyOnceClosed` | a whole-form set and a two-series set, two ticks to a second |
| `sessions` | how sessions start, slide and expire; a code starts one, typed in in time and for its own player, with the store waited for; the inductive invariant of the proofs | one browser, two tabs, two players, one code, two ticks to a second, timeout 2, a restart |
| `logout` | violation of `LogoutEndsSession` | one browser, two tabs |
| `mail` | violation of `EveryCodeSent` | one code, one stop, under `FairSpec` |
| `season` | points against the rules, further results, ranks, the inductive invariant of the proofs | four scopes, one per behaviour: divisions, series, awards with trophies, and three players (two of one name) on the leaderboard |
| `gmail` | the token cache and the promise of a send, the inductive invariant of the proofs, and that every Gmail send ends, failing or not | two sends, both transports, timeout 1, margin 2, tokens of lifetime 3, three tokens, clock to 4, under `FairSpec` |
| `sheets` | page against server on the three pick forms, with the file edited under open pages | eight teams, four divisions, two conferences, cap 2, total 3, two seasons and an empty file; two awards of two slots over four NHL players; two series, two of the games options |

Each pass run finishes and each property of it is violated by a mutant of the
code listed under `mutants`. The mutants stand next to the definition they change,
marked `Mutant:` in its comment.

**Why the bounds are enough.** A rollback goes wrong within one failed write and
one later successful one; lock handover, stale clock readings and double
redemption need two requests; a snapshot of a batch needs two keys, one of each
kind. Two ticks to a second is the least resolution at which cutting the
fraction differs from not cutting it, and the validity is a whole second of two
ticks, so that "exactly as old" and "a tick older" are both reached
(`MaxClock` lies beyond it). A write asks of a tree only whether each of the
server's two entries is there, and the files of `save` have both, none, or one in
front of a section, where a truncation too much shows. Rows of different players share nothing but the
document, which two keys show as well as two players. In `forms` one request
suffices, since each property there is about one request against a changing
clock and file; overlap is the subject of `race`. `Season` explores one part of a
season per behaviour (`Scopes`), since the points of divisions, series, awards and trophies are summed;
one player is enough for points, three for ranks: a tie above, in the middle or
below. In `gmail`, two sends are needed for a wrong drop and for waiting at the
mutex, three tokens for a drop that meets a newer one; the timeout, the
margin and the lifetime are the smallest with margin = 2 x timeout and a token
that is both cached fresh and seen stale. In `sheets`, one division is larger than
the cap and conferences are made of several, so that either count closes a box
first; a team moves between divisions and one between conferences, so that stale
forms are refused or still legal; two slots show duplicates and half-filled
awards, two series partial saves. 5 and 8 of the code are 2 and 3 there, and
parameters of the proofs. The named bounds are `MaxClock`, `MaxCodes`, `MaxStops`,
`MaxTokens` and `Scopes`; issue counts, tokens and clocks stop there, nothing
else is cut off. Symmetry is used only in runs without liveness properties.

**Where the system may stop.** Only `gmail` turns deadlock checking off: each send
is made once, and when all have returned and the clock has reached its bound
nothing is left to do. Elsewhere requests, edits and restarts are always possible.

**Fairness.** `Store` assumes strong fairness of entering `s.mu` (`sync.RWMutex`
hands the lock on to waiters, and a waiter is not always enabled) and weak
fairness of the steps of the goroutine that holds it. `SheetSubmit`
assumes weak fairness of each handler: `net/http` runs it to the end, a body
that never arrives ends with the server's read timeout, and a store call returns,
which is `EveryCallReturns`. `LoginSession` assumes weak fairness of the sends:
Gmail's gives up after ten seconds, which is `EverySendEnds`, and `smtp.SendMail`,
which has no deadline, is assumed to meet a server that answers or hangs up. The
counterexample of `mail` does not depend on that server. `Mailer` assumes that time
passes, that a context that has run out ends its request, and that a
goroutine that can go on goes on; nothing obliges Google to answer, and nothing is
claimed of SMTP. Weak fairness of the mutex suffices there: a send takes it at
most five times (twice for a token, twice for a refused one, once to redact an
error), so a waiter is in the end enabled for good (Go's `sync.Mutex` hands
it on to waiters anyway). No fairness is assumed of players, the
operator, crashes, restarts or the clock.

## What is proved

`StoreProofs` proves with TLAPS, for any number of requests, keys, picks and codes
and any clock resolution and validity, from `DataAssumption` and
`StoreAssumption` alone (distinct special values, `TicksPerSecond` positive and no
longer than the validity):

| Theorem | Property |
|---|---|
| `StoreInvariant` | `[]IInv` |
| `TypeCorrect` | `[]TypeOK` |
| `MemoryIsTheFile` | `[]MemoryMatchesDisk` |
| `OneRowPerKey` | `[]UniqueKeys` |
| `CodesAreOneTime` | `[]OneTimeUse` |
| `HandSectionsKept` | `SectionsKept` |

The argument. `MemoryMatchesDisk` speaks only of moments when nobody is inside a
method, so it is not inductive: whether it holds on return depends on what the error
path restores. The strengthening says, for the request inside, that until the
rename the *undo* of its method would give back exactly the file (`Recoverable`),
that the temporary file and after the rename the data file is the document
being written (`Staged`), and that being inside a method and holding the lock
are the same thing (`LockHeld`). Then a failing write re-establishes equality by
`Recoverable`, a commit by `Staged`, a crash and a load trivially. One row per key
needs `UniqueRows` of memory, which `Upsert` preserves and rollbacks get from the
file. `SectionsKept` needs of every write that what it is about to rename is
what cutting off its additions would leave, extended (`SplicedInWrite`), and of every
failure that exactly these are cut off (the third part of `Recoverable`). One-time use
rests on `CodesDistinct` and `RedeemedGone`: no used code is
ever in the file, and a redeemed id is in neither file nor memory, so no crash
brings one back. The lemmas on `Upsert`, `Cleanup`, `Stamp`,
`Spliced`, `Encoded` and the rollbacks are stated once and cited; the step proof has one
lemma per action.

`DurableStoreProofs` builds on it and proves, from the same assumptions, what
relates the file of one moment to that of the next, and the refinement:

| Theorem | Property |
|---|---|
| `WriteInvariant` | `[]WInv` |
| `NoRowsForced` | `[]NoForcedRows` |
| `RowsKeepTheirPlace` | `RowsStay` |
| `WritesWhatWasAsked` | `OnlyRequestedPicks` |
| `OkMeansOnDisk` | `AcknowledgedOnDisk` |
| `NoCodeLostWithoutCause` | `CodesDroppedForCause` |
| `StoreIsDurable` | `ImplementsDurableStore` |

`IInv` says what a failing write gives back; it does not say that what a succeeding
write puts on disk is what its caller asked for. `WInv` adds that: a holder of the
lock has in memory, row by row, the file with exactly its own upserts so far
(`PicksApplied`, `LeftInBatch`), each row where the file has it (`RowsInPlace`),
and the code it created or marked (`CodesApplied`). `WInv` is checked by run
`codes`. Initial states refine initial states and each step a step or a
stutter: `Load` and `Bootstrap` are `Open`, `Crash` is `Kill`, `Call` is `Ask`,
`Rename` is `Apply`, `Commit` is `Confirm`, `WriteFails` is `Fail`,
`RejectLoginCode` is `Reject`, `Edit` is `Edit`; everything else, every step in
memory among it, is invisible. `CodesDroppedForCause` gives each dropped code a
reason *by the clock reading of the writing call*; that this reading may be an old
one is the finding of run `stale`, and no theorem excludes it.

`SheetSubmitProofs` proves, for any number of players, overlapping requests,
divisions, awards and series, and for every content of the hand-kept sections:

| Theorem | Property |
|---|---|
| `SheetInvariant` | `[]IInv` |
| `PagesAgreeWithGate` | `[]ListAgreesWithGate` |
| `SubmittedIsSaved` | `[]SubmittedMeansSaved` |
| `DivisionsComeFromOneForm` | `[]DivisionsOfOneForm` |
| `RowsAreStampedBeforeDeadline` | `StampedBeforeDeadline` |
| `ResponsesAreTrue` | `AnswerTellsWhatWasSaved` |
| `AuditIsComplete` | `SavedRowsAudited` |

`SheetAssumption` only keeps apart the special values (`NoRow` is no row, `"note"` and
`"nothing"` are no set ids) and asks for a player and a clock. The invariant follows
a request: past the gate it carries a clock reading at which its set was open by
the file the server still runs on (`PastGate`, which a restart ends together with the
request); once validated, what it saved and what it still plans add up to what its
form completes, in one call unless the form is a series form (`OnCourse`); and only
sets with a form have rows, a division winner never without its list
(`RowsOfForms`). `DivisionsOfOneForm` is inductive only with `OnCourse`: a form that
passed validation completes the list of *every* division, so its one call
overwrites all of them.

`LoginSessionProofs` proves, for any number of browsers, tabs, players and codes, any
resolution of the clock, idle timeout and validity, from `LoginAssumption` (the
special values are no cookies):

| Theorem | Property |
|---|---|
| `SessionInvariant` | `[]IInv` |
| `CodesAreUsedOnce` | `[]OneLoginPerCode` |
| `CodesExpire` | `LoginsInTime` |
| `SessionsExpire` | `IdleSessionsEnd` |
| `SessionsStayWhileUsed` | `ActiveSessionsKept` |
| `SessionsAreEarned` | `SessionsComeFromLogins` |

Each row on file is what was issued, its stamp the cut instant of the issue
(`CodesAsIssued`); a code is typed in after its issue and the clock is read later
still (`CodesKnown`), so that the reading a redemption waits with is never one from
before the code; a redeemed code has no row (`RedeemedGone`), and that two rows of
one code are equal makes one redemption enough; every cookie, in a jar, in a
request or in a response still under way, was minted by the server's clock
(`CookiesAsMinted`); a response sets one only for a page asked for with one or a
code that was redeemed (`CookieEarned`). The two bounds on idle sessions are then
arithmetic on the fraction of a second that `Stamp` cuts off: it can only end a session
early, by less than a second.

`MailerProofs` proves, for any number of sends, any timeout, margin, lifetimes and
bounds, from `MailerAssumption`:

| Theorem | Property |
|---|---|
| `MailerInvariant` | `[]IInv` |
| `MarginSuffices` | `[]TokenOutlivesSend` |
| `TokensKept` | `TokensReplacedForCause` |
| `PromiseKept` | `ImplementsMailPromise` |

The assumption is the result: a margin of twice the timeout (one for the exchange
that fetched the token, since the answer's arrival is counted from; one for the send
that takes it from the cache) and tokens that live longer than one send. The code's
30 s, 10 s and Google's hour satisfy it. `IInv` carries the arithmetic along:
`AnswerRecent` for a token on its way, `CachedEarly` for one in the cache,
`DeadlineNear` for every send. `RefusedRevoked` (within its deadline a token is
only refused when revoked) gives `TokensKept`, `MailsCounted` the refinement: only a
send that ended with an error can have a message still under way.

`PickSheetsProofs` proves the three forms for every roster, player list and matchup list
that meets their assumptions (a finite set of teams, and teams of one division in
one conference; each award with a position; sides that are teams):

| Form | Theorem | Property |
|---|---|---|
| `DivisionsForm` | `DivisionsInvariant` | `[]DivisionsIInv` |
| | `PageAgrees` | `[]PageMatchesServer` |
| | `SavedListsAreLegal` | `ListsLegalWhenSaved` |
| | `AlwaysAWayOn` | `[]NoDeadEnd` |
| `AwardsForm` | `AwardsInvariant` | `[]AwardsIInv` |
| | `AwardsAreSavedAsShown` | `AwardsSavedAsShown` |
| `SeriesForm` | `SeriesInvariant` | `[]SeriesIInv` |
| | `SeriesAreSavedAsShown` | `SeriesSavedAsShown` |

For the divisions the heart is a bijection: the server's (division, team) pairs of a
conference and the page's boxes of that conference are equally many, when every
team stands in its own division's field. That a page under the script is within
the caps (`DivisionsIInv`) is needed since its button only looks at
the conferences; the cap survives rendering over another roster because a saved
list is never longer than it. `AlwaysAWayOn` compares the boxes checked with a legal
choice: were every open box of a short conference capped, the choice would have no
more teams than the boxes in any division, hence, mapped one to one division by
division, no more in the conference. For the awards the invariant is that under the script
a slug is empty or that of the visible name; for the series, that a form under way
has no answer yet.

`SeasonProofs` proves, for any divisions, teams, awards, matchups, players and rows,
and for whatever the operator writes where:

| Theorem | Property |
|---|---|
| `SeasonInvariant` | `[]IInv` |
| `PointsAreByTheRules` | `[]PointsFollowTheRules` |
| `RecordingIsAGain` | `RecordingNeverTakesAway` |
| `LeaderboardIsFair` | `[]RanksAreCompetition` |
| `SortHasOneResult` | the order chosen by `Sorted` is the only one `compareRows` allows |

`ScoringAssumption` says that each team has a division, that an empty string is the id
of no team and no NHL player, that divisions are finitely many, `players:` is a list,
and names have an order. `SeasonAssumption` says that a row holds what its kind
takes (`IsRow`: a list or a team), that only players of the list save rows, and that
one part of a season is finite. `IInv` needs no history: one row per item is what
`Without` leaves, and the well-shaped entries of the results are what each edit
writes.

The points are folds over sets, the ranks a recursive function, the order a sort, so
the proofs go by induction. `FiniteSums` gets it from the well-foundedness of strict
inclusion on the subsets of a finite set: a set of subsets takes the place of the
predicate (`FiniteInduction`, `NumberInduction`). From it follow that
`SumFunctionOnSet` has a value and does not depend on the order of the fold, and the
ways to split, group, rename, compare and count a sum. On these rest

* *rules*: `MarksNotWarned`, `TrophyNotWarned`, `SeriesNotWarned` and
  `AwardNotWarned` show for one entry that an accessor ignores it exactly when
  `ResultProblems` names it. A division's picks then equal the sum over its
  teams (`DivisionFollowsRules`): the places where a value of a list is first seen and
  the values correspond one to one (`CountSeen`), and 15 stands at one team
  only. Award rows and finalists are matched by grouping, series rows and ended series
  by a bijection (`SeriesFollowRules`), since two rounds never share a set; the
  uniqueness of rows in `IInv` is what makes it one;
* *gain*: an edit that only adds makes the results grow (`EntriesStay`), and each row
  and division scores no less for grown results; where a division winner becomes
  known, the 15 replaces the 5 of one place of the list at most
  (`DivisionPicksGrow`);
* *ranks*: the order of `compareRows` is strict and total, so a sorted list exists
  (`OrderedListing` puts each player after as many as go before him) and is the only
  one, whatever the algorithm; a run of
  equal totals starts at the rank of all of it (`RankStartsRun`).

In every module the invariant was an invariant of a run before it was proved.

Only model-checked, and why:

* Liveness (`EveryCallReturns`, `EverySubmitAnswered`, `EverySendEnds`) rests on
  fairness, which is beyond the prover's temporal reasoning here.
* The counterexamples of the four runs that expect a violation.

## Where code and documentation disagree

Four runs expect a violation. Each shows a real behaviour of the code, next to the
sentence that says otherwise (quoted in `findings`):

* `stale`: every write prunes codes issued "in the future" of the `now` its
  caller read before waiting for `s.mu` (`store.go:1015`). A save that read the
  clock, then waited while a code was created a second later, deletes that live code,
  although `README.md:57` gives it ten minutes.
* `late`: `sheet.go:324` judges the deadline before the body is read and the
  lock is held, so a slow request changes a pick after the set has closed;
  `docs/game-rules.md:33` has a closed set read-only without exception. The row is
  still stamped before the deadline (`StampedBeforeDeadline`).
* `logout`: `requireSession` re-issues the cookie on every authenticated
  response (`web.go:134`); one still in flight while the player logs out brings the
  session back, where `README.md:57` says it ends immediately.
* `mail`: `README.md:59` reads a saved code as a send that was attempted, and a failed
  send as a line in the log, which `docs/operator-guide.md:46` sends the operator to; a
  shutdown ends the send goroutine (`auth.go:57`) with neither mail nor line.

No run is spent on some more:

* `docs/game-rules.md:36` says every field of a set saves independently, but one
  invalid entry turns a whole divisions or awards form down
  (`sheet_divisions.go:379`, `sheet_awards.go:409`; `WholeFormRejected`).
* Without the script the first divisions form cannot be sent: its submit button is
  rendered disabled and nothing enables it.
* `docs/recording-results-and-playoffs.md:78` has a finalist without a
  `display_name` gain an empty one on the next save. Since the rows are spliced into
  the parsed tree a save does not touch `award_finalists`, and
  `store_splice_test.go:14` asserts that it injects none; the sentence is of an
  earlier version.
* Two teams with one id would make the page count boxes and the server ids;
  `RosterAssumption` excludes them.
* Without the script an awards slot blanked by hand keeps its slug: an award whose
  texts are all blank is saved by its slugs in silence, one with two texts left is
  saved and flagged as incomplete. `AwardsSavedAsShown` speaks of the page
  with the script in its second half for that reason.
* An award blanked completely keeps its old finalists (FR-11), and the card of a series
  that was taken back since is dropped without a word.
* A set with an unknown phase is not listed, but its id is accepted by the gate.

## What is not modelled, and why

* Power failure: the temporary file is not synced before its rename. `Store` lets
  the process die, not the machine.
* Code generation and hashing, HMAC, TLS: a code is a distinct value and a
  signature is not forged. Two players holding the same six digits are therefore
  not distinguished by chance.
* HTML, wording, labels, metrics, ports and transport selection.
* A leaderboard or a Compare table computed while a save runs between two of its
  reads: `Season` and `SheetSubmit` compute from one state.
* The mailer's encodings and the texts it redacts (the mutex that redaction waits for
  is modelled); an SMTP server that never answers (the send goroutine then never
  ends).
* Display: the green check of a complete award (it ignores duplicates and slugs
  nobody knows), the suggestion list, `compare.js`, column order and marks.
* The layout of the file's text: the encoder indents maps its own way on every write
  (`docs/recording-results-and-playoffs.md:69`), which changes neither an entry nor
  its place. Below the top level the splice does not reach, so a section is one
  value.
* Which line of `results` or `award_finalists` a tolerated shape error is on: a
  section is malformed, and refused, or is loaded. The unknown keys and wrongly
  shaped entries `ResultProblems` reads off the tree.

## Plan

Done: the store with its refinement, submission with the Compare tab, login and
sessions, the mailer, the three pick forms, scoring and standings, all with proofs
of their safety properties. What would come next:

1. The line ranges of a lenient load, and `ResultProblems` read off the tree.
2. A leaderboard read while saves go on: which mixtures of moments it may show.
