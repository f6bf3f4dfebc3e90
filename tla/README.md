# Lewe: specifications and proofs

TLA+ specifications of Lewe, the barter marketplace in this repository (a Go API
over PostgreSQL, and a React client), with the TLC runs that check them and the
TLAPS proofs about them. Paths below are relative to the repository; `PROJECT.json`
lists every definition with the lines it stands for, every run, every mutant (a
plausible bug that the property must notice) and every hazard.

    tlc -workers 2 -config MCExchange_duo.cfg MCExchange     # any run
    tlapm ExchangeProofs.tla                                 # any *Proofs.tla

## 1. The system

Users list items and describe what they want. A background worker joins wants and
items into two-way swaps (`matches`). Both users accept, which reserves the items;
they agree on a way to exchange, both confirm the hand-over, and rate each other.

| Component | Code | State | Operations |
|---|---|---|---|
| Listings | `internal/items` | `items`: status, and what the listing says | create, update, withdraw, browse |
| Wants | `internal/wants` | `wants`: status, category, condition, keywords | create, update, cancel |
| Match lifecycle | `internal/matches/service.go`, `repository.go` | `matches`: status, two acceptances, two confirmations, plan, who closed it | accept, decline, cancel, set exchange, complete |
| Matching | `internal/matches/worker.go` | a trigger channel of capacity 1, a ticker | a pass inserts matches; trigger, run |
| Notifications | `internal/notifications` | `notifications`: type, read or not | create (by others), cancel-pending (by others), list, count, mark read |
| Messages | `internal/messages` | `messages` of a match | send, list |
| Ratings | `internal/ratings` | `ratings`, one a side and match | rate, list |
| Accounts | `internal/users` | `users`, `refresh_tokens`, `account_tokens` (emailed links) | register, log in, Telegram log-in, refresh, log out, verify, forgot, reset, change password, profile |
| Rate limiter | `internal/middleware/ratelimit.go` | a map of token buckets | allow, sweep |
| Access tokens | `internal/auth`, `internal/middleware/auth.go` | none (signed tokens) | check |
| Process | `cmd/api`, `internal/app` | a context, the server, the worker goroutine | start, signal, drain, exit |
| Client session | `web/src/api.ts`, `auth.tsx` | tokens in localStorage, one shared refresh call per tab | request, refresh, sign in, sign out |
| Match page | `web/src/pages/MatchDetail.tsx`, `hooks.ts`, `pages/Matches.tsx` | the match as it was loaded, requests under way, the chat | load, press a button, save the plan, rate, poll the chat |
| Other pages, mail, configuration, migrations | the rest | none to speak of | see section 7 |

How they interact:

- **Shared tables.** Matches write the status of items and wants; withdrawing an item or
  cancelling a want cancels matches; all of them insert notifications in the same
  transaction. Nothing but SQL keeps the tables in agreement: most rules span three
  tables, and no constraint of the schema states them.
- **A callback.** Items and wants call `Worker.Trigger` after their commit. The worker
  is the only background activity of the server.
- **Reads without locks.** Messages and ratings read the status of the match and insert
  later; updating an item checks and writes in two statements; a login compares a
  password and inserts a token later.
- **Locks.** A match operation locks its match row, then the two items in id order, then
  updates rival matches; the matching statement locks what its rows refer to.
- **No push.** The client polls. What a page shows is as old as its last answer, and
  answers may overtake each other.

What is hard about it: transactions interleave statement by statement under READ
COMMITTED; the matching statement works from a snapshot; a request may die between its
commit and its trigger; the server may crash, and stops gracefully under load; refresh
tokens are single-use while requests are concurrent and answers get lost; the pages act
on what they have seen. `hazards` in `PROJECT.json` has each of these at its line.

What makes each component correct:

- *Match lifecycle*: an item is promised to one swap at most, never without an accepted
  match and never without both users; a withdrawn item is never promised; completion moves
  everything or nothing; no confirmation outlives the plan it was for; whoever did not
  close a match hears that it is closed.
- *Listings and wants*: words are taken as they were typed, by the search and by the matching;
  what is stored survives being saved again; every swap is suggested, and once.
- *Worker*: every committed change is looked at by some pass; shutdown ends.
- *Accounts*: a refresh token is redeemed once; a new password ends the old sessions; a
  new link replaces the older ones.
- *Rate limiter*: dropping buckets cannot be noticed by a client.
- *Client*: concurrent 401s share one refresh call, and what is stored can be used; what a
  page offers works; an action on an old view does no harm; what was shown stays shown.

## 2. Modules

| Module | What it models | Checked by | Proved in |
|---|---|---|---|
| `Barter` | abstract: swaps are proposed, agreed, carried out or called off; an item is promised once | as a property of `duo` and `tx` | `ExchangeProofs` |
| `Exchange` | listings, wants, matches, notifications and the matching pass; one action per transaction | `duo`, `pair`, `edit` | `ExchangeProofs` |
| `ExchangeTx` | the same transactions statement by statement, with row locks | `tx`, `tx_circle` | `ExchangeTxProofs` |
| `Words` | text: blanks, wildcards, case, `LIKE` patterns and their escapes | in `market` | `MatchingProofs` |
| `Discovery` | what is validated, normalised and stored; the search; which swaps the matching statement finds | `market` | `MatchingProofs` |
| `MatchWorker` | the worker's loop, its wake-ups, and the life of the process | `worker` | `MatchingProofs` |
| `MatchThread` | messages, ratings and unread counts of one match, and the chat that polls them | `thread` | `MatchThreadProofs` |
| `MatchPage` | the page of one match: stale views, buttons, answers | `page` | `MatchPageProofs` |
| `Accounts` | one account: password, sessions, emailed links | `account` | `AccountsProofs` |
| `TokenBucket` | abstract: a bucket that is always there | as a property of `limiter` | |
| `RateLimiter` | the map of buckets with its sweep | `limiter` | `RateLimiterProofs` |
| `ClientSession` | stored tokens and the shared refresh call of the web client, in tabs that share their storage | `tab` | `ClientSessionProofs` |

`MC*.tla` name the model values and the small functions for the configurations.

### Exchange and Barter

One variable per column the rules read: `item` and `listing` are `items.status` and the
rest of the row; `status`, `accepted`, `plan`, `confirmed`, `closedBy` and `relies` are
the columns of `matches` (`a_accepted_at`/`b_accepted_at` as a set of users, and so on);
`inbox` is `notifications`. A match is identified by its ordered pair of items, which the
schema makes unique. Each action is one transaction with all its statements: `AcceptBoth`
is the second acceptance with `lockAvailableItems`, `setItemsStatus`,
`cancelOtherPendingForItems`, the notifications and `save`. Five operations are split
where what they have read may change before they are through:

- the matching statement: `BeginPass` takes the snapshot, `EndPass` inserts from it, whatever
  has happened in between (of the snapshot only the pairs without a match are kept: a match is
  never deleted, and the others are skipped by `ON CONFLICT` in any case);
- the update of a listing: `CheckEdit`, `WriteEdit`;
- a withdrawal, the cancellation of a want and a completion. Their last statement sweeps
  the pending matches they invalidate, and they commit after that. They hold their rows with
  the lock of a plain UPDATE, which keeps out other updates but no insert that refers to
  the row, so a pass can commit another match in between. `leaving` has the rows that are
  between sweep and commit (`LeaveItem`, `LeaveWant`, `LeaveMatch`), `late` the matches that
  a pass has committed since; `Withdraw`, `CancelWant` and `CompleteBoth` are the commits
  and leave out what is late, `Stay` is a rollback. Who needs the rows waits (`ItemLocked`,
  `WantLocked`, `Unlocked`). An acceptance locks its items FOR UPDATE, which does keep out
  such inserts, and is not split.

`Satisfies` stands for "category equal, condition good enough, a keyword occurs": which
listings satisfy which criteria is a parameter, so that what is proved holds for every such
rule. `Discovery` has the rule itself.

`Barter` knows only the stage of each swap and which items are listed or retired. The
mapping (`Promise` in `Exchange`) forgets everything else. It lets a swap be proposed
when its items are promised elsewhere, because a pass from an old snapshot does that; the
promise is that such a proposal never becomes an agreement.

### ExchangeTx

`Exchange` takes the transactions as atomic, but for the splits above. `ExchangeTx` is why that
is allowed: sessions run the statements one by one, a statement finds its rows in what is
committed when it starts, locks them one after the other (items by id, where the code says so,
and otherwise in any order), waits for conflicting locks and looks again at the newest version
once it has the lock. Transactions can deadlock (and are aborted) or fail anywhere. PostgreSQL
itself is external and is modelled from how the statements use it: `FOR UPDATE`, the lock of a
plain `UPDATE`, the key-share lock of an insert with foreign keys, and the re-check of the WHERE
clause after a wait. All the match operations are there, `SetExchange` with the plans included,
as are withdrawing an item and cancelling a want; creating and editing rows are not, since they
touch no status. `missed` is a history of what was committed after a sweep had looked for its
rows.

### Words and Discovery

`Words` has text as sequences of characters, since its properties are about characters:
blanks and wildcards, letters in two cases, the backslash. `EscapeLike` is `escapeLike` of
the search, `Strip` what `normalize` does to a keyword, both with `Replace`, which is
`strings.Replacer` for single characters (external), and `ILike` is PostgreSQL's ILIKE
(external), with `%`, `_` and the escape character: for each place of the pattern, from its
end on, the places of the text that fit the rest of it. `Discovery` saves listings and wants as
the services do: normalise first, then validate, then store; it remembers what was typed.
`Browse` is the search; `Pass` is the matching statement: its join of two items and two
wants, the order of ids that keeps one of the two orientations, `DISTINCT ON` and the
score. The properties do not use those definitions: they say what a person would expect of
the words typed, and look for swaps from both sides. Left out of what is saved: the lower-casing and
trimming of category and condition, which must be in the catalogue afterwards (the inputs here
are in that form), locations, and images with the check of their addresses.

### MatchWorker

`trigger` and `tick` are channels of capacity one; the worker is at its start, in a pass
or at its select. Requests commit first and call `Trigger` afterwards; during their statements
they hold a connection of the pool. `main` follows `cmd/api/main.go`: a signal cancels the
context, `Shutdown` stops accepting, drains for ten seconds and waits for the worker; when
`main` returns, the deferred `pool.Close` waits for the connections that are held, without a
limit, and the process ends with whatever is still at work. A crash may come at any point.

### MatchThread and MatchPage

`MatchThread` dates a message with the start of its transaction, as `now()` does, and inserts it
later; `List` returns the first `Limit` by date. `Supersede` is the `live` flag of `useAsync`.
`MatchPage` takes the match of `Exchange` as one row and adds the view: a press carries the view
it was made on, the request may be served much later, the answer is read after the transaction
and swapped in later still, and meanwhile the match goes on elsewhere. Only the buttons wait for
each other (`busy`); the plan can be saved while a button or another save is under way, since
its form looks at nothing. `ToResponse`, `Offers` and `Hint` are `toResponse`, the conditions of
the buttons and `matchHint`.

### Accounts, RateLimiter, ClientSession

A request of `Accounts` is split wherever it lets go of something it has read. A bulk
UPDATE touches the rows of its snapshot. Passwords are version numbers, and `proof` and
`root` remember which password a session has proved and which token it began with.
`RateLimiter` counts time in ticks and tokens in shares of `1/Minute`, which keeps the
arithmetic of the code whole; its refinement mapping computes what a dropped bucket would
hold. `ClientSession` has the promise in `refreshing` as `flight`, one in each tab, and the
tokens in localStorage once for all tabs; a tab runs one callback at a time, and the other
tabs, the network and the server go on between any two of them.

## 3. Runs

Besides what the table names, the runs of `Exchange`, `Accounts`, `RateLimiter`,
`ClientSession`, `MatchThread` and `MatchPage` check the type invariant of their module.
All runs explore their model exhaustively. Violation runs show a disagreement between
the code and what it says of itself.

| Run | Question | Answer |
|---|---|---|
| `duo` | Do the tables agree, with two matches competing for one item and sharing wants, every operation on them, a pass from a stale snapshot, and withdrawals and completions that a pass overtakes? Is the market a `Barter`? | `ItemsHeld`, `NoOrphans`, `ConsentComplete`, `ClosureIsAnnounced`, `CleanUp` and `KeepsPromises` hold |
| `pair` | With two descriptions, two criteria, two plans and edits between check and write: types, and does a confirmation outlive its plan? | `TypeOK` and `ConfirmationsBindPlan` hold |
| `edit` | `items/service.go:93`: "Only the owner may edit, and only while available" | violated: an edit is checked, both users accept, which reserves the item, and then the edit is written |
| `tx` | Do row locks make the matching statement, and every transaction that changes a match or the status of an item or a want, as good as atomic? Is a committed acceptance, plan or confirmation ever overwritten? | `CommittedAgree`, `KeepsPromises` and `NoLostUpdate` hold |
| `tx_circle` | `matches/repository.go:165`: items are locked "in a stable order to avoid deadlocks" | violated: each of two rival acceptances holds its own match row, which the other's sweep wants |
| `worker` | Is every change seen in spite of failures, crashes and restarts, and does shutdown end although requests may hang on and hold connections? | `NoLostWakeup`, `EveryChangeSeen` and `ShutdownEnds` hold |
| `thread` | Are ratings earned although their check takes no lock? Do shown messages stay, and does the chat catch up? | `RatingsAreEarned`, `NothingVanishes` and `ChatCatchesUp` hold |
| `page` | Do browser and server agree on what can be done, and what do late presses and late answers do? | `OffersWork`, `HintsAreTrue` and `StaleIsRefused` hold; `PageMovesOn` unless a save of the plan overlapped a button or another save |
| `account` | Are refresh tokens single-use under concurrency, does a new password end sessions, does a new link replace the old ones? | `OneTokenPerSession` holds; the other two up to requests that overlapped: `OldSessionsEnd`, `OnlyOverlappingLinksCoexist` |
| `limiter` | Is dropping buckets unnoticeable, and `Retry-After` long enough? | `IsTokenBucket`, `RateHolds`, `OnlyRecentBuckets` and `RetryAfterIsEnough` hold |
| `tab` | Two tabs on one storage: do concurrent 401s share one refresh, and can what is stored be used? | `OncePerToken` and `StoredIsUsable` hold |
| `market` | Do search and keywords take words as they were typed, is what is stored stable, and does a pass find every swap once, with the right wants and score? | `SearchIsLiteral`, `KeywordsArePlainWords`, `RowsAreNormal`, `EverySwapOnce` and `SuggestionsFit` hold |

What else the models show, without a run of its own:

- A pass from an old snapshot leaves a pending match on an item that has been withdrawn
  meanwhile. It can be accepted once, and closes on the second acceptance (`duo` goes
  through this, which is why `CleanUp` speaks of matches that were open).
- A pass that commits between the sweep and the commit of a withdrawal leaves its match open,
  although `items/repository.go:145-146` says that any pending matches of the item are
  cancelled; the cancellation of a want and a completion leave such matches open as well.
  `CleanUp` excepts exactly those (`late`), and so does `CommitsAreAtomic`.
- A session that was in the middle of a request when its password was changed survives,
  although `users/account.go:167` says "Every other session is signed out".
- Two overlapping requests for a link leave two links that work, although the README of
  the API says that a newer link replaces older ones.
- A change of password compares the old one outside its transaction: of two overlapping
  changes, the later replaces a password it has not checked.
- A message can follow the closure of its match; its status was read before.
- A hand-over confirmed on the old plan counts for the new one if it is served after the
  change. The request does not say which plan it means.
- Saving a plan while a button or another save is under way can set the page back until it is
  opened again: the form does not look at `busy`, and of two saves the first may be answered
  last, with what it saw before the match went on.
- A refresh that is refused in one tab signs the user out in all of them, also if another
  tab has just stored a token that works.
- A keyword with a wildcard inside it ("50% off") is stored without it, and then found only
  in texts that lack it too.
- From the 101st message on the chat shows nothing new: it asks for the oldest hundred.

### Bounds, and why they are enough

- *Exchange*: two users, since every rule is about the two sides of a match. `duo` has three
  items, so that two matches share one, and three wants, so that two matches share a want and
  one pair of items can rest on different wants; the two wants of one user are symmetric, as no
  definition tells them apart. All three items are listed from the start: withdrawals and
  acceptances make snapshots old. `MaxLeaving` is one transaction between sweep and commit at a
  time: what it can miss is the insert of a pass, not what another such transaction does, which
  `tx` interleaves statement by statement. `pair` has one pair and two of everything that is
  edited. `Watched` records only the types of notification the properties read. `MaxEdits` is
  one edit under way. The theorems of section 5 have none of these bounds.
- *ExchangeTx*: two sessions on two matches that share an item and a want: a conflict is between
  two transactions. Two plans, so that one can replace the other. Sessions, plans and the two
  sides are symmetric, as no definition tells them apart (items are not: they are numbers, and
  locked in their order). Two sessions cannot show a circle of three transactions; `tx_circle`
  shows that two are enough for one. The theorems of section 5 are for any number of sessions
  and matches.
- *Discovery*: three items, so that either owner has the smaller id, and three wants, two of
  them of one user for the same item, so that one swap shows up more than once. The inputs
  are chosen for the rules: words with a wildcard at the edge, next to a blank, alone, or
  doubled; the escape character alone and before another; no value, value nought and equal
  values; and input that every validation refuses, with limits of three characters for titles and
  descriptions. Texts have at most four characters here,
  any number of them in the theorems.
- *MatchWorker*: three changes (one in a pass, one signalled, one on its way), two requests,
  with as many connections, and two stops, so that a restart can be interrupted as well.
- *MatchThread*: three messages with a limit of two, so that the conversation outgrows the
  answer, and two requests, so that the order of the dates and of the inserts differ.
- *MatchPage*: one page, with everybody else in `Elsewhere`; two plans, so that one can
  replace another, and two requests under way at a time: a button and a save, two saves, or
  ratings.
- *Accounts*: two requests at a time, two tokens, two links and two changes of the password.
- *RateLimiter*: two clients, two requests a minute and two minutes of three ticks: a
  bucket empties, refills, is swept and comes back.
- *ClientSession*: two tabs with one request each besides the one a page load makes, and two
  refresh tokens: a tab can meet a call of its own, one of the other tab, and a token that
  the other has replaced.

`CHECK_DEADLOCK FALSE` stands where the bounded system really can stop: everything is
exchanged, every token issued, time is over.

## 4. Fairness

Only `worker` and `thread` check liveness.

- *Worker.* Weak fairness for what a goroutine does once it can (waking up, a pass coming
  to an end, the steps of `main`), for the ticker, and for whoever runs the service and
  starts it again after a crash. Strong fairness for three steps. `PassSucceeds`: a pass
  that is tried for ever is not refused for ever, otherwise no one can see a change.
  `TakeSnapshot`: it gets as far as its query. `StopWorker`: Go's `select` picks among the
  ready cases at random and so does not ignore the cancelled context for ever, whatever
  keeps triggering. Requests get no fairness but for one thing: the database answers their
  statements in the end (`Release` or `CommitChange`). The code has no limit there, so this is
  an assumption on the database, and without it `pool.Close` may wait for ever. Crashes get none.
- *Chat.* Weak fairness for the interval; strong fairness for serving and showing, that is,
  of the requests which the interval keeps sending some are answered before the next one
  supersedes them.

## 5. Proofs

Each `*Proofs` module extends the modules it is about and proves for every value of their
constants what TLC checks for small ones; `ExchangeProofs` is also about `Barter`, of which
it has an instance of its own (`Ideal`). The only assumptions are the named ones of the
modules; TLC evaluates them on every run.

| Module | Theorems | Assumptions |
|---|---|---|
| `ExchangeProofs` | `Typing`, `Reservations`, `NoItemIsStranded`, `Refinement`, `Consenting`, `ConfirmedPlan`, `Poising`, `NothingLeftBehind`, `ClosureIsTold`; `OnePromise` of `Barter` | items are numbers and belong to users, wants belong to users, the stored rows are rows, `NoPlan` is no plan; `ClosureIsTold` also that `Watched` records both notifications of closing |
| `ExchangeTxProofs` | `Typing`, `LocksExclude`, `TablesAgree`, `CommitsAreAtomic`, `NothingIsOverwritten`, `Refinement` | items are numbers, a match is a pair of items in their order, it relies on wants and has sides, operations are those of the code |
| `MatchingProofs` | `SwapsAreFoundOnce`, `SuggestionsAreWanted`; `WhatIsStoredStays`, `SearchFindsTheWords`, `KeywordsFindTheWords`; `WorkerTyping`, `NoWakeupIsLost` | items are numbers, what users send and search for has its types, NULL is no text and no number, the database ranks the conditions in the order of the catalogue; the bounds of the worker are numbers |
| `AccountsProofs` | `Typing`, `SessionsAreChains`, `ChangeEndsSessions`, `NewLinksReplace` | `None` is no token and no link |
| `RateLimiterProofs` | `Typing`, `Refinement`, `MemoryIsBounded`, `RetryAfterSuffices`, `RateIsLimited` | the rate and the minute are positive |
| `ClientSessionProofs` | `Typing`, `KeptTokens`, `OneCallPerToken` | `Me` is no ordinary call |
| `MatchPageProofs` | `Typing`, `Offering`, `Hinting`, `OldViews`, `NeverTurnsBack` | a match has two sides, `NoPlan` is no plan |
| `MatchThreadProofs` | `Typing`, `Earned`, `NothingIsLost` | a match has two sides, `Limit` is positive |

How they go, and what has to be added to make the property inductive:

- *Poising*: between its sweep and its commit a transaction still finds what it has checked
  (`Poised`): the item is available, the want active, the match accepted with a plan, since
  whoever would change that waits for the lock. So the commit may be taken for the whole.
- *Reservations*: `ItemsHeld /\ NoOrphans`. Together with the types the two are
  inductive, and neither is alone: that cancelling a match may release its items needs
  that no other match holds them (`ItemsHeld`), and that a reserved item has its match
  back needs that the step which reserved it did so for a match. Most actions are *quiet*:
  they bind or release no match and no item, and `QuietHolds` covers them at once. Three
  are not: `AcceptBothHolds` for the agreement (its items were available, so no bound
  match has them), `ReleaseHolds` for calling off and carrying out.
- *Refinement* of `Exchange`: every behaviour is one of `Barter`. The mapping needs
  `Reservations` (what is bound is taken, what is available is not) and `FoundListed`: a
  snapshot only names rows that exist, which holds because rows are never deleted. With
  `OnePromise` it says that the stored marketplace promises no item twice.
- *Consent*: `ConsentComplete`, match by match (`Consented`), is inductive with the types and
  `WantsStored`: a match, and a swap of an old snapshot, rests on wants that are rows, so no
  want it relies on is created, active, after the swap was carried out. `ConfirmedPlan`
  and `NothingLeftBehind` are about steps and follow from it case by case; the latter with the
  one exception that the locks leave open, a match that a pass has committed between the sweep of
  that very transaction and its commit.
  `ClosureIsTold` adds that a match which is not closed names nobody who closed it.
- *Transactions*: the invariant of `ExchangeTx` says of each session, at each statement of its
  operation, which rows it may still have to lock (`Pending`), which locks it holds (`Locked`),
  how the rows it has written differ from the committed ones (`Written`), and how far it has
  come (`Progress`). Such a comparison with the committed rows lasts because of the locks:
  nobody else commits to a row that is locked (`Exclusive`), whatever that session does.
  `CommitsAreAtomic` says what a commit then is, operation by operation (`Does`): exactly which
  rows change and to what, computed from the tables as they were committed just before, as if
  the operation had run there alone. A sweep needs an invariant of its own, `Thorough`: every
  pending match it is to call off is written, or still to be locked, or was committed by a pass
  after the sweep had looked (`missed`), and an acceptance misses none, since its FOR UPDATE on
  the items stands in the way of the insert. The matches missed are the only difference from
  running alone. `CommittedAgree` and `NoLostUpdate` then need to be shown for whole changes
  only (for `SetExchange`, which takes confirmations away, with the lock on the match held since
  it was read), and each change is a step of `Barter` or none (`Refinement`).
- *Matching*: what is stored was validated (`Tables`), so that a condition has a rank, which is
  its place in the catalogue (`RanksArePlaces`), and a value makes a score between 0 and 100.
  A match has its items in order (`Ordered`), so the two orientations of a swap, and the many
  wants that ask for it, end in the same pair; a pass adds a row for a pair only if it has
  none, and for every pair it has found (`PassInserts`).
- *Texts*: the invariant, `Saved`, is short: a row is what was last saved of it, normalised, and
  was accepted. What takes work is what the operators compute for a text of any length.
  Induction over numbers is had from the least number of a set (`Least`, `Counting`, from
  the library's theorem on well-founded relations). With it `FlattenPlaces` says
  where each piece is in what `FlattenSeq` joins, and `Sifting` what that means if pieces have
  one element or none, which serves the characters of a word (`Stripping`) and the keywords of
  a list (`KeywordsKept`). A recursive function is what its definition says once some function
  is (`ValuesExist`), so `ILike` is known place by place (`ILikeIs`). `Reads` says that a
  pattern stands for a word between two `%`: each character of it is there as it is, or after a
  backslash. Such a pattern fits exactly the texts in which the word appears
  (`PatternFits`, from the end of the word to its beginning, and `PatternMatches`), and both
  patterns of the code are of this kind: that of a keyword, because a keyword has no wildcard
  (`PlainPattern`), and that of a search, because `escapeLike` puts a backslash before each
  (`EscapedPattern`).
- *Worker*: `NoLostWakeup` is inductive with the types. The work is in the passes: a change
  that is committed during one has its request in hand, or its signal in the channel.
- *Accounts*: `Sound` adds to the types what each request relies on (`Underway`): who issues a
  link names its kind, who mails one names it, and only one request holds the row of the
  user while it sweeps. `Chains`: a token or a request that carries a session on names the
  first token of it, and for each session there is at most one of them. `Current`: what a
  live token proves is the password, unless its request was overtaken. One lemma says what
  each step may do to tokens (`TokensStep`), one that steps leave other requests alone.
- *Rate limiter*: the level of a bucket at a time is what it held plus what the rate adds, cut
  at the burst; dropping a bucket that has refilled does not change its level (`BucketIs`).
  `Awaited`: who was told to come back has a token already or will have one by then.
  `Metered`: for every request that was let through, what has been let through since and
  what is left are covered by a burst and the rate. Products of two variables are named
  and bounded first (`Gain`, `Products`), so that the solver only sees linear arithmetic.
- *Client session*: `UnseenToken`, a token that a call has brought back and that is not stored
  yet is known to nobody else; `SentOnce`, a tab that has sent what is stored now is still
  waiting for the answer. Both are stated for each tab, since any other tab may write.
- *Match page*: `Sound` adds that every call was offered on the view it was made on, and that
  an open match is not accepted by both. `InOrder`: nothing that was shown, answered or
  loaded is ahead of the match; and unless a save of the plan overlapped a button or another save
  (`crossed`), there is one action at a time that is no rating, it was made on what is still
  shown, and the match is loaded again only when the swap is over (`Waiting`). So each answer is
  as new as the view. Ratings may overlap: they are answered by a reload.
- *Match thread*: what is about to be inserted has a date of its own (`Dated`), which makes
  every insert a new row; a request to rate is there only after the completion (`Rated`);
  the page has one answer to come, and that holds what is shown (`OnPage`), because a
  conversation that fits is answered whole (`ListIsWhole`).

Only model-checked: the liveness of `worker` and `thread` (`EveryChangeSeen`, `ShutdownEnds`,
`ChatCatchesUp`), which is out of the prover's reach together with fairness. Every invariant
and action property of the passing runs, and each of the three refinements, has a theorem. There are no
RECURSIVE operators: `ILike` is a recursive function. The library's theorem on induction over
numbers takes an operator, which the provers cannot instantiate; that is why the induction
here goes over sets.

## 6. Plan

Done:

1. `Barter`, `Exchange`: the core. Abstract specification first, then the tables.
2. `ExchangeTx`: the atomicity that `Exchange` assumes, every operation on matches and every
   withdrawal in one run.
3. `MatchWorker`: when passes run, crashes and shutdown.
4. `Accounts`: sessions and links.
5. `RateLimiter` with `TokenBucket`.
6. `ClientSession`: the browser's half of refreshing, with tabs that share their storage.
7. `MatchThread` and `MatchPage`: what hangs on a match, and what its users see of it.
8. `Words` and `Discovery`: text, search and the join of the matching statement.
9. Proofs of every invariant and action property of the modules above: of `ExchangeTx` for
   any number of sessions, of `Discovery` for texts of any length.

Left:

10. Paging: lists by offset while rows are inserted; the unread badge and the list of
    notifications.
11. `ClientSession` composed with `Accounts`: which of the sessions that a password change
    ends a browser still shows.

## 7. Not modelled

- Access tokens and the authentication middleware: a signature and an expiry time, no
  state. A client model takes the outcome as an input.
- Routing, logging, CORS, recovery from panics, JSON, the validation of account data and the
  mapping of errors to status codes: no state. A refused request is no step. (What is
  validated of listings and wants decides what is stored, and is in `Discovery`.)
- Mail beyond "it arrives or not", the reading of the configuration, the running of
  migrations: input and output.
- Profiles, averages of ratings, images: nothing else reads them.
- The other pages of the client: they show what `useAsync` loaded, like the match page. The
  list of notifications and its badge, and the pages of search results, which are taken by
  offset while rows are inserted, would be next.
- The signature of Telegram's launch data.
