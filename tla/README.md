# InstiLens verification project

InstiLens (`src/backend`, Python/FastAPI/SQLAlchemy, and `src/frontend`, a web client) reads what
institutions and insiders disclose in Turkey (KAP) and the US (SEC), turns the filings into facts, compares
the facts over time, scores instruments, and tells its users about signals. Accounts pay for plans, form teams,
keep portfolios, and can have events sent to endpoints of their own.

This directory holds TLA+ specifications of the parts of it in which several actors, failures or late messages
meet or in which figures must agree, TLC configurations that check them on small instances, and TLAPS proofs for
every value of the constants. `PROJECT.json` maps each definition to the source lines it models and lists the runs,
the theorems, the hazards and what was found. Paths below are relative to `src/backend/src/instilens/`.

Contents: 1 inventory; 2 modules; 3 runs, bounds, fairness, deadlock; 4 proofs; 5 where the code does less than it
says; 6 simplifications; 7 not modelled; 8 plan.

## 1. Inventory

One PostgreSQL database is the only thing processes share (SQLite in development). Its clients are the API
workers (several processes, one transaction per request: `api/deps.py`, `db/session.py`), the scheduler
(`scheduler.py`, APScheduler threads: jobs of different ids overlap, a job never overlaps itself), the quotes feed
and the command line. There is no message broker: an outbox table, a `live_events` table and rows with a status play
its part. FastAPI answers before the session of the request's dependency commits, which many modules below turn on.

| component | state it keeps | operations | with whom | correct when |
|---|---|---|---|---|
| webhook outbox (`services/webhooks.py`, `api/routes/webhooks.py`) | `webhook_events`, endpoints, leases | queue, claim, send, record, retry, pause | API, scheduler, receivers | leases exclude, every event is settled, reports are true, attempts are bounded, a hold holds |
| webhook inbox (same files) | received events | receive, store once | senders, request limits | an id has one content, the answer is true |
| request limits (`api/hardening.py`) | `rate_hits`, process memory | hit, sweep, read failures | all requests | no more than the limit in a window |
| run and build locks (`api/hardening.py`, `services/warehouse.py`) | `pipeline_runs`, the lock row, dated files | take, take over, finish, place, refresh, prune | administrators, scheduler | one run, one build, the newest file is served |
| disclosure pipeline (`services/pipeline.py`) | disclosures, events, snapshots, position changes | ingest, supersede, parse, merge, rebuild | adapters, parsers, jobs | nothing counts twice, nothing superseded counts, the newest report is the book |
| KAP adapters (`ingestion/kap/`) | none but the newest stored index | list, fetch, retry | KAP, pipeline, insiders | no listed filing is passed over; a page is read as filed |
| insider filings (`services/insiders.py`, `engine/insiders.py`) | insiders' disclosures, links, time each issuer was read | refresh by issuer in savepoints, supersede, group | scheduler, EDGAR, KAP | none is lost or counts beside its amendment, issuers take turns, a person counts once |
| flows and scores (`engine/*.py`, `services/analytics.py`, `warehouse.py`, `ownership.py`) | scores; views | activity, conviction, consensus, divergence, leaderboard | pipeline | every reader gives the same figures |
| books and baskets (`services/ownership.py`, `portfolio_analysis.py`, `engine/crowding.py`) | none | overlap, crowding, returns | portfolios | the pages agree with the books and each other |
| signals and alerts (`pipeline.py`, `services/alerts.py`, `notify.py`, `outcomes.py`) | episodes, rules, notifications, outcomes | compute, collapse, evaluate, deliver | compute jobs, channels | one message per episode and rule, none lost, outcomes belong to signals |
| briefs and narration (`ai/assess.py`, `ai/tts.py`) | notes, deliveries, audio files | write, deliver, speak, warm | scheduler, readers | a brief reaches a user once; what is heard is what is written |
| billing (`services/billing.py`, `plans.py`) | subscriptions, an account's plan, grants, processed events | apply events, grant, re-date, revoke | payment provider, administrator | one live subscription, the plan has a reason, the order of events does not matter |
| accounts (`services/auth.py`, `api/routes/auth.py`) | users, single-use tokens, lockouts, token versions | register, log in, second factor, refresh, reset, verify | organisations, mail | a reset ends every session and the one it hands out works, wrong codes and uses of a challenge are limited, an administrator remains |
| organisations (`services/org.py`) | members, invitations, seats | found, invite, accept, leave, remove | accounts, plans | seats are not oversold, there is an owner |
| portfolios (`services/portfolio.py`) | transactions, positions | record, delete, rederive | prices | positions are the FIFO result, nothing is oversold |
| prices, quotes, candles (`ingestion/prices/`, `services/quotes.py`, `candles.py`) | daily rows, caches, locks of keys | fetch, cut, cache, switch provider | Yahoo, Matriks, settings | an old number is never shown as a fresh one |
| runtime settings (`services/runtime_settings.py`) | overrides, an object per process | edit, adopt | all processes | in range, adopted by all |
| fundamentals (`services/fundamentals.py`) | statements, stamps | weekly capped run, ratios | Yahoo | companies take turns, a ratio is of one print |
| search index (`services/search_index.py`) | rows, watermarks | refresh, rebuild, reapply | every job | the copy follows the source |
| live events (`services/live.py`, `services/feed.py`, `src/frontend/src/lib/live.ts`) | `live_events`, a cursor per tab | publish, read since, prune | the client | no tab passes an event over |
| desktop releases (`services/releases.py`) | rows and files | upload, replace, publish, delete, manifest | administrators, updater | what is offered is there and verifies |
| SEC adapters, 13F and share parsers, news, AI, user data, web client, deployment | caches | I/O, text, queries | outside world | not a matter of state (section 7) |

What is hard here, and hardly tested: two workers between the selection and the claim of one event; an answer that
comes after its lease, or leaves before its commit; a job that dies between two of its commits; filings, corrections
and provider events in any order; a transaction that sends messages and is rolled back; rows merged under keys
already used; plans and grants that expire unnoticed; files that a rollback cannot bring back; a cursor or watermark
that is ahead of a commit. `PROJECT.json` lists each of these under `hazards`, at its line, with the
properties that would catch it.

## 2. Modules

| module | what it is | property |
|---|---|---|
| `WebhookPromise` | abstract: what the outbox promises an account | |
| `WebhookOutbox` | workers, leases, crashes, late answers, pauses, retries; refines `WebhookPromise` | `SendingSafe`, `KeepsPromise`, `Settles` |
| `RateLimits`, `WebhookInbox` | a hit as count and insert, two kinds of memory, outages; a signed event stored once | `AdmittedAndKept` |
| `RunLocks` | the administrator's run and the warehouse build, taken over and late | `JobsInOrder` |
| `DisclosureFacts` | filings to events, books and position changes, by jobs that overlap and die | `CountedOnce`, `SupersedeLaw`, `BookIsNewest`, `ChangesLive`, `Converges` |
| `KapFetch`, `KapPages` | which filings of KAP are asked for and when; what is read from a page | `ListReadThrough`, `ReadAsFiled` |
| `InsiderFilings` | Form 4 documents and KAP filings of insiders, with amendments in any order, in runs that fail | `LinksKept`, `TradesOfOne`, `RoundRobin` |
| `FundFlows`, `Scores`, `Saturation` | trades and reports to moves, activity, scores, leaderboard, warehouse views | `FiguresAddUp` |
| `Baskets` | overlaps, ownership pages, crowding, a basket's returns | `BooksAgree` |
| `SignalAlerts` | signal episodes to notifications, messages and outcomes | `OutcomeOwned`, `NotifiedAtMostOnce`, `Announced`, `HeardAsOwed`, `FirstDayKept` |
| `Briefs`, `Speech` | the morning brief's runs and readers; the audio cache and numbers as words | `BriefOnce`, `HeardAsWritten` |
| `Subscriptions` | the plan of an account between provider events and grants | `OneLivePaid`, `PlanSound`, `ProviderAgrees`, `HigherGrantKept` |
| `Accounts` | sessions, links, second factor, lockouts, roles; requests that read, answer, then commit; sign-ins of several transactions | `CredentialsHold`, `LimitsHold`; violated: `AdminLeft`, `EveryOtherSessionDies` |
| `Organisations` | teams; composed with `Accounts`, which it extends | `TeamsSound` |
| `Releases` | versions as rows and files | `ReleasesSound` |
| `Portfolios` | transactions and first-in-first-out positions | `RowsAreDerived` |
| `RuntimeSettings`, `PriceProvider` | overrides and the processes that adopt them; the provider they choose; used by the next two | |
| `Candles`, `Quotes` | the chart's and the header's caches and their locks; hours of the exchanges | `CandlesHonest`, `HeaderHonest` |
| `Fundamentals` | the capped run over companies, statements and ratios | `FundamentalsSound` |
| `SearchIndex`, `LiveEvents` | the index's watermarks and the tab's cursor against commits | `IndexFollows`, `NothingPassedOver` |
| `MC*` | instances for TLC (values for function constants, symmetry, stories) | |
| `*_proofs` | theorems and their proofs | |

The header of each module says what a state is and how transactions are cut into steps; the comment before each
property says what it states and of which code. What follows is what is worth knowing beyond that.

**WebhookOutbox.** A row of `webhook_events` is `status`, `attempts`, `nextAttempt`, `holder` (its `lease_token`) and
`leaseUntil`. A worker inside `dispatch()` has a `phase`, the `instant` at which its batch was selected, the `batch` of
ids and the `current` event with its `answer`. The actions follow the commits of `dispatch()`: `StartBatch` (the
select), `Claim` (the UPDATE with the repeated `due` clause, and the endpoint read again), `Skip`, `Send` (outside any
transaction), `Record` or `DropLateAnswer` (the token check). A claim's random token is the worker's name, which is
as good since a worker has one claim at a time. The clock moves only while a pause or lease runs, as nothing else
observes it. Refinement: `Outcome` maps PENDING and DELIVERING to "queued"; `taken` (the receiver processed the event)
is the same on both sides; `open` is what no hold keeps back (`Deliverable`: the endpoint is enabled, its owner active); and
`underway` are the workers inside a request for an event. In `WebhookPromise` a delivery begins only while its event is
open, and each one begun reaches the receiver once at most: a hold is followed by nothing but what was under way,
through batches selected before it, crashes, takeovers and retries. Everything else is hidden.

**RateLimits, WebhookInbox.** The receiver's three limits (of the address, the endpoint and the owner's day) count as
`RateLimits` does. In `WebhookInbox` each of them may refuse a request at its place (`OverDaily`; a request refused before
its signature is read leaves nothing): when they refuse is left open there, which includes what the counters would answer.

**DisclosureFacts.** `Store` is one turn of `ingest()`, which commits per filing; `ReadPending` is what `parse_pending()`
loads; `CommitParse` its writes, in order of publication, with ties and parser failures left open; `Compute` and
`NightlyCompute` rebuild the position changes; `Abort` is a rollback or crash. Reading and writing are separate steps since
other jobs may commit in between; the writes of one transaction are one step because the row locks hold back the
others until the commit. The content of filings is abstracted to constants (which filing amends which, for which book,
when published).

**SignalAlerts.** One instrument and one signal type. `Compute` is the whole transaction of a compute job: collapse the
episodes, write or delete the row of the day, evaluate the rules, deliver, write outcomes. `RolledBack` is the same
transaction failing after its messages went out. What a detector answers is a nondeterministic choice: nothing, or a
signal whose window starts `w \in Windows` days before.

**Subscriptions.** The provider (`prov`, `sent`) is external and modelled from the statuses and events `billing.py`
handles. Every request is one transaction and one step. Events stay in `sent` until applied and are taken in any order; a
redelivered event is one in `processed`.

**InsiderFilings.** `table` is the running session's view of the Form 4 side and `committed` the one outside its savepoint,
`kap` the KAP side. `Refresh` and `RefreshSymbol` choose the classes; `OpenIssuer`, `ReadForm4` or `PassForm4` for
each document, and `CloseIssuer` or `SkipIssuer` are one turn of the loop in `refresh()`; `StopRun` is a refusal by EDGAR
or a crash. `owed` (history) and the field `family` of a document (which filing it truly concerns) belong to the
properties: no action reads them.

**KapFetch.** The ingest job reads funds' filings through the website (`adapter = "public"`) or the licensed API; the insiders
job reads the others and is started under the public adapter only (`scheduler.py:165`, `cli.py:145`, `cli.py:226`), as in
`StartPublic`. An administrator may switch at any time; what has begun goes on as it began.

**Accounts.** A request (`request`) begins by reading its rows, deciding and answering, and commits later over whatever is
then there: the flush writes the columns that changed (`Flushed`). A sign-in (`attempt`) is cut where the code ends a
transaction, since the counter store has a session of its own: the check of the failures (`Knock`, `Answer`), the count
inside `hit()` (`Fail`, `Prove`), its insert (`Insert`), and the answer (`Login`, `MfaVerify`), with `Lapse` for hits that
leave the window. Concurrent wrong codes therefore pass the limit, as they do in the code, and a challenge can be answered
twice; `LimitsHold` says by how much. History: `epoch` counts committed revocations and tokens carry the one
they followed, so that "handed out before" is not read off the version it is compared with; `tries` is what a counter let
pass, `crowd` the most workers at once on a counter or a kind of link, and `crossed` the accounts of which one revocation
overwrote another, or was lost after its answer had left.

**Organisations** extends Accounts. `squeeze` is the most requests for a seat of a team under way at once and `joins` the most
requests of one account to sit in one: seats may be oversold, and an account may sit in more than one team, by exactly
that overlap, and no team or account is excepted. Ids of deleted rows come back, but not those that a request still holds.

**Portfolios.** Requests are cut as in Accounts; `unsure` collects the instruments whose rows a request wrote over
another's commit, and the property speaks of the others.

**Candles, Quotes.** Both extend `PriceProvider`, which extends `RuntimeSettings`: a request resolves the provider
from its process's settings object, so the switch of the provider is interleaved with cached answers.

**SearchIndex.** A run of `reindex` is four steps to read and four to write, one of each per kind, and a commit: `run`
holds what it set out to do, `work` the kind whose turn it is, the rows it wrote and the watermark it will store.
`ReadKind` sees what is committed by then, `WriteKind` waits for rows another run holds. `saw`, `due`, `crossed` and
`excused` are history: only the property reads what they record.

**Scores** extends `FundFlows`: the same activity the leaderboard and the warehouse views are checked against is what the
scores are computed from.

## 3. Runs

A run's module composes components that mostly share no state. A product of them would only multiply their states, so
a variable `story` picks at the start which of them moves (in `MCAccounts` also which actions). The composition that is real
(Organisations over Accounts, Scores over FundFlows, caches over settings) happens inside a story.

| run | stories and instance | result |
|---|---|---|
| `outbox` | 1 event, 2 workers (symmetric), 3 attempts, lease of 2 ticks, clock to 6, 1 retry, 1 crash, late answers allowed | holds |
| `outbox_live` | 2 events, 1 worker, 1 event per batch, 2 attempts, 1 crash, clock to 20, `TimelySend` | holds |
| `facts` | *facts*: 7 filings for 3 books (correction, restating and additive amendments of one day, a correction that moves the date), 1 job, 1 crash; *limits*: limits of 1 in windows of 1, moments 0 to 2, 2 processes, 2 tries, 2 outages; *inbox*: 2 ids, 2 bodies, 2 servers, 2 posts | holds |
| `facts_live` | 4 filings, 2 jobs, 1 crash | holds |
| `signal_alerts` | *alerts*: days 0 to 3, computes of today or yesterday, windows of 0 and 3 days, gap 1, 2 row ids, 1 rollback, an early and a late rule; *briefs*: 2 runs, 1 reader, 2 markets, 2 users, 1 lost run; *speech*: 2 listeners, 1 warmer, 2 chunks; *numbers*: 0 to 120 and thousands | holds |
| `insiders` | *filings*: 7 Form 4 documents, 3 KAP filings, 4 classes of 3 issuers, 2 classes a run; *fetch*: 5 filings through the website, the ingest job, 1 failing page; *adapters*: the same filings, both jobs, the adapter switched, pages of 2, 4 calls; *pages*; *table*, *cache*, *switch*: 2 keys, 2 callers, 2 processes; *walk*: 5 companies, 2 a run; *figures*: one company's statements; *books*, *basket*: 2 stocks, 2 funds, 4 days | holds |
| `accounts` | 3 accounts, 2 workers (symmetric), limit of 2 failures; *sessions*: an account that mistypes nothing signs in, changes its password, logs out everywhere and follows links, 2 links, 3 generations; *recovery*: the same account under an operator's changes; *factor*: a second factor, 1 challenge, wrong codes, lockouts; *seats*: a team of 2 seats whose plan moves, 3 row ids; *joins*: two teams and an account invited to them | holds |
| `flows` | *flows*: 2 funds of a house, days 0 to 3, 2 trades, reports and corrections in any order; *runs*, *builds*: 3 processes, overdue once the hour has turned, 2 hours; *header*, *hours*: 2 tickers, 2 requests (together in the last second only), 2 markets; *plans*: 2 subscriptions (symmetric), 4 events, 2 instants, grants in between | holds |
| `surfaces` | *corrections*, *filings*, *notes*: 1 or 2 documents, clock to 3; *headlines*: 2 overlapping runs of any kind, clock to 1; *pending*: 2 overlapping runs, ordinary or retagging, clock to 3 and headlines waited for 2 of it; *events*: 3 ids, 1 drop; *books*: 2 clients (one at a time over a full portfolio), 3 recorded rows; *releases*: 2 versions, 3 artifacts of which the updaters may be signed, 2 handlers | holds |
| `overlapping_jobs` | 3 filings, 2 jobs: re-running never double-counts (`services/pipeline.py:6`) | violated |
| `last_admin` | *admins*: two administrators, 2 workers: the last active administrator cannot be removed (`api/routes/admin.py:47`) | violated |
| `overlapping_revocations` | *sessions*: one account, 2 workers: a password change ends every other session (`services/auth.py:143`, `:241`) | violated |

**Why the bounds are enough.** `outbox`: the clock runs past two full leases, so that a lease can expire, be taken
over, and the first answer still come; 3 attempts plus a retry exhaust and extend the budget once; a third worker
could only repeat what the second does to the first. Events are independent but for the batch, whose limit
`outbox_live` exercises; its clock reaches 20 because two events, two attempts each, a crash's lease and the pauses fit in
it; a smaller one would stop time and fail the property. `facts`: every relation between two filings the code
distinguishes (names, restates, adds to, same day, other date) occurs, and every order of storing and batch is explored.
`signal_alerts`: the gap of one day and the longer window make episodes that continue, lapse, touch and
overlap; two ids are an episode and its successor; two runs and a reader are the fewest that can wait for each other's note.
`insiders` explores four starts of its filings: two filings of one issuer whose amendments share owners, one of them
with a wrong day; a document listed under a second issuer; three issuers, two of a run's classes being one issuer's;
and one party's KAP filings, one correction naming the original, one not. An original with two amendments is the longest
chain in which a link can be in the wrong place. Five companies and a quota of two make the run wrap around with a
company that never answers. `accounts`: two workers are enough for one request to commit over what the other read and for two
attempts at one counter; three generations are those of before, between and after two revocations that overlap; the third
account is the operator, or the one invited. `flows`: three days of reports make two
moves and a trade on either side of each; a third process is needed for a takeover of a takeover. In *plans* two instants give
events of the same and of different seconds, and a life from checkout to deletion takes four events; what a longer history
could add is left to the proofs, which cover all four of its properties. `surfaces`: a tab
starts above an id, and two ids may commit in the wrong order. Lengths (7 days, 3 minutes, 500 rows)
are parameters that are only compared.

**Deadlock** is checked in the outbox and facts runs, where there always is a step to take (a listener, a nightly job). The
other instances stop when their bounds (events, days, ids, calls) are used up, so their configurations turn the check off.

**Fairness.** `outbox_live` assumes weak fairness of the clock and of `dispatch()` for a worker: the scheduler runs it
every 30 s and its loop always goes on to the next event. It does not assume that owners act; the property only
speaks of runs in which deliveries are not held for ever. `TimelySend` is true there: a worker that is alive answers in time
(10 s against three minutes); the safety run does not assume it. `facts_live` assumes that the nightly compute happens
again and again and that a job which was started goes on or is started again (`scheduler.py`'s timetable); nobody must
publish anything, and crashes are not fair. All other runs are of safety and assume nothing.

**Symmetry** is declared for workers, requests, handlers, listeners and processes of one kind, and for subscriptions: no
property names one and no action treats one differently. The liveness runs declare none.

## 4. Proofs

All proofs are checked to the last leaf by TLAPS. They hold for every value of the constants under the assumption
each module names (`OutboxAssumption`, `FactsAssumption`, ...), which says what kind of value each constant is, and no more,
with these exceptions: `Filings`, `Forms`, `Kap`, `Classes` and `Numbers` are finite; accession numbers are unique and a
correction names a filing that is not from a later day (`InsiderAssumption`); and the theorems about counts, superseding
and books assume `OneJob`, without which `overlapping_jobs` refutes them.

27 of the 38 properties the passing runs check are theorems as well.

| theorem | property | the invariant behind it |
|---|---|---|
| `Webhooks_proofs!SendingIsSafe` | `SendingSafe` | while a lease runs, the row carries its worker's token and the same end (`LeaseAgrees`); a batch was selected in the past (`BatchInPast`), without which the claim's stale `due` clause would let a running lease be taken |
| `Implements` | `KeepsPromise` | only stored events are sent (`SendsStored`); each step is one of `WebhookPromise` or leaves `Outcome` and `taken` alone |
| `LimitsAreHeld`, `OneOfEach`, `Admission` | `AdmittedAndKept`, of `ReceiverSpec` | what a window has let through and the requests that counted below its limit share one quota (`Quota`), because whatever was let through and can still be seen is a row (`Backed`); a window that is over is not added to, since a hit is entered at most `Stall` after it was asked (`Past`); a message that is inserted and not committed has its id to itself (`IdsTaken`) |
| `DisclosureFacts_proofs!ChangesAreLive` | `ChangesLive` | any number of jobs |
| `CountsOnce`, `Superseding` | `CountedOnce`, `SupersedeLaw` | what a job has loaded is still pending and flagged as it was loaded (`BatchFresh`): what a second job breaks |
| `BooksAreNewest` | `BookIsNewest` | with one job the batch is all that is pending, so that with nothing late a batch begins after everything parsed (`BatchWhole`, `InOrder`); what a book's snapshot and parts are from (`BaseSound`); and when a full report is parsed that has no snapshot, its heir is still pending (`HeirPending`) |
| `Subscriptions_proofs!OneLiveSubscription`, `PlanIsSound` | `OneLivePaid`, `PlanSound` | `Rules`: one live row, a plan with a reason, nothing undercut, and a plan without a source is FREE or older than any grant (`Legacy`) |
| `RowsFollowTheProvider` | `ProviderAgrees` | what an event says was true when it was sent (`ToldTruly`), it is dated no later than now (`Dated`), and the row is what the newest applied event said (`FollowsNewest`) |
| `HigherGrantsStand` | `HigherGrantKept` | from `Rules`, step by step |
| `SignalAlerts_proofs!OutcomesOwned`, `EpisodesAnnounced`, `DeliverySafe` | `OutcomeOwned`, `Announced`, `HeardAsOwed` | the collapse keeps ids and ends (`CollapseSound`); an undelivered notification was heard at most once per rollback (`HeardBound`) |
| `RunsNotifiedOnce`, `FirstDaysStand` | `NotifiedAtMostOnce`, `FirstDayKept` | the episodes lie more than the gap apart (`Episodes`), the unbroken run belongs to the last one (`RunIsLast`), and ids are not handed out twice; the collapse leaves nothing to merge (`NoneLeft`, `CollapseApart`) |
| `Sources_proofs!LinksAreKept` | `LinksKept` | links run along `Precedes`, an order of the stored documents by day, kind, then id, so that every chain ends; on the Form 4 side what is superseded is no candidate any more (`Form4Sound`) |
| `RunsTakeTurns` | `RoundRobin` | ranks of the last reading are kept in order, so that the classes a run takes are the stalest (`RunSound`), and an issuer is owed a turn only while it is staler than what was read (`OwedSound`) |
| `ListsAreReadThrough` | `ListReadThrough` | what a filing was passed over for, its place in the list at hand and what is unread before it together stay below what was ahead of it and failed since (`Balanced`); below the cursor of a run through the API nothing readable is left (`ApiRun`), unless the run is out of calls |
| `Accounts_proofs!CredentialsAlwaysHold` | `CredentialsHold` | the generation of a row is the number of revocations that committed, and a token, a row held by a sign-in and a request under way carry the one they followed (`Generations`, `TokensDated`, `AttemptsDated`, `RequestsSound`), unless one revocation was written over another; the live links that no request under way is about to kill, and those requests, are together no more than were ever under way at once, whichever of them commit last (`LinksBounded`) |
| `TheLimitsHold` | `LimitsHold` | a counter below its limit has counted every try; at its limit, what it let pass and the attempts that are past its check together stay below the limit and the most workers that were at it (`Counted`) |
| `TeamsAreSound` | `TeamsSound`, of `TeamSpec` | the rows of a team and the requests that may still add one stay below the seats granted and the most such requests at once (`SeatsCounted`), and so do the teams of an account (`JoinsCounted`); no row gets an id that a request holds (`HeldStays`): that ids of deleted rows come back only when nobody holds them is an assumption about the id allocator (`FreeIds`) |
| `AccountsHoldWithTeams` | `CredentialsHold` and `LimitsHold`, of `TeamSpec` | to the accounts, a request about a team does no more than mint or use an invitation, which is a link of another kind |
| `Jobs_proofs!JobsAreInOrder` | `JobsInOrder` | the build that is not overdue is the one the lock row tells of (`LockTells`) with the start it was taken with (`StartsKnown`), unless a takeover was raced; a run's row is locked until it is overdue (`RunsRecorded`) |
| `IndexFollowsDocuments` | `IndexFollows` | whatever the next run will not read is right in the index (`IndexCurrent`), and whatever the run after it will not read is right in the rows of each run under way or is still ahead of it (`RunsCover`): by the time of the flush, `SLACK` covering what was open and what overlapped, by id for filings, or by the list of headlines that wait for the AI pass; what a run has read and written is true, or stamped late enough to be read again (`ReadTrue`, `WrittenTrue`); what was found stored at the start is in the run's rows once its kind's turn is over (`SawCovered`), also when another run wrote it (`SawFresh`) |
| `SignalAlerts_proofs!BriefsReachOnce` | `BriefOnce` | a run delivers a market only while its transaction holds the Turkish note's row, and holds it until the deliveries are recorded (`RunSound`, `HoldApart`); what was sent is what committed or lost runs sent (`Counted`) |
| `Surfaces_proofs!ReleasesAreSound` | `ReleasesSound` | what an open request read of its row is still so when it commits (`RequestsFit`), because requests that clash fray their version (`Apart`); a slot of a directory is what the one open upload into it will write, or else what the rows say (`DiskTells`); numbers follow the order of creation (`InOrder`) |
| `NothingIsPassedOver` | `NothingPassedOver` | what is on the wire is in the order of ids and above the tab's cursor (`LiveInv`), so that the cursor passes an event only with its page |
| `BooksFollowRuns` | (part of `RowsAreDerived`) | what a request that no other one crossed is about to write follows from what it is about to leave (`Foresees`) |

That a nonempty finite set has a last element is derived from the library's facts on finite sets and well-founded
orders; no induction of our own is used. The other theorems of `PROJECT.json` are the type
invariants and the parts of the above that can be cited by themselves.

The theorems about accounts are stated of `Accounts!Spec` and again of `TeamSpec`, where requests about accounts and
teams interleave freely; TLC runs them in separate stories. Those about releases, live events,
portfolios, the index and KAP are of `ReleasesSpec`, `LiveSpec`, `BooksSpec`, `IndexSpec` and `FetchSpec`, which share no
variable with the others; the limits and the inbox have `RateSpec` and `InboxSpec`, and `ReceiverSpec` interleaves the two.

**What the proof attempts found.** Three properties that TLC had found no fault with were not what the code promises:

- `NotifiedAtMostOnce` failed for a compute of a past day that a merged episode already covers: it stores a row of its
  own and tells the rule again (`Past` in `SignalAlerts` names the case).
- The first form of `BookIsNewest` failed for a book that has lost a report: 1 and 2 are reports, 3 corrects 2 and
  cannot be parsed, 4 lists NEW HOLDINGS. The book is then 4 alone (`Orphaned`).
- `IndexFollows` failed once the clock passed the time a headline is waited for: each run stores the list of waiting
  headlines it began with and has read, over the list another run stored meanwhile, and a headline that only the other
  had listed is not read again when the AI pass tags it. The story *pending* now reaches it (`excused` in `CommitRun`).


**Model-checked only.**

- `Settles`, `Converges`: liveness; fairness and ENABLED are out of the prover's reach.
- `TradesOfOne`, `FiguresAddUp`, `RowsAreDerived`, `BooksAgree`, `HeardAsWritten`: what
  they state is a sum, a count over a growing set or the result of a recursive definition (grouping by person, FIFO lots,
  words of a number): induction over data.
- `ReadAsFiled`, `CandlesHonest`, `FundamentalsSound`, `HeaderHonest`: stated over the library's
  recursive operators on sequences (`SelectSeq`, `SetToSortSeq`, folds).

## 5. Where the code does less than it says

Three disagreements have a run and an entry in `findings`:

1. `overlapping_jobs`: two jobs that overlap parse one pending filing twice. `parse_pending` loads without a lock,
   `kap_offpeak` and `sec_daily` both start at 08:00, and the administrator's lock is not taken by the scheduler.
2. `last_admin`: two administrators who demote each other at once have both counted two active ones (`admin.py:45`), and
   none is left.
3. `overlapping_revocations`: `token_version` is raised from the value the request read, so that two revocations that overlap
   write one generation and a session handed out between their commits outlives the second (`services/auth.py:143`).

The others were met while modelling. The properties except exactly these cases, and each is named where it is excepted:

- A correction stored before its original supersedes nothing, and an original that comes after two amendments of it counts
  beside the second (`_superseded_on_arrival` asks for `supersedes_id IS NULL`). Two KAP corrections that name one
  filing both stay; two originals of an owner on one day cannot be told apart (`Unambiguous`, `NamedOnce`, `InOrder`, `Pair`).
- A book that lost a report can end as its list of NEW HOLDINGS (`Orphaned`).
- A deletion that overtakes the first event of its subscription is dropped and the subscription goes live (`missed`).
- When a grant above a paid plan runs out, the account falls to FREE although it pays, until the next event (`billing.py:449`).
- A rule can hear twice of one signal after a collapse gave the episode an older row's id (`pipeline.py:394` against
  `alerts.py:181`), and after a compute of a past day (`Past`).
- An insiders run that outlives the switch of `kap_adapter` to the API may store a filing beyond what a failed ingest has not
  read; the API goes on after the highest index any job stored and never asks for what is below it (`NoGap`; `pipeline.py:74`).
- A portfolio's cap on positions is not asked when a transaction makes one (`portfolio.py:255`; `plans.py:32`).
- An event that commits below an id a tab has passed is lost to it (`live.ts:10`; `late`).
- A takeover of the build lock deletes by key, and two at once can leave two builds (`warehouse.py:476`; `raced`).
- A build that outlived its lock, or was cut short before its refresh, can leave `latest.duckdb` older than the newest dated
  file (`warehouse.py:504`; `behind`).
- A candle answer that is dropped takes the lock of its key with it while a caller is about to wait for it, and two callers
  fetch at once (`candles.py:143`; `orphaned`): `CandlesHonest` says of the others that one key is fetched once.
- Two listeners, or a listener and the warming thread, that render one narration write the same temporary file, which may be
  cached mixed (`tts.py:144`; `crossed`).
- A run of the index that started before a headline was retagged overwrites the reapplied row.
- A headline that waits for the AI pass is to be read again "on every run until" it is tagged (`search_index.py:18`), but
  the watermark is read at the start of a run and stored at its end, over what an overlapping run stored; and the wait
  ends after `PENDING_AI_DAYS` (`crossed`, `excused`).
- Companies the provider knows nothing about are asked for first every week (`Silent`); once they fill a run, nobody else gets
  a turn (`Quota > Cardinality(mute)`; `fundamentals.py:131`).
- `set_many` patches the process before its commit; a rolled-back edit stays in force there until the next reload.
- A published version can be set back to draft and deleted; an upload that is rolled back after the old file was
  unlinked leaves a row without a file (`frayed`).
- `compute_intelligence` can store the CONVICTION score of an instrument twice for a day (`pipeline.py:462`; `models.py:388`).
- A revocation that was written over another one, or that was rolled back after its answer had left, leaves tokens that do not
  match the account's history (`crossed` of `Accounts`; the first half is `overlapping_revocations`). Whatever else
  overlaps is not excepted.
- Wrong passwords and codes, uses of a challenge, live links, seats and memberships exceed their limit by one for each further
  request that was at it at once: the code checks in one transaction and writes in another (`hardening.py:177` says so of
  `hit()`). `LimitsHold`, `OneLiveLink` and `TeamsSound` state that bound instead of the limit.
- Two requests about one instrument of a portfolio that read before the other's commit can both sell the same shares
  (`portfolio.py:253`; `unsure`).

## 6. Simplifications

Beyond the abstractions each module's header names:

- *Transactions as one step* in `Subscriptions`, `SignalAlerts`, `FundFlows`. Insiders' runs do not overlap, as the
  scheduler does not start a job that is still going.
- *Time.* Expiry of a token is nobody using it any more. Lock statements of `RunLocks` take no hour, and builders are
  distinct processes. A hit takes at most `Stall`, and windows are shortened by it; process memory is forgotten
  when the table appears. The index assumes that an open transaction and a run
  together fit into its slack (`SearchIndexAssumption`); a reapplied window is taken by the time fetched.
- *Numbers.* A share costs one in `FundFlows`; in `Scores` a fund's book is worth the same at every report, figures are
  rounded down, and the closes of a divergence are independent of the flows. Portfolios have no fees. A chart's `open` stands for
  open, high and low. A zero denominator counts as a line that was not reported.
- *Scope.* One market in `SearchIndex`, one stock in `FundFlows`, one account in `Subscriptions`, one endpoint's inbox. In
  `Baskets` the publication filter is left out because the day asked for is today, and a book that was superseded but left is
  excepted. The lists of the KAP website are disjoint and the API's window is the instance's. KAP's choice of an authentication header, the `force` flag of quotes and the status flags of providers are left out.
- *Signing in.* Reading the failures and reading the account are one step, as nothing follows from a failure in between. The
  hit that burns a challenge outlives the challenge. Two registrations of one address race to the unique column, and
  registering is one step. The counters of `RateLimits` and those of `Accounts` are the same code (`hardening.py`): there its
  windows, fallbacks and outages are modelled, here what two sign-ins at one counter do.
- *Releases.* Notes and download counts are left out, and uploads that wait for their turn are not at rest.
- *Databases.* Row locks are PostgreSQL's in `Briefs` and in `DisclosureFacts`; ids that come back are SQLite's in
  `Organisations`; `signals.id` is a sequence a rollback does not return.
- *Inbox.* A malformed or unsigned request is refused before the session is touched; the three limits refuse or not, whatever
  was counted, so that how many requests of a sender are admitted is said by `RateLimits` alone.

## 7. Not modelled

SEC's HTTP and XML, the 13F and share-transaction parsers (functions that succeed or fail), the mapping of
instruments, the AI pass over filings, news fetching, language models and voices, the feature matrix of plans, checkout
pages, pruning of audio files, verification and manifest of a warehouse build, creating and renaming portfolios,
watchlists and preferences (single rows of one user), price and score alert rules, the fallback to polling, ranking in
search, the web client's rendering, deployment scripts. Read models other than those of sections 1 and 2 change no state.
`instilens users set-role`, an outage of the counter store during a sign-in, two billing requests that apply events at once
(`billing.py:366`), serialization failures, clock skew between processes and the loss of the database are out of scope. The `note` of each
component in `PROJECT.json` says what is left out of it.

## 8. Plan

1. Proofs: one fetch per key of `CandlesHonest`.
2. Price-rule crossings (`alerts.py:220`) and the remaining detectors as operators against reference definitions.
3. The admission cap of the outbox and endpoint rotation.
4. Billing requests of two steps, for two workers that apply events of one account at once.
