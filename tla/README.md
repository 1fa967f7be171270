# Verification of the review catalogue

TLA+ modules for the parts of this repository where steps of several actors
meet, or where a long sequence of legal calls may lead somewhere illegal: the
transactional outbox and the rating projection it maintains, the review write
path and moderation, the keyset listings, the durable pipeline engine of
`packages/jobs`, the rate limiters, the API process with its pool, workers and
shutdown, accounts and sessions, the routes, the seed, the SPA in one tab, and
two of the repository's tools (migrations and extraction). TLC checks them on
small instances; TLAPS proves their safety properties, all but two, for every
instance.

    tlc -workers 2 -config RatingOutbox_relay.cfg MCRatingOutbox.tla
    tlapm RatingOutboxProofs.tla

`PROJECT.json` lists the runs, the mutants each property was tried on, the
source lines each definition models, the hazards and the findings.

## 1. The system

A bun monorepo: an API process (Elysia and oRPC over PostgreSQL, with its
background workers in the same process, over Redis), and a React SPA.

| Component | State | Operations | Talks to | What is hard, what must hold |
|---|---|---|---|---|
| Review writes, `packages/reviews/src/reviews.ts`, `moderation.ts` | `reviews.review`, one row per author and product | submit, update, remove, moderate | outbox (same transaction) | reads before the lock decide; one review per author and product, replays answered truthfully, each change with exactly one event |
| Rating projection, `rating.ts`, `internal/recompute-statement.ts` | `reviews.product_rating` | recompute one product, rebuild | run by the relay | a statement's snapshot precedes its row lock; never shows an older aggregate for good |
| Outbox relay, `packages/jobs/src/outbox.ts`, `apps/api/src/runtime/reviews-rating-worker.ts` | `jobs.outbox`, `jobs.dead_letter` | enqueue, pass (claim, apply, mark), park, triage | projection, on the pool | concurrent passes, kills, lost answers; every committed event applied or parked |
| Listings, `products.ts`, `reviews.ts`, `moderation.ts` | none: a cursor per reader | first page, next page | reads what the writers change | rows move while a reader pages; no skip, no repeat |
| Catalogue writes, `products.ts` | `reviews.product` | create, update | listings, routes | slug uniqueness |
| Stage engine, `packages/jobs/src/stage.ts` | `{table}`: status and attempts per stage; `{table}_stage_result` | run a stage (check, claim, call, write ahead, complete, successors) | queue, dead letters | duplicate deliveries, crashes at every step; one result, calls bounded, failed is final |
| Branches, `branch.ts` | `{table}_branch` | register, run, complete, fail | stage engine, reconciler | joins closed once, by the right caller |
| Reconciler, `reconciler.ts` | none | re-drive stale stages and branches, heal missed joins | queue, instance tables | races the workers it suspects dead; every started unit settles |
| Retention, `packages/jobs/src/retention.ts`, `packages/auth/src/retention.ts` | none | batched deletes by age | job and auth tables | must not delete what a retry or a live session needs |
| Limiters, `packages/messaging/src`, `http/security/rate-limit.ts` | one sorted set or hash per key in Redis | acquire, consume | Redis, the HTTP boundary | calls of one millisecond, EVALs that land late; no window admits more than its limit |
| Process, `apps/api/src/runtime` | phase of boot and shutdown, supervisor clock, worker handles, the pool's leases | boot, probe, give up, shut down | every worker, Redis, PostgreSQL | everybody shares one pool; each wait ends, no exit without a reason |
| Accounts, `packages/auth` over better-auth | `auth.*` rows, `identity.app_user`, links | ask for a link, follow it, resolve a session, sign out, erase | mail, routes | several statements, no transaction; a session's identity has its app_user |
| Routes, `apps/api/src/routes`, `http` | none between requests | session, bucket, input, guard, call, read, answer | accounts, `packages/reviews` | rights end between the steps; nothing served without one |
| Seed, `apps/api/src/db/seed.ts` | none | ensure accounts, product, review, reject, rebuild | accounts, `packages/reviews` | killed and run again beside a live application |
| SPA, `apps/app/src` | location, screen, query cache, calls in flight, sessionStorage | forms, lists, acts on rows, sign-in round trip | API | answers that arrive after an edit, a navigation or a 401 |
| Migrations, `tools/arch-checks/src/migration-ddl.ts`, `packages/persistence/src/migrate.ts` | Kysely's tables, the schema | gate a release, run a release | PostgreSQL | two releases at once; what the gate accepts keeps the conventions |
| Extraction, `tools/extract-module/src` | a work directory per target | extract one, all, those changed | git, bun, moon | shapes of the dependency graph; a verdict that says what happened |
| kernel, config, mail, observability, styles, other tools | constants, telemetry | | | error classification |

How they interact: a review write commits its row and an outbox row in one
transaction. A repeatable job ticks the relay in every API process; a pass
claims a batch under `FOR UPDATE SKIP LOCKED` and recomputes each row's
product on another pooled connection, so a recompute commits before, and
whether or not, the pass does. Requests, passes and health checks compete for
the process's one pool; the supervisor watches the workers and ends the
process when they stay dead; a signal closes server, workers and pool in that
order. A request resolves its session afresh and every later step relies on
what it found. The SPA believes in a cached bootstrap until a call is refused.
Readers page through reviews and products by keyset cursors, over tables those
writes change. The pipeline engine has the same shape, a state row that a
deterministic queue job is only a hint for, and is exercised by the package's
own suites: no pipeline is composed in `apps/api` yet, so its callers'
callbacks are modelled as what its contract asks of them.

## 2. The modules

| Module | Models | Checked by |
|---|---|---|
| `RatingOutbox` | producers, relay passes, recompute statements, rebuild, parking and triage | `MCRatingOutbox` |
| `AtLeastOnce` | what an outbox promises: a debt per write, discharged by an application that has seen it, or parked | refined by `RatingOutbox` |
| `RatingOutboxProofs` | theorems about `RatingOutbox` | TLAPS |
| `ReviewWrites` | the four write operations, statement by statement | `MCReviewWrites` |
| `AtomicReviews` | the same operations as single steps | refined by `ReviewWrites` |
| `ReviewWritesProofs` | theorems about `ReviewWrites` | TLAPS |
| `KeysetListing` | pages, cursors and the writers between them | `MCLists`, `MCKeysetListing` |
| `RateLimits` | the sliding window and the token bucket, their callers and their clock | `MCLists` |
| `ListsProofs` | theorems about `KeysetListing` and `RateLimits` | TLAPS |
| `PipelineStage` | one stage of one instance, its queue job, its workers, the reconciler, retention | `MCPipelineStage` |
| `PipelineStageProofs` | theorems about `PipelineStage` | TLAPS |
| `PipelineJoin` | the branches of one fan-out, their join, its heal | `MCPipelineJoin` |
| `PipelineJoinProofs` | theorems about `PipelineJoin` | TLAPS |
| `ApiProcess` | boot, shutdown, exits, the pool | `MCApiServer` |
| `ApiWorkers` | the workers' jobs and the supervisor, over `ApiProcess` | `MCApiServer` |
| `ApiHttp` | a request from socket to answer, over `ApiProcess` | `MCApiServer` |
| `ApiServer` | the three together | `MCApiServer` |
| `ApiServerProofs` | theorems about `ApiServer` | TLAPS |
| `Accounts` | sign-in, sessions, erasure, auth retention | `MCParts` |
| `Seed` | the seed script beside a live application, over `Accounts` | `MCParts` |
| `Routes` | the contract's twelve routes and the order of a request's checks, over `Accounts` | `MCParts` |
| `Extraction` | the extraction commands | `MCParts` |
| `Migrations` | the migration gate and the runner | `MCParts`, `MCMigrations` |
| `PartsProofs` | theorems about `Accounts`, `Seed`, `Routes`, `Extraction` and `Migrations` | TLAPS |
| `WebTab` | location, session, calls, guards, the 401 handler, sign-in | `MCWebApp` |
| `WebReview`, `WebModeration`, `WebCatalogue`, `WebAuthoring` | one feature each, over `WebTab` | `MCWebApp` |
| `WebApp` | the tab: all of them | `MCWebApp` |
| `WebAppProofs` | theorems about `WebApp` | TLAPS |

Every module takes one action per statement or transaction, whichever is the
larger unit that nothing else can interleave with. Definitions marked
`Mutant:` are plausible bugs of the definition next to them; no specification
uses them, they show that each property can fail.

### RatingOutbox

A product's reviews are a version number, raised by each committed write; a
projection row is the version it summarises, so "the projection is right"
becomes `rating[p] = ver[p]`. An outbox row is `open` in its writer's
transaction, then `pending`, `processed` or `dead`. `Claim` is the CTE of
`relayOutboxBatch`; `todo`, `ok` and `bad` are the rows a pass holds and has
marked, none of it visible until `CommitPass`. `BeginApply` takes a row's
product to a pooled connection, where the statement's snapshot is taken;
`Land` and `Abort` end it, at any later time, and answer the pass if it still
waits; `LoseAnswer` is an error on the way back. A row marked failed for the
last time is given up at once: `WriteLetter` is the `INSERT ... ON CONFLICT DO
NOTHING` of its triage record, which waits for another pass's uncommitted record
(`drafts`) and passes over a committed one without a lock; `filed` are the rows it
has been called for. `CommitPass` lands marks, attempts and drafts together.
`Kill` ends a pass, whose process died or whose transaction failed, and leaves its
statement running, as PostgreSQL does. `PurgeLetter` is retention's
`purgeDeadLetters`; it may delete the record a pass has just passed over, and the
pass then parks its row with no record at all (`purged` remembers it; section 5).
`overlapped` records the products that ever had two
statements in flight at once: without the relay's own transaction around the
recompute, those are the ones whose projection may go back.

### ReviewWrites

Requests race on one product: `ReadFor...` outside any transaction, `Lock`,
`RereadForSubmit`, `Insert` or `WriteFor...`, `Emit`, `Commit`; the unique
constraint's violation and the re-read after it; and `Fail` for a connection
lost at any point. A statement that would write a row another transaction has
written waits for it. `Outsiders` adds a client that inserts rows without the
package's lock: only then can the constraint's path be taken. `AtomicReviews`
has each request as one step between its call and its answer, and the
detailed module implements it, with the identity as the refinement mapping.

### KeysetListing

Rows are numbers in the order the last tie breaks. `Load` is one statement:
`Limit + 1` rows are read and the last row of the page becomes the cursor.
A cursor is what `productCursorKeyOf` makes of the row: `Millis` truncates
`created_at` to the milliseconds a JavaScript `Date` has. `Insert`, `Hide`,
`Show`, `Rerate` and `Rename` happen between pages. `held` is the set of rows
listed since the first page whose place in the sort has not changed: what a
reader may expect to see exactly once.

### RateLimits

One key of each limiter, since subjects and buckets share nothing. A decision
is one EVAL: atomic, timed by Redis's clock (`clock`). A caller waits
`Deadline` ticks and is then let through (or refused, fail-closed); its EVAL
may still run later (`late`), count, and find its window gone. Keys expire,
Redis goes away (`up`) and comes back empty. `granted` and `level` are the
abstract side: the admissions of the last window (each with its millisecond and
its number, which `admitted` counts), and what a bucket refilled without
interruption would hold. A bucket's levels are whole fractions of a token, read
with an error: the script computes in doubles and keeps `tostring` of the level,
fourteen digits (`token-bucket-lua.ts:53`), so `Reads` are all levels within
`Error` of the exact one, and the wait is computed from any of them. `Error` is
at most half of what a millisecond refills (`ErrorAssumption`; at a hundred
requests a minute it is smaller by more than eight orders of magnitude). A cost is any
positive amount, above the capacity too, as `tryAcquire` takes it. `hint` follows a
refused caller that nobody overtakes. `RetryAfterHolds` says what it may rely on:
the window's wait is exact, to the header's whole seconds at least enough; a
bucket that can hold the cost admits it from the millisecond after the wait named
and not before the last millisecond of it. That the wait itself suffices, the port's
promise, is not so (section 5). Left out: the suppressor of repeated log lines.

### PipelineStage

`runPipelineStage` from the job's delivery to its acknowledgement. Each
transaction under the instance's advisory lock is two steps, its locked read
and its write with commit, since `performExternalCallWithRouting` writes its
dead letter under no lock and may come between. The queue is a job under its
deterministic id: a second `add` is ignored, `remove` leaves an active job
alone, an expired lock makes the job waiting again while its worker still
runs. Retention deletes a result by the age of its row, whatever the stage is
at. A behaviour has one `scenario`: what may go wrong (`crash`, `throw`,
`stall`, `flush` of Redis), what the provider may answer (`retry`,
`terminal`), how many of the former; whether staleness exceeds a stage's
longest duration (`Punctual`, the condition of `reconciler.ts:423`); and
whether a result may reach its horizon while an attempt is in flight
(`Early`, what `retention.ts:74-79` takes `staleAfterMs` to exclude).
`OneResult` excepts early purges: there the second call is what the code does.

### PipelineJoin

Owned branches are run by workers (`ClaimBranch` to `Join`), delegated ones
completed by `Callback`, at any time and any number of times. `ClosesLast` is
the guarded update and the count of open siblings; a caller that sees it true
runs the continuation after the commit, unless `Abandon` takes it first.
`DeadLetter` fails the stage and every open branch. `Age` and `Heal` are the
reconciler's; `ContinueStage` is the joined stage's own run, which
PipelineStage has in full.

### ApiProcess, ApiWorkers, ApiHttp, ApiServer

`phase` is where `main()` or `shutdown()` stands, in the order of the code:
the boot starts the workers one by one and then listens, the shutdown closes
supervisor, server, workers, pool and telemetry. A connection is a lease
`<<user, purpose>>`; `waiters` is pg's queue, served in order, without a
deadline. A relay pass holds its transaction's lease and asks for another per
row; a request asks for one in its session lookup and in its handler; a health
check answered 503 at its deadline leaves its `SELECT 1` in the queue. The
supervisor's probe asks its questions one at a time, `close()` leaves a probe
that is out alone, and `GiveUp` exits whatever the phase. What arrives and what
fails is in `load`: either requests and jobs compete, or Redis loses links and
schedules. `wellAgo` counts the intervals since somebody was heard to be well.

External or abstracted: `pool.end`, a worker's close (which waits for its
active job), statements (they end), Redis probes (they answer in bounded
time). A job of the dead-letter and retention workers is one statement.
`createDevMailSender` refuses a fail-closed tier, so as shipped such a boot
exits with 1; the supervised behaviours are those of an adopter with a real
sender. A pool of one connection is legal (`config-slice.ts:31`, `min(1)`) and
there a relay pass waits for itself for ever: the runs take two. The auth
retention worker is not among those the probe asks
(`reviews-rating-worker.ts:151`).

### Accounts, Seed, Routes

An identity is better-auth's row, an `appUser` the application's. `signIn` and
`lookup` are where each browser's sign-in and each request's session
resolution stand: one action per statement, for there is no transaction over
two of them. The library's own statements are external, seen through the hooks
and the schema of migration 0003; that it extends a session when it is used is
left out. `Erase` cascades as 0003 and 0004 say.

`Seed` adds the script, killed and run again, and what users do meanwhile
(sign in, be granted a capability, write to the seeded rows). `Routes` adds
a call per browser that goes through `session`, the rate-limit bucket
(`Count`), the input's schema and then the guard (`Guard`), the operation of
`packages/reviews`, and the read its answer needs. An input is well formed or has one of two flaws: its shape is
refused by the schema, or its meaning (a category that is not one, another
list's cursor) by `packages/reviews`. `rights` records what the user had at any
time since the request arrived; `ServedByRight` compares every write and every
answer that is not for everyone with it. Capabilities are only granted, as the
code has no other way; a session ends by sign-out, which stands for expiry too.
A write whose answer's read fails is answered 500 and stands. When a bucket is
full is a free choice here.

### WebTab, WebReview, WebModeration, WebCatalogue, WebAuthoring, WebApp

A location is a sequence: its head is the page, what follows a sign-in page is
what `returnTo` carries. A call has what was asked, what came of it, and
whether its component is still mounted (`here`): an aborted query disappears, a
mutation goes on and its answer finds the component gone. `known` is the
cached bootstrap the guards read, `live` what the API honours. Each screen's
component state is a record `view` that a navigation replaces; the query cache
outlives it, a page load throws both away; sessionStorage and the API's data
outlive everything. `minted`, and what the user typed last, are what the
properties compare with.

The review form has no key. `OpenForm` mounts it, but a move through the history
between `?review=new` and `?review=edit`, several steps at once, keeps it mounted
with what it holds (`SwitchForm`), and as its mode becomes `new` its effect stores
that as the draft. Two steps therefore take a draft that was neither submitted nor
cancelled: this one, and the success of an earlier submission after the form was
left and opened again. `overtaken` is raised by both until the user types again,
cancels, or has the text accepted; `NothingTypedIsLost` says there is no third.

A fetch is the query library's (external, TanStack Query 5.101.2): an
invalidation or a refetch supersedes the fetch in flight when the query has data,
and joins it when it has none yet (`Joins`). "Load more" supersedes whatever is in
flight and adds its page to the pages cached. `owed` says that the last refetch
asked for was joined or superseded so, until another is made: the list may then be
older than what this tab has done, and `AtRestFresh` excepts it (section 5). In the moderation screen, a refetch of a list with no
data yet cannot follow an act: an act is on a row of a list that was read, and the
caches outlive the calls (`ReadAgain`), so there superseding is the whole rule.

Bounds: a behaviour moves among one journey's pages; one form is in flight at
a time; two rows, texts and names; a location of three pages, two writes; the
product has two pages of reviews and a moderation list one; the answer that is
lost after the write is a review's; the journey that writes a new
review has a single text at a time, and there alone a behaviour goes on after another
tab has changed the review, while there is one (`Bounded`). A name stands for a form's other fields, the
category box is a copy of the search box, the magic link is followed from the
screen that announces it.

### Extraction, Migrations

`Extraction` has one action per step that fails on its own (copy, rewrite,
install, build, test), over workspaces given as constants: dependency sets,
what is liftable, what has tests, whether versions are pinned. What vitest does
(external) is decided by three of them: whether test files travelled, whether the
package's globs match one, and whether its configuration says `passWithNoTests`;
`Test` overrules the last where tests travelled, so that a run which found nothing
fails, and a verdict that says tests ran is true (`VitestPasses`). The globs look
into `test/` alone, as `extract.ts:240-242` says of every package.

`Migrations` keeps of SQL what the gate's rules and the database tell apart:
statement kind, schema, table, name, columns with types, constraints. The gate
reads a release's files, the runners (one lock, one transaction and a prefix
check: Kysely, external) apply them, two releases at once, any of them killed.
Statements the gate cannot read (ALTER, DROP, quoted names, a second statement
in one template) pass it, as they do. What the gate promises of the database
therefore holds in a scope, `InScope`, which names what no rule of it reads: a file
the runner does not run, a statement in another form than the plain one, drops, an
`updated_at` or a vocabulary's change by ALTER, and two tables of one name.
`GateKeepsDatabase` is stated under it, and is false outside it: two tables of one
name break it (section 5).

## 3. The runs

| Run | Shows | Bounds |
|---|---|---|
| `rating_relay` | every committed event is applied or parked with its letter, the projection shows it, the outbox implements `AtLeastOnce` | 1 product, 2 relays, 2 connections, 2 rows, batch and ceiling of 2, 1 kill, 1 rebuild |
| `rating_kill` | violation: a statement of a killed relay lands after the restarted relay's | 1 relay, 2 rows, 1 kill |
| `review_writes` | writes are atomic with exactly the events owed; one review per author, even with a client outside the lock; no circular wait | 3 requests, 1 author, 2 contents, 3 tokens |
| `lists` | the three sorts page to an end, in order, skipping nothing that stays put; no window or bucket admits more than it may, `Retry-After` holds | 3 rows, 1 a page, 5 ticks, no two rows in a millisecond; 2 callers, 2 calls a window of 3 ticks; capacity 4, costs 4 and 5, refill of 2 a tick, error 1; 6 ticks |
| `listing_recent` | violation: two rows in one millisecond | 3 rows |
| `stage` | calls bounded by the ceiling, one result, failed is final, a claimed stage settles, its successors are ensured, it completes when only workers failed | 2 workers, ceiling 4, 2 deliveries; two faults of any kind, or one with results purged early, or two with a provider that answers |
| `stage_lock` | violation: a result applied for a stage that has failed | 1 stall, 1 terminal error |
| `join_branches` | the join is decided once, for branches that all completed; every branch settles; a join whose closer died is continued | 2 owned and 1 delegated branch, 2 workers, ceiling 2, 1 fault |
| `api` | every wait on the pool ends, the process exits for a reason, lost workers and schedules return | 2 requests, 2 connections, grace of 2 probes, 1 row, 2 faults |
| `parts` | sessions have users and accounts keep what they have; the seed delivers; every route serves by right; packages are built in order and verdicts are true; migrations take effect once, in order, and keep the conventions | 2 browsers, 2 addresses, 2 identities, 3 days; 12 routes, 1 caller; 9 workspaces of 4 packages; 166 histories, of which the gate accepts 64, 45 of those in scope; 2 runners |
| `web` | nothing typed is lost but in the two ways named, what rests is fresh, slugs are the server's, no spinner waits for nothing | 6 journeys (see WebApp), one with both forms of a review |
| `web_return` | violation: a second 401 overwrites the location to return to | the moderation journey |

`lists` and `parts` put machines that share nothing in one run: `part` says
which of them a behaviour runs, the others rest.

Why these bounds. The races of the outbox need two passes, two statements in
flight and two rows of one product (one letter per aggregate, one row applied
while the other fails); products share nothing but the code, and the theorems
hold for any number. A review's race needs a pre-read, a writer that commits
after it and a third that takes the lock in between; authors have separate
locks and rows. A page boundary with a tie needs three rows and a page of one.
A window's edge needs calls in three ticks, one of them late. A stage is
claimed by two workers at most usefully: a third meets the same rows. A
ceiling of two separates the first attempt, the last and the one that
dead-letters, and two attempts more for each of two faults let `Recovers`
happen. A join needs a last branch, an earlier one and a delegated one. Two
connections are the fewest a relay pass needs, and two requests beside it
exhaust them. Two runners and three releases' worth of files meet in every
order the lock allows. A second 401, an answer after a navigation and an act
beside a list being read all need two calls in flight, which a journey's pages
make.

Symmetry is used in runs that check no liveness. `api` checks deadlock; the
other systems may come to rest, their requests answered, their faults spent
and their rows settled, and say `CHECK_DEADLOCK FALSE`.

### Fairness

- Relay: `scheduleRepeatable` ticks every worker for ever and a pass is
  awaited, so a claim, the next apply and the commit of a pass are weakly
  fair, and a statement on a connection ends. Writers, kills and rebuilds owe
  nothing.
- Listings: the reader goes on asking; nothing else is fair.
- Stage: workers poll, BullMQ promotes delayed jobs and recovers stalled ones,
  the clock runs and the reconciler's repeatable job ticks. Faults are bounded
  and owe nothing.
- Branches: a worker that took a branch goes on, and the reconciler returns to
  every stale branch and missed join. Deliveries and callbacks owe nothing:
  `BranchesSettle` holds without them.
- API process: an orchestrator restarts it, `main()` and `shutdown()` go on, the
  interval ticks, a probe's questions are answered, a job and a request go on
  when they can. Signals, arrivals, faults and reconnections owe nothing.
- The SPA, accounts, routes, limiters and tools: none. What must not wait for
  ever there is stated as safety: a spinner has a call of its own in flight.

## 4. What is proved

`RatingOutboxProofs` proves, for every set of products, relays and connections
and every bound, from `NoneAssumption` and `BoundsAssumption` alone:

- `TypeCorrect`, `Exclusion` (claims of concurrent passes), `AtLeastOnceApplied`
  (a processed row's write was seen by a recompute that landed),
  `ParkingExact` (rows are parked at the ceiling, neither before nor after),
  `NothingLost` (with nothing pending or parked, every committed write was
  seen), `Convergence` (and then the projection is current, if its recomputes
  never overlapped);
- `Monotone` and `ParkingTriaged`, of steps;
- `Refinement`: the outbox implements `AtLeastOnce`.

None of the invariants is inductive by itself. That a row is processed only
after a recompute that saw it depends on what is in flight: a pass that waits
for a connection must wait for a statement whose snapshot is no older than the
row. `IInv` says so: `ClaimInv` (a held row is pending, in one pass and one
place of it), `EventInv` (no two rows carry the same write of a product,
none a write that has not been made, and the last write has its row), `StatementInv` (a pass awaits
a connection that computes its current row's product, from a snapshot that
covers that row), `AppliedInv` (rows marked in a pass were seen), `FreshInv`
(without overlap, one statement at most, no older than the projection),
`AttemptInv`, and `LetterInv` (a row that was given up has a record in its own
pass's transaction, a committed one, or had one that was purged since). It holds
initially, every action preserves it, and it implies
the rest; the temporal steps are one line each. `Refinement` maps `written` to
`ver`, `seen` to `best` and the two sets of debts to the pending and the dead
rows; every action is a step of `AtLeastOnce` or leaves them alone.

`rating_relay` checks `SettledIsFresh`, `ParkingLeavesLetter` and the refinement on
a small instance; the other invariants follow from the proof alone.

`PipelineJoinProofs` proves, for any owned and delegated branches, workers,
ceiling and number of faults, from `BranchAssumption` and `WorkerAssumption`:
`TypeCorrect` (with the lock held by exactly the worker inside the completing
transaction), `DecidedOnce`, `JoinedComplete`, `NoneLeftOpen`,
`CompletedApplied`, and `SettledForGood` of steps.

The argument turns on the last branch to close. `FailTogether` says that once
any branch has failed none is open, so a caller that finds no open sibling
after closing its own found none failed either, and, as one registration
makes all the rows (`RegisterInv`), none missing: all completed. `JoinInv`
keeps that: after a closing no branch is open or unregistered, hence no second
closing, and a caller about to continue, or a continuation that ran, implies
that all completed. `WorkInv` ties a worker to its branch and to the stored
result it completes with; `AttemptInv` bounds an open branch's attempts, of
which the type's bound on closed ones is the consequence. `join_branches`
checks `JoinOnce` and `JoinMeansAll` on a small instance.

`PipelineStageProofs`, for any workers, ceiling, deliveries and scenarios (a
ceiling and a number of faults are natural numbers, the reconciler is not a
worker): `CallsWithinCeiling`, `OneResultApplied`, `DeadLetterIsFinal` of
steps, and `SettledMeansApplied`, which no run states. `CallsBounded` alone says
nothing of the workers past their claim: `CallInv` adds them (`Owing`) to the
calls made and bounds the sum by the row's `attempts`, so a claim pays for the
call that follows it. That needs `RowInv` (attempts left to a live row),
`JobInv` (a job that may be delivered has a delivery left) and `LockInv` (what a
locked read found is still so when its transaction writes). `ResultInv` follows
one result from whoever computed it through the write-ahead row to
`applyResult`: what a worker carries is what is stored, or nobody is left who
could bring another.

`ReviewWritesProofs`, for any requests, authors, tokens and contents:
`OneReviewKept`, `RequestsAreAtomic`, the refinement of `AtomicReviews` (any
step, while clients without the lock exist; without them, each step is a step of
the abstract request or none), and `WaitsAreForTheLock`. `OneReviewEach` speaks of
committed rows; `ChangeInv` says of each open transaction that its change is the
whole effect of its request on rows of its author, `LockInv` that no two
transactions hold one author's lock, `TokenInv` that a token was minted once, so a
commit leaves the table as the atomic request would. `InsideInv`: while every writer
takes the lock no insert meets a row of its author. That nobody waits at a row
needs that a request past its pre-read knows the author of the token it names
(`TargetInv`): the rows it would meet are then of another author's transaction, and
no such row has its token. `HolderInv`, the converse of `LockInv`, says whom a
waiting request waits for: an open transaction, which is never waiting.

`ListsProofs`, of the listings, for any finite set of rows, any sort, page size and grain
of the cursor: `InOrder`, and `NoneSkipped` where cursors are exact, that is
under `Spaced` or a sort other than `recent`. Its condition is the finding
`listing_recent`: without it the statement is false. The lemmas order
keys and rows (`Above` is a strict total order, a nonempty page has a last row);
`PassedInv` says every row read that did not move is before the cursor,
`AheadInv` every one still to come is after it.

`ListsProofs`, of the limiters, for any callers, limit, window, deadline, costs and refill:
`NeverOverAdmitted` and `RetryHolds`, costs above the capacity included, from any
`Error` of at most half a millisecond's refill. The invariant ties what Redis holds to the
history: `WindowInv` makes the members of the live sorted set the admissions of
the last window, each once (`KeyInv`: no member outlives its key, so an expiry
forgets nothing); `BucketInv` makes the hash, refilled to now, the level of a
bucket that was never interrupted, with the errors it was read with. `WindowHint`
and `BucketHint` keep, while nothing is admitted, what the last refusal promised.

`PartsProofs`, of the accounts and what stands on them, for any browsers, addresses, capabilities, lifetimes and
retentions, any list of seeded accounts, and routes where every address can have
its identity: `UsersOfAllSessions` and `AccountsAreKept` of the accounts alone,
`SeedKeepsAccounts` and `RoutesKeep` of the two systems over them,
`SeedHasDelivered`, `SeedTypes`, `RoutesServeByRight` and `RoutesTypes`. `AccountsInv` is shared. A session
has its user because its sign-in had one (`PathsInv`: once provisioned, an
identity that lives has its app_user) and an erasure takes both, for identities
are not shared (`RowsInv`). `SeedInv` says of each place of the script what the
statements before it left, unless others wrote since; `RequestInv` says of each
place of a request that what its lookup found was a right at some time since it
arrived, and that past the guard the request is `Entitled`. The rest of
`ServedByRight`, that a review's author has an account, is `AuthorsInv`.
`RoutesTypes` says which statuses each route may answer: `AnswersInv` is inductive on
top of `RoutesInv`, step by step against the contract's tables, with the errors the
contract does not declare (section 5) named in `Undeclared`.

`PartsProofs`, of the extraction, for any finite set of packages and any workspaces
and commands: `ToolBuildsInOrder` and `ToolVerdictHonest`. `SearchInv` makes the
search's result the packages the target reaches, the least set closed under
dependencies; `KahnInv` is the loop invariant of the sort: a package's degree is
the number of its dependencies not ordered yet, and the ready ones are those with
none left. `OrderInv` follows, and that a sort which orders all orders each behind
what it needs; `TempInv` says what the directory holds at each step of an extraction,
`ResultsInv` that a verdict is that of its workspace and that an exit of 0 leaves no
target out.

`PartsProofs`, of the migrations, for any runners and any histories of two releases,
the first contained in the second: `MigrationsOnceInOrder` and `MigrationsTypes`.
`ExecutedInv` makes what is executed the first files of some release in the order of
their names, and the database what those files leave; `WorkInv` says the same of the
open transaction of the one runner that has the lock. Two lemmas about data carry
it, both without an induction theorem. `AscendingListExists`, that a finite set of
files with distinct names can be listed by name, is argued on the least size for
which it fails; `RebuiltOneMore`, that the fold over one more file is one more step,
on the first place where the fold's table differs.

`ApiServerProofs`, for any requests, pool size, grace window, loads, rows and
faults, requests not named like workers: `TypeCorrect` and `ExitsEarnedAlways`.
Two lemmas carry the pool: whoever asks holds a connection or waits and disturbs
nobody (`AskKeeps`); whoever gives one back is out of the pool, and the head of
the queue has it (`GiveBackKeeps`). `PoolInv` is what they need: nobody is in
the pool twice, and nobody waits beside a free connection. `JobInv` says where in
its pass a worker's job has its one or two tickets, `PhaseInv` that what
`shutdown()` closed stays closed, from which a clean exit is earned, and that
no row asks a pool that is ending, since a closed worker has no job. `ClockInv`
keeps the supervisor's clock behind the time since the last healthy answer: it
was started after that answer, so at the end of the grace window that window has
passed since it. A pool of one is allowed here: it can wait for ever, which is
not a matter of safety.

`WebAppProofs`, for any journeys, texts, reviews, words and names, depth of locations
and number of acts at once: `TabTypesHold`, `NothingSpinsForNothing`,
`SlugsAreTheServers`, `NoDraftIsLost` and `ScreensAtRestAreFresh`. `TabInv` is
what the screen, the location and the calls owe one another: a screen is of its
location (`Fits`), a mutation whose component is mounted shows there as waiting,
what waits has its call, and two mutations are out only from a moderation page, for
two reviews (`Good`). Every step of every feature keeps it. The other four need to
know which steps touch what: `ProductSteps`, `ModerationSteps` and `CatalogueSteps`
sort the steps of the tab into those of one screen and those that leave its calls
and its data aside. A draft equals what was typed because every writer of either
writes both, or raises `overtaken`. Freshness is not inductive as stated, for it
speaks of rest only: `ReviewsInv` and `ListInv` say that the list on display is
fresh, or a fetch that will be is out, or a change is about to send for one, and
that no answer already given, waiting to be delivered, is older than that, unless
(of the reviews) a refetch is `owed`. A fetch that will make the list fresh reads
it whole (`ReadWhole`): the page of a "Load more" keeps what is cached, so one may
be out beside a fresh list only. `SearchInv` follows the text
from box to URL and the URL to the results.

The assumptions of all these are those the modules declare: bounds are natural
numbers, `None` and `Nothing` are not values, what configuration demands (a page, a
window, a limit of at least one), a workspace has finitely many packages
(`WorkspaceAssumption`), a release finitely many files whose names have an order
(`HistoriesAssumption`), and a journey can reach the home and the sign-in page
(`TabAssumption`).

Only model-checked:

- `EventuallyShown` and every other liveness property: they rest on fairness, which
  the prover does not reach.
- `NoDeadlock` of the review writes, which speaks of what is enabled. What makes it
  true is proved (`OnlyLockWaits`, which no run states); that a submission can always insert rests besides
  on a fresh token, which the run has and real tokens always are.
- `GateKeepsDatabase`: a statement about what the gate accepts within `InScope`,
  whose bounds are the forms the gate does not read, checked on the histories of
  `MCMigrations`: a third file with one table, its trigger on it, on another table, in
  another file or nowhere, and one statement more, good or bad for the gate, the
  database or the runner. Not every set of statements is among them.
- `PartsTypeOK`, which is the type invariants of the parts side by side, each proved
  (`SeedTypes`, `RoutesTypes`, `MigrationsTypes`).

## 5. What was found

- `listing_recent`: a cursor carries `created_at` in milliseconds
  (`reviews.ts:317`, `products.ts:300`, `moderation.ts:297`), the column has
  microseconds. Rows of the boundary row's millisecond that should follow it
  are skipped.
- `rating_kill`: a recompute is not part of the relay's transaction, so one
  left behind by a killed relay may overwrite a newer aggregate
  (`recompute-statement.ts:41`); SPEC-0004:192 promises convergence.
- `stage_lock`: a terminal error's dead letter takes no instance lock
  (`internal/terminal-routing.ts:29`) and may commit between a completing
  transaction's re-check and its `applyResult`; `stage.ts:206-207` promises a
  rollback.
- `web_return`: every 401 navigates to the sign-in page with the location it
  finds (`router.tsx:52`); a second one finds the sign-in page, and the user
  returns there. `router.tsx:48-51` promises the location of the work.

Found with the model, and now the exceptions its properties state:

- Drafts. The form of an edit, taken to `?review=new` by the history, stores its
  text as the draft of a new review (`review-submit-form.tsx:91-96`);
  `review-draft-storage.ts:5-8` says the draft is of a new review only. The success
  of a submission whose form was left clears what was typed since (`:144`);
  SPEC-0001:105-107 has a draft cleared by its submission or by cancelling
  (`NothingTypedIsLost` without `overtaken`).
- Review lists. The refetch after a write is joined to the first load in flight
  (`use-product-reviews.ts:61-62`), or superseded by "Load more" (`:51-53`), and the
  list stays as it was before the write; `:57-59` and SPEC-0001:199 say it is
  refetched (`AtRestFresh` without `owed`).
- Triage. The record of a parked row is inserted ON CONFLICT DO NOTHING
  (`dead-letter.ts:191-195`); the older record it met may be purged before the pass
  commits (`retention.ts:267-280`), and the row is then dead without one.
  `outbox.ts:264-266` says both commit together (`ParkingLeavesLetter` without
  `purged`).
- Waits of the bucket. `rate-limiter.ts:19` tells "the shortest wait until `cost`
  tokens exist": it may be a millisecond short, as the stored level is rounded (at
  100 requests a minute, a call refused 200 ms after the bucket was emptied is told
  400 ms and refused again then), and it is finite for a cost the bucket can never
  hold. `RetryAfterHolds` states what remains.
- The gate. A trigger is matched to its table by the table's name
  (`migration-ddl.ts:1067`): a file may create `archive.product` with `updated_at` and
  put the trigger on `catalogue.product`, which gate and database accept, and nothing
  sets the column. SPEC-0002:304 says every `updated_at` has its trigger
  (`GateKeepsDatabase` without the last condition of `InScope`).

Met while modelling, and described rather than run:

- Statuses. `reviews.ts:165` and `session.ts:42-44` say an anonymous request is
  answered 401: a malformed one is answered 400 and a limited one 429 first.
  An anonymous POST to createProduct, reject or restore can be answered 429 and
  bootstrap 401 or 429, which their contracts do not declare. A forged cursor
  whose position is no timestamp passes the schema and fails in PostgreSQL.
- The seed (`seed.ts:6-19`, idempotent): run again after the author edited the seeded
  review it stops with 409 before moderating and rebuilding; a review restored
  since is rejected again; a rerun moves `created_at`.
- Pipelines: `stage.ts:344` ensures successors after the commit, so a second
  fault, or a failure there in the job's last delivery, leaves a completed
  stage whose successors nobody enqueues. `dead-letter.ts:99` flips a completed
  stage to failed (README of jobs, INV-3). `stage.ts:98` lets two workers pay
  for one stage (ADR-0007, step 2). `reconciler.ts:227` never looks at a pending
  stage (ADR-0007, on a flush of Redis). `branch.ts:268` may apply the result of
  a branch a sibling's letter has just failed (`branch.ts:235`).
- Outbox: `reviews-rating-worker.ts:118` recomputes outside the marking commit
  (ARCHITECTURE.md:152-158). `products.ts:331` pages by a rating that moves
  (`page.ts:10`).
- SPA: `/products/new` and `/products/x/edit` are public by prefix, so an
  anonymous visitor goes to `/` and not to the sign-in page (`new.tsx:6-11`);
  the debounced URL overwrites keystrokes typed since
  (`catalogue-screen.tsx:254`); an edit form opened before the list loads
  submits as new; a slug field revealed and not touched goes on showing the
  preview of an earlier name; the filter switched to while an act is in flight
  stays stale (`use-moderation-reviews.ts:58-65`); the product form is filled
  once, from a cache that may be stale (`product-form.tsx:36`).
- Tools: `extract-changed` extracts the packages touched and not those that
  depend on them; a cycle throws outside the `try` and aborts the remaining
  targets. The gate reads `5-foo.ts`, which the runner never runs; it scans
  folders the runner does not.

## 6. Not modelled

- Data: ratings' arithmetic, texts, cursor encoding, reasons and payloads, SQL
  text, the wording of answers and errors. A review's content is a value that
  is equal to another or not; a slug derived from a name is written as the name.
- Filters and search of the product list: a row passes the filter or does not
  (`Hide`, `Show`); their text goes from box to URL in `WebCatalogue`.
- PostgreSQL beyond READ COMMITTED, row locks, advisory locks and unique
  constraints; deadlock detection and statement timeouts are errors at any
  statement. BullMQ, Redis, better-auth, Kysely and TanStack beyond what this
  code asks of them.
- Events of an erasure: a cascade (`0004-create-reviews.ts:166`) emits none and
  the projection goes on counting the reviews; the specifications name that as
  open (SPEC-0002:330, SPEC-0004:206).
- The event bus and the pipeline contract checks (no caller in `apps/`), mail
  rendering, configuration, telemetry, styles and the remaining tools:
  `PROJECT.json` gives each one's reason.

## 7. Plan

Left: the development-only test-session route, outbox retention, the event bus once
something publishes on it, and a second process beside the first in `ApiServer`.
