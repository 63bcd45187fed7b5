# A verification project for vefacaglar-site

vefacaglar-site is a website with a game and movie catalog: a Fastify API
(`src/apps/api`), a Next.js web application (`src/apps/web`), a Rust worker that
runs background jobs (`src/apps/worker`), one Postgres database, and Typesense
for search. Most of the repository is create, read, update and delete over
Postgres, and rendering. What is hard to get right, and what these TLA+ modules
are about, is the part where processes meet: the job queue and its scheduler, the
jobs it runs, the live views of them, and the rows, locks and search documents that
requests, jobs and outside services share.

Contents: [inventory](#inventory), [plan](#plan), the modules
[JobQueue](#jobqueue-the-queue), [Reindex](#reindex-the-full-search-reindex),
[JobStream and JobLiveView](#jobstream-and-jobliveview-the-live-page),
[Scheduler](#scheduler-the-registered-jobs), [EventsListener](#eventslistener-the-shared-connection),
[HltbMapping](#hltbmapping-lookups-and-applies), [HltbPermit](#hltbpermit-one-call-at-a-time),
[CatalogSearch](#catalogsearch-changes-and-documents), [runs](#runs-and-bounds),
[fairness](#fairness), [proofs](#what-is-proved), [what is not covered](#what-is-not-covered).
Paths below are relative to `src/`.

## Inventory

Each component: its state; its operations; who it talks to; what is hard; what makes
it correct.

**Job queue** (`apps/worker/src/queue.rs`, `runner.rs`, `context.rs`, `handler.rs`,
`packages/db/src/schema/jobs.ts`). State: the rows of `jobs` (status, attempts,
`locked_by`, `heartbeat_at`, `run_at`, `cancel_requested`, `checkpoint`) with a
partial unique index on the concurrency key of active rows; per worker process the
job it runs and its flags. Operations: claim, heartbeat, progress, checkpoint,
success (with or without a successor), failure, cancel, pause for shutdown, reap.
Workers and API requests share the rows; a worker id is the only proof of
ownership. Hard: leases that expire under a running job, crashes and lost replies
around every statement, cancels racing with everything, attempts that are charged
and refunded. Correct: a run that lost its job is harmless, attempts are bounded,
a cancel is not forgotten, one active job per key, every job ends.

**Job requests of the API** (`apps/api/src/modules/jobs`: `jobs.repository.ts`,
`dashboard/enqueue|cancel|retry`). No state but the rows; the cancel handler reads
the row and then runs guarded updates. Hard: the row moves in between.

**Recurring jobs** (`apps/worker/src/scheduler.rs`, `cron.rs`, API handlers
`recurring-update`, `recurring-run`). State: `recurring_jobs` with `cron`, `enabled`,
`next_run_at`. Operations: the tick every 30 s under `FOR UPDATE SKIP LOCKED`, edits
of the cron, run now. Each is a transaction over the rows of `recurring_jobs` and
`jobs`. Hard: several workers ticking, edits during a tick, missed runs, locks taken in
different orders. Correct: an occurrence is enqueued at most once, the next run belongs
to the current cron, a due definition is handled.

**Full search reindex** (`apps/worker/src/jobs/search/full.rs`, `collections.rs`).
State: the collections, their documents and the aliases in Typesense; the checkpoint
`{suffix, collectionIndex, lastId}` in the row of the job. Operations: clean up,
create, load in batches, swap the aliases, delete the previous collections. It calls
the queue (progress, checkpoint), Typesense and the source tables, while the API
writes to both. Hard: it may stop between any two calls and be resumed, cancelled or
overtaken. Correct: search never serves a half-filled collection, aliases resolve,
nothing is left behind.

**Search sync** (`jobs/search/sync.rs`). Computes the missing documents of every
collection, then imports them; resumes at a collection. Hard: the difference is old
when it is applied. Correct: what it found missing is there when it completes.

**Search backend, row source, mappers** (`jobs/search/backend.rs`, `source.rs`,
`mappers.rs`). HTTP, SQL, and conversion of rows to documents.

**Catalog subprocess jobs** (`apps/worker/src/jobs/catalog`). Run a Node child
process, forward its output, kill it on a stop; the movie job may ask for a
continuation. Hard: exit, output, stop and lost lease race in one `select!`.

**Movie sync service** (`apps/api/src/modules/movies/sync`). Cursors, cooldowns and
failure counts in one row; decides whether the chain of batches goes on. Correct: no
movie is skipped, the chain ends when the provider is down.

**Job stream** (`dashboard/stream/job-stream.ts`). Per stream a log cursor and flags
(paused, pending, a debounce timer, a read in progress). Hard: backpressure, polls and
notifications around an `await`. Correct: lines in order and once, `done` after
everything, no lost wake-up.

**Job events listener** (`job-events.listener.ts`). One LISTEN connection for all the
streams of a process, a reconnect timer and an idle timer. Hard: losses, timers and
subscribers come in any order. Correct: while there is a subscriber somebody is at work
on listening; whoever may have missed a change is poked.

**Live page of a job** (`apps/web/src/app/dashboard/jobs`: `useJobStream.ts`,
`JobLiveView.tsx`). A session that goes from a stream to polling and back, a buffer that
an animation frame empties, buttons. Hard: what a closure remembers of a session that
has moved on. Correct: no gap in the log, the final state is shown.

**Stream tokens; dashboard reads.** A signed token checked at connect time; queries.

**Search writer, event bus, catalog** (`apps/api/src/shared/search/commands`,
`shared/events`, `modules/catalog`). A change of a game, of its links or of a lookup's
name is committed, published in the process, and the writer reads the rows again and
upserts the documents. Hard: an old read that is written last; a call that fails.
Correct: at rest a document says what its rows say.

**HLTB lookup** (`modules/catalog/hltb`, `games.repository.ts`). A receipt per game of
what an administrator was shown, a binding of a game to an id of HowLongToBeat, a search
update owed by an apply; the popularity refresh changes bindings in the background; one
row is the permit to call the provider. Hard: the game moves between the review and the
apply, two writers of bindings, a permit that is returned late. Correct: what is applied
was reviewed, an id belongs to one game, one call at a time.

**Search reader** (`shared/search/queries`). A circuit breaker with a cooldown.

**Worker process** (`main.rs`, `config.rs`, `health.rs`, `backoff.rs`) and
**telemetry**. Signals, configuration, a health endpoint; a bounded log shipper.

**Blue-green deploy of the API** (`deploy/api/blue-green.py`). A state file, a
transaction record, a proxy file, containers. Hard: it may die between any two
steps. Correct: traffic is on a release that runs and that the state names.

**Everything else** (deploy of worker and web, game logs and statistics,
authentication, posts, pages, projects, packages, uploads, localizations, the rest of
the web application, the schema): sequential handlers over rows, or pure I/O.
`PROJECT.json` lists each with the reason why it is not modelled.

## Plan

In the order of how much depends on it:

| | module | about | state |
|---|---|---|---|
| 1 | `JobQueue`, `JobLease` | the queue and the lease discipline it implements | modelled, checked, proved |
| 2 | `Reindex` | the full reindex over a queue with the properties proved of `JobQueue` | modelled, checked, proved |
| 3 | `JobStream`, `JobLiveView` | one stream of a job and the page that shows it | modelled, checked, proved |
| 4 | `Scheduler` | ticks, edits of the cron, run now | modelled, checked, proved |
| 5 | `EventsListener` | the connection all streams hear through | modelled, checked, proved |
| 6 | `HltbMapping` | lookups, applies, refresh and the search update that is owed | modelled, checked, proved |
| 7 | `HltbPermit` | the permit to call the provider | modelled, checked, proved |
| 8 | `CatalogSearch` | changes of the catalog, documents, `search.sync` | modelled, checked, proved |
| 9 | `CatalogCommand`, `MovieSync`, `SearchBreaker`, `BlueGreen` | child process, chain of batches, circuit breaker, deploy script | not modelled, see [below](#what-is-not-covered) |

Modules 3 to 8 are composed only where components share state: `JobLiveView` is the page
over the stream. The others share nothing, and `MCServices` checks them as a sum: a
behaviour is one of one component, chosen at the start. Their state spaces add up
instead of multiplying, and nothing is lost, because no action of one reads or writes a
variable of another. `MCQueueLiveness` is such a sum of the queue and its scheduler.

`Reindex` takes two theorems of `JobQueue` as its environment: a run writes its row
only while it holds it (`LeaseFences`), and one job of a key is active at a time
(`KeysAreExclusive`). Modules to be proved about have no RECURSIVE operator, one
action per operation and named invariants.

Each module contains, right above the definition it stands for, an operator
"mutant of ...": a plausible bug. The list `mutants` of `PROJECT.json` says which
property each of them must break.

## JobQueue: the queue

**Granularity.** One SQL statement, or one transaction whose first statement locks
the row it changes, is one action: Postgres makes it atomic, and every statement that
follows in such a transaction sees the row it locked. What a worker or a request
remembers from one statement to the next is state: `active`, `position` (the
checkpoint its handler goes on from), `cancelFlag`, `lockLost` (`JobFlags`),
`outcome`, and `cancelPc`, `cancelJob` of a cancel request.

Applying the answer of a heartbeat to the flags is part of the action. In the code it
follows the statement. That hides no outcome: once a heartbeat finds the job lost it
stays lost for that run (theorem `LeaseFences`), and while the run holds its job
`cancel_requested` is only ever set.

**Time** is two Booleans of a row: `due` (`run_at <= now()`) and `fresh`
(`heartbeat_at` within `STALE_AFTER_SECS`). `LeaseExpires` may fire at any time,
also under a running handler; nothing in the code prevents that.

| actions | code |
|---|---|
| `Enqueue`, `Retry` | `JobsRepository.enqueue`, `.requeue` |
| `FindById`, `CancelQueued`, `RequestCancel`, `Respond` | `CancelJobHandler.handle`, a step per await |
| `Claim`, `ClaimReplyLost` | `queue::claim` and the start of `run_job`; the same with the answer lost |
| `Heartbeat`, `SaveCheckpoint` in `Batch`, `ClearCheckpoint` | guarded updates, then `JobFlags::apply` |
| `HandlerReturns`, `Deadline` | the `select!` of `run_job`; a handler may ignore a stop, fail, fail permanently or ask for a continuation |
| `Finalize`, `FinalizeFails` | `Worker::finalize`: which transition is chosen and what it does; or the database fails |
| `ReapStale` | the reaper's statement: all stale rows at once |
| `Start`, `Shutdown`, `Stop`, `Crash` | the process; its id is the same after a restart (`config.rs`) |

Left out: the columns nothing decides on (`progress`, `error`, timestamps), the log
rows, notifications (the 5 s poll makes them an optimisation), the table `workers`.
The set `Jobs` bounds the rows that may ever exist, so `Continued` needs an absent
row to insert; when none is left it behaves as with a busy key.

`JobLease` is what the queue promises: a job waits, is leased to one worker for one
of `Budget` tries, and is done or stopped. `ImplementsLease` is checked by TLC and
proved (`QueueImplementsLease`).

## Reindex: the full search reindex

`run[w].pc` is a point of `full.rs`; a value is the call to be made next:

| pc | lines of `full.rs` |
|---|---|
| start | 56-79, 96-110 |
| aliases, delete | 289-318, `delete_stale`: the aliases one after the other, the list, the deletions; `stage` says which of the three calls |
| list, create | 112-154 |
| loop, batch | 170-173, 218-220: the stop checks |
| fetch, import, save, advance | 191-229 |
| swap, look, drop, point | 232-270 |
| previous | 271-280 |
| finish, completed | 282-284 |
| clear, interrupted | 329-336 |

A document is the key of its row. `Stable` are the keys of rows that exist and do
not change for the whole behaviour, so every properly loaded collection contains
them; other rows are created and deleted by `Change` and indexed through the alias
by `IndexRow`. The read and the upsert of the writer are one action here; its own
stale reads are in module `CatalogSearch`. `next` is where a loop over the names has
come to, that of `delete_stale` and that of the swap. In `existing` and `alias`, `Real` stands for
the collection of the legacy set-up that bears the alias's name; `Init` is that set-up,
and every other state of Typesense is reached from it.

A run fails (`Fail`) after any call, in particular in place of one that returns an
error; then its job is queued again or failed. A kill is a failure that is noticed
later: `LeaseLost`, then `LockLost` of the dead run.

Assumptions: two fresh runs have different suffixes (the suffix is a timestamp in
seconds, and a failed attempt is retried after 30 s or more). Leaving out the deletion
of the removed `*_tr` collections, the counts and the log lines changes nothing the
properties see. `COLLECTIONS` has seven entries; two already tell "before", "at" and
"after" the index of a checkpoint apart.

## JobStream and JobLiveView: the live page

`JobStream` is one connection (`job-stream.ts`) and what it reads. A callback runs to
its next `await` without interruption, so an action is a callback or what follows an
await; the two queries of a read are two actions, since the row and the log move in
between.

| actions | code |
|---|---|
| `Progress`, `BeginLog`, `CommitLog`, `Finish`, `RetryRow`, `Reap`, `CommitStray` | the statements of `queue.rs` and of the API that change the row or the log |
| `Open`, `Start` | `StreamJobHandler.handle` up to and after its first read |
| `Notified`, `NotificationLost`, `Poll`, `Refresh` | what calls `requestRefresh`, and the debounce timer |
| `ReadJob`, `ReadLogs`, `ReadFails`, `ApplyRead` | the read, and `apply` |
| `Ping`, `Resume`, `FinishStream`, `Hangup` | keep-alive, drain, `finish`, `close` |

`Resume` waits until the client has everything (`wire` is empty). Node's event comes when
its own buffer is empty, while the kernel may still have bytes; a pause may then be
shorter than here. Nothing in the stream's state tells the two apart, and the larger
state space does not fit a run; the theorems do not use that condition.

A line's id is drawn when its statement begins and is visible when it commits. A run
writes its lines one after the other, and `queue.rs` writes the last line in the
transaction of the final status; only a run whose job was reaped can commit a line behind
a cursor (`stray`, `late`), which the properties excuse. `row.version` is what
`snapshotKey` compares. `wakes` is a history variable: whether the stream has yet to
hear of a change.

`JobLiveView` extends it by the browser. `session.pc` says where `useJobStream.ts` is
(the module's header lists the places); `Connect` to `Receive` are its stream, `Tick` to
`PollFailed` its polling, `DrainAnswered` and `DrainFailed` the fetch after `done`,
`Frame` the animation frame, `Click` to `Answered` `runAction` of `JobLiveView.tsx`.
`action.ended` is what the closure of the button remembers. Delays and back-off are left
out: a timer may fire at any time.

## Scheduler: the registered jobs

A transaction is several actions, because it takes locks one after the other:

| actions | code |
|---|---|
| `TickLock`, `TickRow`, `TickCommit`, `TickFail` | `tick` of `scheduler.rs`: the select with SKIP LOCKED, one definition, the commit, or a rollback |
| `UpdateRead`, `UpdateWrite` | `recurring-update.handler.ts` before and after its await |
| `RunInsert`, `RunCommit` | `recurring-run`: the insert of the job, then the update of the definition, which waits for the row's lock |
| `BreakTick`, `BreakRun` | Postgres ends a circle of waits by failing one of its members |
| `JobEnds`, `Advance` | the queue, seen from here; the database's clock |

The circle is real: a tick holds its definitions and waits for the unique index entry of
a job that "run now" has inserted; "run now" waits for the definition. Postgres detects
it and one side fails; a tick repeats 30 s later.

A cron expression is its period: it occurs at the multiples of a number (0: none). What
`cron.rs` computes of calendars enters only as "the first occurrence strictly after".
`scNow` is the database's clock, which decides what is due; the next run is computed by
the worker's (`scheduler.rs:66`), which `ScLags` lets lag behind. `scLast` and `scTwice`
are history.

## EventsListener: the shared connection

The state is that of `PgJobEventsListener`: `evSubs`, `evSql` (which client is current),
the reconnect timer with the client its callback compares with, the idle timer. A
client's `LISTEN` is on its way (`evPending`), done with its await about to return
(`evHeard`), or failed. `LinkLost` may happen at any moment. `evMissed` is history: the
subscribers with a change they have not been told of.

`JobStream` sees the listener as notifications that may be lost, followed or not by a
poke; that is what `EvNothingMissed` bounds.

## HltbMapping: lookups and applies

| actions | code |
|---|---|
| `LookupStart`, `LookupSave`, `Expire` | `HltbService.lookup`, `saveReceipt`, the receipt's expiry |
| `ApplyStart`, `ApplyLockId`, `ApplyReadGame`, `ApplyLockRow`, `ApplyCommit` | `HltbService.apply`: the check before the provider is asked again; the transaction of `hltb.repository.ts` |
| `SearchLock`, `SearchRead`, `SearchImport`, `SearchClear`, `RetrySync` | `withSearchSync` and `HltbService.sync` |
| `EditSave`, `EditRead`, `EditIndex` | `updateGame` and its index call, which does not take the search lock |
| `BgStart`, `BgLock`, `BgCommit`, `BgGiveUp` | `writePopularity` of `games.repository.ts`, or its rollback |
| `GiveUp` | any failure, time-out of a lock, crash |

Advisory locks on ids and games and row locks on games are explicit (`hlLock`). Time is
not: a receipt may expire and a wait time out at any step. The hours of a game are
represented by the id they were taken from, and only some ids have hours (`HlTimed`): a
binding can change while the hours stay, because they were known or there are none. An
edit changes the version or does not (only title, year and hours are in it).

The transaction of an apply reads the game, its hours and its binding in one `SELECT`
with a `LEFT JOIN`, `FOR UPDATE OF games` (`hltb.repository.ts:17-21,42`). Postgres reads
at READ COMMITTED: if the statement waits for the row, only the row of `games` is read
again afterwards, the joined binding is that of before the wait. `ApplyReadGame` is that
snapshot (`seen`), `ApplyLockRow` the lock; `AssertReceipt` compares the row as it is and
the binding as it was. The receipt and the owner of the id are read by statements of their
own, after the lock. The refresh reads bindings by statements that begin when it has
all its locks.
After the matched rows it locks every other row too, for the scores (`ScoredRows`), in no
particular order. `hlShown` keeps every result an
administrator may still have on the screen. `hlRegressed` marks games whose document an
ordinary edit replaced by an older one, which the code does not prevent and
`HlSyncedMeansIndexed` excuses. The refresh makes its updates one after the other in one
transaction: `Supplemented[n]` are the tables as that transaction sees them after `n`.

## HltbPermit: one call at a time

The row `hltb_provider_state` and the requests that compete for it, with a clock:
`Acquire`, `Refused` are `acquireProviderPermit` and what `HltbClient.request` makes of
its answer, `Begin` and `Answer` the call, `ReleasePermit` and `Defer` the release and a
later cooldown, `Dies` a crash. One clock is assumed for the processes that share the row
(they run on one host). The floor of 100 ms of `retryAt` is less than the model's unit. A process may be suspended between its permit and its call,
which is why `PmExclusive` speaks of calls that began long after their permit.

## CatalogSearch: changes and documents

`SaveGame`, `DeleteGame`, `LinkGame`, `RenameLookup`, `DeleteLookup`, `ImportPage` are
the commits; `Cascade` to `ImportGames` the calls of `typesense-search-writer.ts` that
follow, a step per await; `CallFails`, `ApiDies` their failures. `SyncExport` to
`SyncStops` are `search.sync` for the collection of games. A failing call of a batch may
have written part of it: Typesense answers per document, and `bulkImportDocs` only
reports the rejected ones. `csStamp` counts the changes a
game's document should show; `csLost` (a change whose call failed or died, or a deleted
lookup) and `csOver` (an older read that came over a newer document) are history and
name exactly what `CsSettled` excuses. The read of a game and that of its relations are
one step.

## Runs and bounds

| run | constants | result |
|---|---|---|
| `queue` | 1 job, 2 workers, 1 saved batch; or 2 jobs of the continued key, 1 worker; 1 cancel request, 2 attempts, 1 SIGTERM | 783 000 states; twelve properties hold, and every step is one of `JobLease` |
| `queue_liveness` | 1 job, 2 workers, 2 attempts; 2 definitions, 2 ticking workers, 1 user | 17 000 states; every job ends, every due definition is handled |
| `reindex_swap` | 2 jobs, 1 worker, 2 collections of 3 rows, batches of 2, 1 change, no retry | 728 000 states; four properties hold |
| `reindex_retry` | 2 jobs, 1 worker, 1 collection of 2 rows, batches of 1, 1 retry, 2 changes | 191 000 states; three safety properties hold, and runs end although rows come and go |
| `live_view` | batches and high water of 2, pages of 1, 2 changes of the row, 3 line ids, 1 fault or click | 492 000 states; a type invariant, three safety properties, and the page settles |
| `services` | see below | 2 150 000 states; thirteen properties of five modules |
| `live_action` | as `live_view` | violated, see below |
| `hltb_remap` | 2 games, 2 ids, one with hours, 1 request, 1 lookup, 1 apply, 1 refresh | violated, see below |
| `reindex_refill`, `_cancel`, `_live`, `_overlap` | | violated, see below |

`queue` is a sum as well: `MCJobQueue` chooses one of its two instances at the start.
The jobs of the reindex runs are alike, and so are the workers of `queue`, hence the
symmetry; `reindex_retry`, which has a liveness property, has no `SYMMETRY`:
`OrderedNext` says instead that `j1` is enqueued first, and that rows change while it is
the only job.

Why these are enough. Two attempts are one that may be retried and one that may not.
Two workers are needed for a run and its successor, one for a job that comes back to
the same id. A second SIGTERM finds a worker that is stopping. Two jobs are needed for
what relates jobs (keys, successors, a reindex after another), one for the rest; two
collections for what relates names (`reindex_swap`), while the histories a retry adds
are about generations of one name;
in `queue_liveness` the queue has one job because its claims are about one row, and no cancel
request, which can only end a job earlier. Three rows in batches of two give a full
page and a short one, batches of one a full page and an empty one. The theorems below hold without any bound.

In `live_view` one fault or click at a time is combined with everything that needs none:
slow clients, retries from elsewhere, notifications before the stream subscribed, every
interleaving of reads and writes. A high water of two is reached by a snapshot and one
line; pages of one line make every page full, so polling and the drain go through more
than one; two lines on the screen and three ids make lines leave it.

`services` is the sum of:

| part | constants |
|---|---|
| `HltbMapping` | 2 games, 2 ids of which one has hours, 2 requests, a refresh of one update or of two bound straight or crossed; two lookups and applies, or one of each with an edit or a refresh; hours known at the start in one game and where there is a refresh |
| `HltbPermit` | 3 requests, lease 2, timeout 1, pause 1, wait 1, cooldowns of 0 or 2, 4 moments after the first |
| `Scheduler` | 2 definitions with a key each, 2 workers, 2 users, periods 0, 2, 3, 4 moments; two edits, or an edit or a run now with a failed tick, or both, or a lag of 1 |
| `EventsListener` | 2 subscribers who come and go as they like, 3 clients |
| `CatalogSearch` | 2 games, 1 lookup, 2 requests, batches of 1; five mixes of changes, failures and syncs |

The mixes are the constants that end in `Budgets`: sets of bounds of which a behaviour
has one. Two games are what a crossed refresh, two locks in the wrong order and a batch
need; two requests are a change and the one that overtakes it. Three requests of the
permit are one whose lease ran out, its successor, and one that the late release would
let in. Three clients are one that is lost, one that replaces it and one made after an
idle shutdown. Periods 2 and 3 have different next occurrences at most moments, and 0 is
a definition without a cron. What the budgets exclude is not checked: an edit and a
refresh and two applies of HLTB at once, more than one lag. The two requests of
`HltbMapping` are interchangeable, hence the symmetry; the run checks safety only.

`MaxBatches`, `MaxShutdowns`, `MaxSuffix`, `MaxRetries` and `MaxChanges` bound counters
the code does not bound; they are in the guards of `SaveCheckpoint`, `Shutdown`,
`BeginFresh`, `Retry` and `Change`. `MaxVersion`, `MaxLog`, `MaxFaults`, `MaxClicks`, `PmMaxTime`, `ScMaxTime`,
`EvMaxClients` and the budgets do the same in the other modules.
All jobs may be finished, a page may be over and all budgets used, so the system really
may stop: all configurations but `queue`'s say `CHECK_DEADLOCK FALSE`; that one checks
for deadlock, since a worker can always be restarted. Where requests wait for locks, whether anybody waits for ever is a property
(`HlNoLockCycle`, `ScDueIsHandled`).

The passing reindex runs have one worker, which is what is deployed
(`docs/jobs-worker.md:176`); `reindex_overlap` shows what changes with two.
`ServedIsLoaded` is checked without retries of cancelled or failed jobs by
`reindex_swap`; `reindex_refill` shows why.

### What the violated runs show

- `reindex_refill`, a bug: a resumed run recreates a vanished collection
  (`full.rs:120`) and rewinds its checkpoint in memory only (`:132`). The next save is
  at `:154`. A failure in between leaves the old checkpoint with an empty collection
  that now exists; the next attempt skips it and swaps search to it.
- `reindex_cancel`: a job cancelled while queued, or at the first stop check of a run
  (`:56`), keeps its checkpoint and its half-built collections; a retry resumes
  instead of starting over.
- `reindex_live`: a row created while its collection is rebuilt, with a key behind the
  cursor, is searchable until the swap and then missing until `search.sync`.
- `reindex_overlap`: no call between `:236` and `:270` checks that the job is still
  held. A run that lost it there can point an alias at a collection that the newer run
  has deleted.
- `live_action`, a bug: `runAction` compares the `conn` of the render its button belonged
  to (`JobLiveView.tsx:132`). A retry clicked while the failed job's stream was still open
  and answered after `done` finds `conn` "live", does not restart, and the page stays on
  the queued job without a session.

- `hltb_remap`, a bug: an administrator reviewed game `g` without a binding and applies
  `x`. The apply's read of the game waits for the refresh, which binds `g` to `y` and
  changes no hours. The read returns the row as it is and the binding as it was, none
  (`hltb.repository.ts:42`), so `assertReceipt` (`:45`) passes and `y` is overwritten
  without `replaceMapping`. `HlAppliedIsReviewed` says how far this goes: only where no
  binding was shown, and never over one made by hand, because another apply ends the
  receipt.

`reindex_overlap` needs a stall and a second worker process; `docs/jobs-worker.md:178`
describes such a set-up, a local worker on the production database. With one worker a
run that lost its job still holds the only claim loop.

Observations that are no contradiction to the code's own words, or are excused
by a history variable, and no runs: a
stalled run and its successor execute at the same time, since the concurrency key
bounds rows and not handlers; and a cancel request that read `running` is refused when
the job was requeued before its update, although it could still be cancelled. A worker whose clock lags
behind the database's computes as next run the occurrence it has just enqueued, which is
then enqueued again when the first job has ended (`scLagged`; compare the comment of
`scheduler.rs:62`). Deleting a lookup does not touch its games' documents: they keep its
name until something else indexes them (`csLost`). Index calls that overlap may leave the
older row in a document, and an edit's index call may replace what an HLTB apply has just
indexed (`csOver`, `hlRegressed`).

## Fairness

`queue_liveness` (`JobQueue!FairSpec`): a stopped container is started again
(`restart: unless-stopped`, `deploy/worker/compose.yml`); a handler returns, a finished
run is finalized or fails to be; a worker told to stop stops; clocks advance, so a run
time comes and the lease of a job nobody heartbeats expires. All weak. Strong fairness
only for the two loops of a worker that may crash over and over, the claim loop and the
reaper: they are enabled again after every restart. Nothing is assumed of users,
signals, crashes and lost replies, except that SIGTERMs are finitely many
(`MaxShutdowns`): each gives an attempt back, so a job restarted for ever by deploys
need not end.

`reindex_retry` (`Reindex!FairSpec`): weak fairness of a run's own steps. Failures,
cancels and the reaper are under no obligation. The property begins after the first
step of a run, because that step needs a suffix the bound may have used up.

`queue_liveness`, scheduler part (`Scheduler!ScFairness`): weak fairness of "some
worker's tick", which its maintenance loop starts every 30 s, and of each worker's
transaction once begun; strong fairness of a request that waits for a definition's lock,
since it has it when the tick lets go and the next tick is 30 s away. Nothing is assumed
of time, users, failures and the end of jobs, and the property asks for nothing after a
lag.

`live_view` (`JobLiveView!Fairness`): weak fairness of the 2 s poll of a stream, of the
server's own callbacks (debounce, read, apply, drain) and of the browser's (frame,
connect, receive, poll, drain, answer). Nothing makes a job end, fail or be retried, a
notification arrive or anybody click; faults are finitely many (`MaxFaults`), and
`ViewSettles` releases a page that the API refused.

The other parts of `services` state safety only, so no fairness is needed.

## What is proved

`JobQueueProofs` proves, for every set of jobs, workers and requests, every assignment
of keys and every limit of attempts, under `ConstantsAssumption` (`None` is no job and
no worker; the limits are naturals, `MaxAttempts` at least 1):

| theorem | property |
|---|---|
| `TypeCorrect` | `TypeOK` |
| `AttemptsAreBounded` | `AttemptsWithinLimit` |
| `LeaseFences` | `LeaseIsFenced` |
| `CheckpointBelongsToHolder` | `CheckpointIsHolders` |
| `FlagsAgree` | `FlagsAreTrue` |
| `KeysAreExclusive` | `OneActiveJobPerKey` |
| `LostRunChangesNothing` | `LostRunIsHarmless` |
| `CancelledOnlyWhenAsked` | `CancelledOnlyOnRequest` |
| `CancelSurvives` | `CancelIsSticky` |
| `RefundsAreForDeploys` | `RefundOnlyOnShutdown` |
| `CancelledHasNoSuccessor` | `NoSuccessorAfterCancel` |
| `QueueImplementsLease` | `ImplementsLease` |

`SchedulerProofs`, `HltbProofs`, `CatalogSearchProofs`, `EventsListenerProofs` and
`JobLiveViewProofs` do the same for the services and the live page, and the `Reindex...Proofs` for the reindex, [below](#the-reindex):

| theorem | property | holds for |
|---|---|---|
| `OccurrencesRunOnce` | `ScOncePerOccurrence` | every set of definitions, workers and users, every lag and budget |
| `NextRunsAreOfCrons` | `ScNextIsOfCron` | the same |
| `SyncedMeansIndexed` | `HlSyncedMeansIndexed` | every set of games, ids and requests, every batch of a refresh, every budget |
| `NoLockCycle` | `HlNoLockCycle` | the same: circles of every length |
| `AppliedIsReviewed` | `HlAppliedIsReviewed` | the same, whatever ids have hours |
| `BindingsStaySound` | `HlBindingsAreSound` | the same |
| `DocumentsSettle` | `CsSettled` | every set of games, lookups and requests, every batch size and budget |
| `SyncFillsGaps` | `CsSyncFills` | the same |
| `PermitIsExclusive` | `PmExclusive` | every set of requests, lease, shorter timeout, pause and cooldowns |
| `PermitIsPolite` | `PmPolite` | the same |
| `ListenerIsNeverDeaf` | `EvNeverDeaf` | every set of subscribers and number of clients |
| `ListenerMissesNothing` | `EvNothingMissed` | the same |
| `ListenerIsNotIdle` | `EvNoIdleConnection` | the same |
| `LiveViewTypes` | `TypeOK` of `JobLiveView` | every size of batch, page, buffer and console, every bound on faults, clicks, changes and lines |
| `LiveViewGapless` | `LogIsGapless` | the same |
| `LiveViewDoneIsLast` | `DoneIsLast` | the same |
| `LiveViewNothingUnnoticed` | `NothingUnnoticed` | the same |

### The queue

The inductive invariant `IInv` is the conjunction of the state properties and of what
they need:

- `RunsHaveJobs`: a worker has a job exactly while `run_job` runs, and only such a
  worker can have lost it. Everything said about `active[w]` rests on it.
- `AbsentRowsAreFresh`: the defaults of a new row, which `AttemptsWithinLimit` needs
  when a job is inserted.
- `StopsForAReason`: a run that stopped early had a reason that still stands, which
  relates what `finalize` decides to the flags, for `CancelledOnlyOnRequest` and
  `RefundOnlyOnShutdown`.
- `RequestsHaveJobs`: a cancel request remembers its job.

The heart is `LeaseIsFenced`: the row is held by worker `w` exactly when `w`'s present
run was not robbed by the reaper. A claim establishes both sides, a reap removes both,
and no other step touches either; the case that could break it, the job coming back to
the same worker, cannot happen while its first run goes on because a worker has one
run. From it follow that two busy workers never both hold a job (`OneHolder`) and, for
the action properties, that a statement guarded by `HELD_BY_ME` changes nothing for a
robbed run (`TransitionIsLocal`, `LostRunChangesNothing`).

Each part of `IInv` has one lemma for a step (`TypeStep`, `LeaseStep`, ...) with one
case per action; `InductiveStep` combines them. The action properties follow from
`IInv` and a case analysis of the step that moves a row (`HolderEnds`, `RowStep`).

For `CancelledHasNoSuccessor`: a step that ends a running job is the reaper's, which
inserts nothing, or the transition of the job's own run, which reads
`cancel_requested` in the statement that would insert (`CancelledInsertsNothing`).

### The scheduler

`ScInv` is about what is remembered while a transaction or a request goes on. A tick
holds the lock of every definition it has taken (`TickHolds`), so neither its cron nor
its next run moves before the commit; what it is to write is an occurrence of that cron
after the tick's clock (`TickComputes`). A request that edits decides from a row it read
without a lock, and its `WHERE` compares nothing: `ScNextIsOfCron` holds because it
writes cron and next run together. `LastIsPast` is the reason an occurrence is not
enqueued again: what was enqueued lies before the next run. It fails, and
`ScOncePerOccurrence` with it, only where the clock that computed lagged.

### The bindings

`HlInv` says what each request in flight relies on (`RequestsAreSound`): one that applies
was shown what it is to write; one that brings a saved version to the search read a row
at least as new; and before it clears the flag of a receipt its document is as new as
the version it compares. With the search lock it holds (`LocksAreHeld`) that is
`HlSyncedMeansIndexed`, and with `ReceiptsAreSound` (a receipt's version is the row's last
apply) a flag that an apply sets again in between is not cleared by the older request.

`AppliedIsReviewed` has an invariant of its own, `ReviewInv`. A receipt's number is never
drawn again (`LookupsGrow`, so lookups have to be finitely many), and an apply of `g`
ends the receipt of `g`. So while a receipt with the number of an apply in flight is live,
nobody else has applied to that game since: `SeenStands` says that the binding the apply
saw is then still the one there is, or there was none and the one there is was not made
by hand, that is, by the refresh. The rest is `AssertReceipt` at the commit.

`NoLockCycle` is proved by following the waits (`RefreshWaits`, `RequestWaits`,
`NoCircle`). A request that waits for a search lock, or for a row another request has,
waits for somebody who waits for nothing. One that waits for a row the refresh has waits
for a refresh with all its ids (`RefreshIsOrdered`), and such a refresh waits for nobody
who waits. One that waits for an id waits for the refresh or for one of the others. So
every path of waits, of any length, ends.

A refresh is a sequence of updates of any length. `Supplemented` is a recursive function,
and no induction theorem can be instantiated here; that every intermediate state has sound
bindings is proved from a least counterexample instead (`LeastExists`): at the least `n`
that breaks them, `n - 1` does not, and one update preserves them.

### The documents

`CsInv` accounts for every game: the newest document ever written is of its latest commit,
or some request will write it, or the game is in `csLost` (`NothingForgotten`); and the
document is that newest one, or the game is in `csOver` (`DocsAreSound`). At rest no
request will, which is `CsSettled`. The hand-over is where it could break: a change of a
lookup's name must find the same games as the commit had (`Brings` of a cascade), a game
deleted between the event and the read must be removed, not skipped. For `SyncFillsGaps`,
what the difference found missing and nobody changed since is in the rest of the list, in
the batch being imported, or written (`FoundIsSound`, `BatchIsSound`).

### The permit

`PmInv` is why a lease and a timeout together exclude: a permit in use either is the one
in the row, until its lease ends, or is so old that its lease has run out
(`LeaseOrLate`); a call is never older than its timeout (`CallsAreTimed`). So when
two calls overlap, the earlier permit's lease has run out while its call goes on, and as
that call is not older than its timeout it began late. `PauseCovers` and `CooldownCovers` say that the row's times
cover every permit given and every answer recorded; only a `greatest` keeps the second
when answers are recorded out of order. The theorems need `PermitAssumption`: the timeout
is shorter than the lease.

### The listener

`EvInv` adds to the properties what relates the client to its timer and awaits: a
scheduled reconnect is the current client's, because a teardown takes its timer along
(`RetryIsCurrent`); a client in use listens, has a LISTEN on its way or will be retried
(`ClientIsAlive`); and while somebody is subscribed there is a client (`ClientIsThere`).
`EvNeverDeaf` is the last two together; `EvNothingMissed` needs them because a poke is
for the current client only.

### The live page

`JobLiveViewProofs` assumes `StreamAssumption` and `ViewAssumption` only: limits are
positive, bounds natural. Its inductive invariant `IInv` has three strands.

*Lines.* A set of lines is `Gapless` from a line when every line committed in time that
lies after it and not beyond the set is in the set. Queries return gapless sets (`PageIs`,
`LastPageIs`), and two gapless sets that meet join (`GaplessUnion`). The invariant says
where they meet: a page the stream has read starts at its cursor, the cursor is the last
line on the wire or else the last one received (`CursorOK`), the wire starts after the
last one received (`WireInv`), as does a poll's page (`RequestInv`), and there the console
ends (`ConsoleInv`). So a line on its way to the screen needs no history: each step moves
a first piece of one set to the end of the next (`PageFollows`, `FirstTaken`,
`LinesDelivered`). The log itself may grow only at its end, but for a stray line
(`SourceMoves`): a line in time is greater than all there are, because a run commits one
line before it begins the next. Without that a page already read would tear. The console
trims twice, in the queue and on the screen, and `KeptTail` and `KeptFront` say that this
is the same as trimming once, so what is shown stays the last lines (`ConsoleGrows`).

*The end.* A read that saw a final row saw a log that grows no more by lines in time
(`ReadInv`); `done` is written only when such a read was short and was written whole
(`AllIsSent`), hence `DoneInv`. That the row itself arrives is `KeyInv`: the row last
written, `stream.key`, is the last snapshot on the wire, or else what the page has queued
or shows (`Latest`).

*Wake-ups.* `Notices`: a stream with `wakes = "none"` and no refresh ahead of it
(no timer, `pending` not set, no read in progress) knows the row and has a cursor past the log; one that is reading and has not
been asked to refresh again has read what is there now. Each notification falls on one of
the two (`RefreshIs`).

`SourceMoves` and `Quiet` are what the steps of the source, and those of a stream that does
not write, have in common; each has one lemma that carries the invariant over
(`SourceKeepsPages`, `SourceKeepsServer`, `QuietKeeps`). Every other action has a lemma of
its own.

### The reindex

Three inductive invariants, each resting on the one before:

| module | theorem | property | assumes |
|---|---|---|---|
| `ReindexProofs` | `TypeCorrect` | `TypeOK` | `ConstantsAssumption` only |
| | `NamesResolve` | `AliasesResolve` | one worker |
| | `SuccessIsClean` | `SuccessLeavesNoGarbage` | one worker |
| `ReindexLoadProofs` | `ServesLoaded` | `ServedIsLoaded` | one worker, no retries |
| | `CheckpointsAreTrue` | `ResumeSkipsNothing` | one worker, no retries |
| | `SwapComesLast` | `SwapIsLast` | one worker, no retries |

They hold for every number of jobs, collections, rows, batches and changes of the source.
The assumptions are where the code stops keeping its promises, as the violated runs
show: `reindex_overlap` has two workers (docs/jobs-worker.md:176 deploys one), and
`reindex_refill` a retry. Attempts, crashes, lost leases and cancels are unrestricted in
all of them.

`TypeInv` adds to the types where a field has a value (`InRange`): a run past its start
has a checkpoint, one that loads has a collection left to load.

`SwapComesLast` is about the run that changes a name: in a swap its checkpoint is past the
last collection, so `Good` of that checkpoint is that all its own collections are loaded,
whatever complete generations earlier runs left.

`AliasInv` follows a run. It has its collections among those that exist from their
creation to its end (`HasCollections`); the list it deletes from never has what a name
points to (`SparesTargets`) nor, while it swaps, its own (`SparesItsOwn`); the names
before `next` are its own (`PointsInOrder`); and when it has cleaned up the second time
only its own are left (`LeavesItsOwn`).

`LoadInv` adds what is in the collections. `Good` is what a checkpoint promises: the
collections before its index are loaded, the one at its index up to `last`. It holds of
the checkpoint of a run from its listing to its swap (`RunIsLoaded`) and of the one in
the row of every job that may still resume (`RowsAreLoaded`); what a run deletes is in
neither, because the row of its job is empty while a fresh run cleans up, is cancelled
when the run is, and names the run's own collections after the swap (`RunMatchesRows`).
No row falls between two pages (`PageIsWhole`): a page has no gap (`PageHasNoGap`), and a
short one is the rest of the table (`ShortPageIsAll`). One worker is needed since a
second run may delete the collections of the first; no retries, since a failed or cancelled job keeps
its checkpoint while a later one deletes its collections; recreated empty by an attempt
of the retry that fails, they pass for loaded in the next.

### Only model-checked

`EveryJobEnds`, `ScDueIsHandled`, `RunsEnd`, `ViewSettles`: liveness under fairness is out
of the prover's reach.
Every safety property of a passing run is proved. The properties of the violated runs
are false as they stand; where one holds under an assumption on the environment
(`NamesResolve`, `ServesLoaded`), the theorem names it.

## What is not covered

The components with status `not_modelled` or `partly` in `PROJECT.json`, for the reason
given there. In particular:

- The child processes of the catalog jobs: every outcome of their race between exit,
  output and stop is a result of a run, and `JobQueue` lets a run have any of them.
- The movie sync: a sequential loop under one advisory lock. That a cancelled batch has no
  successor and that chained batches exclude each other is in `JobQueue`; where its
  cursor goes and when it gives up on the provider is not.
- The circuit breaker of the search reader: one timestamp of one process, which decides
  how the next read is answered.
- The blue-green deploy: its correctness is in how a container runtime and a proxy react,
  which the repository does not contain.
- Telemetry, authentication, uploads and content: best-effort buffers, sequential
  handlers, pure I/O.

Within the modelled ones: SQL text and its translation to rows, the order in which claims
pick jobs (`run_at, created_at`: no property depends on it), the contents of logs and
progress, HTTP retries of the Typesense client (each of its calls is idempotent), parsing
of cron expressions and of the provider's pages, the documents of lookups and posts
(each depends on one row), the checkpoint of `search.sync` across collections, back-off
delays and rendering of the web application. Clock skew between database and worker
matters to the scheduler only (`ScLags`): all leases are measured by the database's clock.
