# Verification of the rebased stardust indexer

The indexer follows an IOTA fullnode checkpoint by checkpoint, keeps the
migrated stardust outputs that have an expiration unlock condition in a SQLite
database, and serves them over a REST API. This directory holds TLA+ modules of
that program, TLC configurations that check them on small instances, and TLAPS
proofs of the results that matter most for instances of any size.

Paths are relative to the repository's root (`src/sync/worker.rs` is the
worker's source).

## 1. The system

| Part | Source | State | Operations |
|---|---|---|---|
| Checkpoint worker | `src/sync/worker.rs` | none of its own; the global timestamp, the metrics, the two tables | `process_checkpoint` |
| Checkpoint filter | `worker.rs:45-63,136-153`, `src/models.rs` | none | which transactions and objects count |
| Progress store | `src/sync/progress_store.rs` | one row of `last_checkpoint_sync` | `load`, `save` |
| Indexer, executor | `src/sync/handler.rs`; `iota-data-ingestion-core` | the pool of workers, the reader's window, the watermark | `init`, `run_with_config`, `graceful_shutdown` |
| Databases | `src/db.rs`, `migrations/` | the files of the objects and of the progress | migrations, `reset_database` |
| Connection pool | `src/db.rs` | up to `pool_size` connections | `get_connection`, which blocks |
| REST lists | `src/rest/routes/v1/` | none between two requests | `/v1/{basic,nft}/:address[/resolved]` |
| Health | `src/rest/routes/health.rs` | none | `/health` |
| Process | `src/main.rs`, `src/rest/mod.rs`, `src/metrics.rs` | tasks, two cancellation tokens | start, signals, shutdown |
| Metrics | `src/metrics.rs` | two gauges, two counters | `/metrics` |

How they interact. The executor downloads checkpoints and hands them, in order,
to `download_queue_size` tasks (200 by default) that all run
`process_checkpoint` of one shared `CheckpointWorker`. A task filters the
transactions, stores the checkpoint's timestamp in a process-wide atomic,
upserts each object with its condition in a database transaction of its own,
then deletes all removed objects in one statement. When a contiguous prefix has
been processed the executor saves the next checkpoint's number in the other
database; a restart begins there. REST handlers read the same tables and the
same atomic, on the same pool of connections, while this goes on. `main` waits
for the REST server and then for the task that handles the signals, which
cancels the REST server and the indexer with two different tokens.

What is hard about it:

* *Concurrency.* Workers run in parallel and nothing orders their statements:
  the later checkpoint may write first. `process_checkpoint` has no `await`, so
  the interesting points are the accesses to shared state.
* *Failure.* Any database call can fail; the attempt ends with some of its
  transactions committed, and the pool starts it over. A conversion fails in the
  middle of a transaction.
* *Crash and restart.* The timestamp, the metrics and the watermark die with the
  process; the tables are ahead of the saved progress. A reset is two steps over
  two files.
* *Split reads.* A resolved list reads the clock, then the rows; the health
  endpoint counts three times; a client reads one page after another.
* *Blocking.* `Pool::get` and the busy handler of SQLite block the thread of the
  runtime they are called on; workers and handlers share threads, connections
  and locks.
* *Power.* The two databases need not lose the same commits with the power.
* *Shutdown.* Tasks may have failed long before anyone joins them.

What makes each part correct:

* worker and tables: an object and its condition live and die together; no
  output below the saved progress is lost; a consumed output goes, a newer
  version is not replaced by an older one, and where workers are out of order
  they are so by less than the window;
* filter: the rows of the configured package are its living shared outputs;
* progress store and executor: the progress passes over processed checkpoints
  only, and gets to the end unless something stands in the way for good;
* databases: what the progress vouches for is there, unless a reset was cut in
  two or the write-ahead log was lost;
* connection pool: nobody waits in a circle, and every wait ends;
* metrics: the gauge names a checkpoint that is indexed, the counters count each
  row, again only after a failure;
* REST: what is covered is listed, an answer shows what it was selected by,
  expiration is not taken back, and no output falls between its owner and its
  return address;
* pages: a walk misses or repeats no more than the changes made meanwhile
  account for;
* process: it ends when told to, with nothing half done, and never runs on
  without its REST server.

The hazards of the code, line by line, with the properties aimed at each, are
listed in `PROJECT.json`.

## 2. The modules

| Module | What it is |
|---|---|
| `CheckpointSync` | workers, tables, progress store, start, reset, crash |
| `CheckpointSyncProps` | its properties and its inductive invariant |
| `CheckpointSyncProofs` | the theorems about it |
| `ExactRowsProofs` | its theorems on the exact rows: of an object one checkpoint touches, and with one worker |
| `SyncLog` | the abstract specification it implements |
| `Durability`, `DurabilityProofs` | journal modes and power failures over `CheckpointSync`, and the theorems |
| `CheckpointFilter` | the pure part: transactions to rows and ids |
| `LedgerIndex`, `LedgerIndexProofs` | the filter applied to a ledger that executes transactions, and the theorems about both |
| `RestApi` | the handlers, composed with `CheckpointSync` |
| `RestApiProofs` | the theorems about it: with any workers, and with one |
| `PageWalk`, `PageWalkProofs` | a client that walks the pages of a list, and the theorems |
| `ConnectionPool`, `ConnectionPoolProofs` | threads, connections and locks, and the theorems |
| `Lifecycle`, `LifecycleProofs` | the tasks of the process, and the theorems |
| `MCCheckpointSync`, `MCDurability`, `MCLedgerIndex`, `MCRestApi`, `MCPageWalk` | instances for TLC |

`RestApi` EXTENDS `CheckpointSync`: each of its steps is a step of one handler
or a step of the other module (`Sync`). `Durability` EXTENDS `CheckpointSync`
likewise. `MCCheckpointSync` writes its chain as transactions and lets
`CheckpointFilter` turn them into rows, so that the two halves of
`process_checkpoint` meet in one instance. `Created` and `Deleted` there are what
the filter makes of the chain, as constants that TLC computes once.

A definition whose name begins with `Broken` belongs to no specification. It is
what the definition below it would be with a plausible bug; `PROJECT.json` says
which property notices when it takes that definition's place.

### 2.1 CheckpointSync

| Variable | In the program |
|---|---|
| `phase` | where `run_indexer` is: the two reverts, the initialisation, running, or running with an executor that has ended (`stalled`) |
| `cursor`, `finished` | the next checkpoint for an idle worker; the checkpoints processed by this process |
| `pc`, `job`, `row` | of each worker: the place in `process_checkpoint`, the checkpoint, the object being inserted |
| `latest_timestamp` | `LATEST_CHECKPOINT_UNIX_TIMESTAMP_MS`, `None` before `get_or_init` |
| `metrics` | the gauges and counters; the counters wrap at `CounterModulus`, 2^64 in the program |
| `objects`, `expiration_unlock_conditions` | the two tables |
| `last_checkpoint_sync` | the row "primary" of the progress store, or `None` |
| `failures`, `crashes`, `applied`, `reached` | bounds and history; no guard of the program reads them |

A step of a worker ends at the next access to shared state:

| Action | Code |
|---|---|
| `ReceiveCheckpoint` | the gauge, then the filter; `input_objects()?` leaves before anything is written (`worker.rs:129-153`) |
| `StoreTimestamp` | the store of the atomic (`157-159`) |
| `InsertObject` | one object: both upserts, the commit, the counter (`78-109`) |
| `RejectObject` | the same transaction when the conversion fails: rolled back (`86-96`) |
| `DeleteObjects` | the one DELETE with its cascade (`115-121`, the migration's foreign key) |
| `FinishCheckpoint` | the gauge and `Ok(())` (`169-176`) |
| `DatabaseFails`, `Retry` | no connection, or a busy database; the pool's retry from the first line |
| `SaveProgress`, `SaveFails` | `save` under the watermark; its error ends the executor and leaves the process up |

A transaction and its counter are one step: nobody reads a counter in
between in a way these properties can tell apart.

Modelled from their use, since their code is a dependency: the pool hands out
checkpoints in order, runs at most `MaxInProgress` ahead of the progress,
retries an attempt that failed without end, and reports a number below which
everything has been processed. It may report any such number, and it may skip
some; how it batches its reports is left open.

### 2.2 SyncLog

What the synchronisation promises, without workers, tables or crashes:
checkpoints are applied in any order inside a window above the recorded
progress, as often as it takes, never again below it, and the progress moves
only over applied ones. The refinement maps `recorded` to the number `load`
returns and `applied` to the history variable of that name.

### 2.3 CheckpointFilter and LedgerIndex

`TouchesStardust`, `Indexable`, `ToStoredObject`, `CreatedObjects` and
`DeletedAddresses` are the filter. `ApplyCheckpoint` is what a checkpoint does
to the table when nothing fails: all upserts, then all deletes, wherever in the
checkpoint they came from. `LedgerIndex` executes transactions on objects of two
packages, shared and owned, and compares the table with the living objects
whenever a checkpoint has been applied. `CallsAreDirect` says whether an object
may be changed by a transaction that does not call its package itself, and
`MaxChanged` bounds how many objects one transaction writes or removes. The two
loops of the worker are folds (`FlattenSeq`, `FoldLeft`) and not RECURSIVE
operators, so that they can be proved about.

### 2.4 RestApi

A handler has no `await` either, so one action for each read of shared state:
`LoadClock`, then `FetchStoredObjects`; `CountAll`, `CountBasic`, `CountNft`.
The single SELECT of a list is one step. The rows pass through the decoding of
`stored_objects_to_basic_outputs`, where one bad row is a 500 for the whole
answer. 503 is a missing connection, a missing timestamp or the failure of the
first health count. `lapsed` and `told` record which rows an answer treated as
expired: in the life of this process, and ever.

400 and 403 are `Reject`: a path that is no address fails in the extractor, an
unknown path goes to the fallback, and neither comes near the database. A reply
holds what a client sees of each output. It is read from the contents of the
row in `objects`, while the row was selected by the columns of
`expiration_unlock_conditions`; `AnswersAgree` compares the two.

A list is one page here. `Endpoint` bounds what clients ask for.

### 2.5 PageWalk

The rows of `expiration_unlock_conditions` (`table`), workers that upsert and
delete them, and a client that asks for page after page until one is not full. A
row has a rowid and a `part`: what it has the client's address as, the `owner`,
the `return` address only, or neither (`other`). `Upsert` leaves a row its rowid,
and a new one gets the highest rowid and one (`NewRowid`, external, as SQLite
does); but it overwrites owner and return address (`worker.rs:88-93`), so an
update can bring a row into the answer, take it out, or move it from one part of
the answer to the other. `Note` tells these apart, as history: `added`, `removed`
and `moved` count them, `stable` is what has been in the answer all the time. The
clock of a resolved list, which selects among the same rows, is not in this
module.

`Answer` is what the query selects, `Before` its order and `Position` a row's
place in it; a page is a `Slice` of places. `Before` is external: no ORDER BY is
given, and SQLite answers `owner = ? OR return_address = ?` from two indices,
one after the other, each in rowid order. With another plan the two bounds on a
walk would have to be checked again. `Offset` is the 32-bit product `(page - 1)
* page_size`, modulo `Modulus`, as a release build computes it: it wraps, at
page 0 too (a debug build panics instead).

### 2.6 Lifecycle

`main` is the place of `run_indexer`; `task` the state of the REST server, the
task of the signals, the metrics server and the executor; the two tokens are
booleans. `EndProcess` drops every task that is left, with a kill as with a
return.

The task of the signals installs its handlers one after the other
(`ListenForSigint`, `ListenForSigterm`), and either `expect` of
`main.rs:174-175` may panic (`ListenFails`): the Indexer goes with the task, its
JoinSet drops the metrics server and the executor, and a handler that is
installed stays installed for the life of the process with nobody to listen.
`handlers` are the signals that no longer have their default effect; any other
signal is a `Kill`. `RestErrs` is the Err of `axum::serve`, which `rest/mod.rs`
logs and drops (axum documents that it does not occur): `run_indexer` then waits
for a signal without a REST server.

### 2.7 ConnectionPool

What a task waits for: a thread of the runtime (`ready`), a connection (`get`),
SQLite's lock for its statement (`begin`), the readers that a commit in the
rollback journal waits for (`commit`). `todo` is what is left of its program:
one transaction for each created object on one connection, then the delete on
another one; one read for a list, three for `/health`. Reads take SHARED. A
transaction begins with a write, so it asks for RESERVED at once. `TimesOut` is
`connection_timeout` or `busy_timeout`: it may come whenever the task has to
wait, and drops all the task has. `enable_wal` decides whether readers and
commits are in each other's way. The runtime, the pool of r2d2 and SQLite are
modelled as the code here uses them.

### 2.8 Durability

`disk` is what a power failure leaves of the two tables. A commit is on the disk
when it returns, except under `--enable-wal`, where `on_acquire` sets
`synchronous = NORMAL` and only `Flush` brings the log there. The progress store
never has the option (`main.rs:97`), so what `save` has stored is not lost.
`PowerFailure` is a crash that sets the tables back to `disk`. `suspect` is
history: a reset that ended between its databases, or a log that was lost, and
no complete reset since.

## 3. The runs

| Run | Question | Bounds |
|---|---|---|
| `sync_concurrent` | Do the tables stay paired, is nothing lost, is the row of an uncontested object exact, are the metrics right, how far can a row or the timestamp go back, is `SyncLog` implemented? | 3 workers, 4 checkpoints, window 3, 2 failures, 1 crash |
| `sync_settles` | Where does a chain with a checkpoint that always fails take the progress, through failures, crashes and resets? | 2 workers, 4 checkpoints, window 2, 1 failure, 2 crashes |
| `power_failure` | In both journal modes, with and without resets: what can be lost, and what can make an uncontested row wrong? | 2 workers, 3 checkpoints, window 2, 1 failure, 2 crashes or power failures |
| `ledger_exact` | Are the rows of the configured package its living outputs? | 4 objects, 2 versions, 2 transactions in a checkpoint, 2 objects in each (any number in genesis) |
| `rest_one_worker` | With one worker, are the tables those of a sequential run, are covered outputs listed, can a list fail on a row, is expiration consistent, do answers show what they were selected by, do the health counts drift within bounds? | 1 worker, 1 client, 3 checkpoints, 1 failure, 1 crash |
| `pages_walk` | What does a walk miss and repeat? | 6 outputs, page sizes 0 to 3, first pages 0 to 3 and 5, 3 insertions, updates or deletions, arithmetic modulo 8 |
| `pool` | Can tasks wait for each other for good, and does every task return? | 2 workers, 1 handler, up to 2 threads, 2 connections, 1 insertion, both journal modes |
| `lifecycle` | Does the process end, and cleanly, also when sockets, handlers of signals or the executor fail? | 2 requests in flight |

Why the bounds are enough to be interesting. The hard interleavings take two
workers on neighbouring checkpoints and a third that is a step ahead. The chain
has an object that is changed and then consumed, one that changes a whole window
later, one that nobody else touches and one that appears late; its checkpoints
differ in every way the worker looks at them. A second chain has an output whose
new version has no expiration, which no attempt gets past, and then a checkpoint
without any row. The window is smaller
than the chain in the runs with several workers, so it closes, and workers wait
for it; in `sync_settles` it still holds a checkpoint beyond the poisoned one. A
crash replays checkpoints that are half applied. A failure can hit every call,
and two of them can repeat the rows of one checkpoint twice or of two once.
The two expirations fall on the very timestamps of two checkpoints, with owner
and return address crossed, so that every comparison is taken at its boundary.
The window is reached: three workers can hold checkpoints 0 to 2 and write them
in any order, and the first and the last checkpoint touch the same object, so a
row or a timestamp that went back any further would show. In `pages_walk` rows of
all three parts lie interleaved in the table, with a gap of an earlier row, and
three changes are enough to take a row out of the answer and bring it back on the
other side of the client. The modulus is just above the length of the table
(`TableFits`):
every walk from the first page stays below it, and some that begin further on, or
at page 0, do not. In
`pool` three tasks want two threads or one, and two connections or one, and a
worker takes a connection twice; the deadlock this could be takes two workers
and two connections. Symmetry is used over workers, in runs without fairness.

What a client is told takes one worker to be right (`ExpiryHolds`, `HandedOver`),
so there is one in `rest_one_worker`. The properties of the lists that hold for
any number of workers are proved for it (section 5). Where no property looks at
the counters, `CounterModulus = 1` folds them into one value. `enable_wal` is
chosen once for a behaviour, `--reset-db` at each start. Two crashes are enough
to cut a reset in two and come back to it, or to lose a log twice.

Four runs show where what the repository says of the program is not what it
does:

| Run | What TLC finds |
|---|---|
| `sync_resurrected` | an upsert of an older checkpoint after the delete of a newer one: the consumed output stays listed |
| `sync_reset_crash` | a crash between the two reverts, then a start without a reset: the progress is ahead of empty tables |
| `ledger_package` | rows of a package other than the one configured |
| `rest_expiry` | with one worker: after a restart an older timestamp is the latest one, and an expired output is its owner's again |

The causes have other effects, which have no run of their own. As nothing orders
the statements of two workers, an older version can overwrite a newer one
(`worker.rs:79-84`), and the "latest" timestamp can go back (`worker.rs:157`).
`RowsTrailWindow` and `ClockTrailsWindow` say how far: by less than the window
of the executor, for any number of workers. Exactness takes more:
`UncontestedRows` holds for objects that one checkpoint alone touches, and
`SequentialRows`, `ExpiryHolds` and `HandedOver` hold for one worker. As the
filter sees the packages a transaction calls directly, an output consumed
through the code of another package keeps its row: `PackageRowsExact` needs
`CallsAreDirect`. As the offset of a page is a 32-bit product (`v1/mod.rs:78`),
a page number whose offset does not fit lists another page in a release build:
`PagesAreSlices` needs an offset below the modulus. And as the progress store is
never opened with a write-ahead log, a power failure under `--enable-wal` can
leave a progress whose rows are gone: `LossHasACause` and `ExactUnlessSuspect`
name that case, and the half-done reset, as the only two.

`CHECK_DEADLOCK FALSE` is given where the system really may stop: a chain that
has been processed to its end, an executor that has ended, a walk that is done,
a ledger with no object left to change, a process that has ended. `pool` is
checked for deadlock.

## 4. Fairness and liveness

`CheckpointSync` (`FairSpec`): weak fairness for the steps of the process's
start, of each worker and of the saves. The runtime polls every task that is
ready, `process_checkpoint` waits for no other worker, and the pool retries
without end. Nothing is assumed of failures, crashes or the choice of
`--reset-db`; the bounds make the failures finitely many. `SettlesAtPoison` then
says where the progress comes to rest: right before the first checkpoint that
can never be processed, or past the last one, with every other checkpoint in the
window applied; unless an error of `save` ended the executor for good, which is
what the code does.

`ConnectionPool` (`FairSpec`): weak fairness for a task on a thread, whose wait
ends with what it waits for or with the timeout, and strong fairness for the
runtime's queue, which is first in, first out. Nothing wakes a task by itself,
and no statement has to fail. `EveryoneReturns` needs the timeout: without it
other tasks may be served for ever before one that waits.

`Lifecycle`: weak fairness for each task's own steps, for the bind of a socket
to succeed or fail, and for an executor that drains once its token is cancelled.
That last one is an assumption about the library, as is that an accepted request
is answered. Signals, requests, failures and kills are not fair.

Liveness is model-checked only.

## 5. What is proved

The proof modules work for every value of the constants under the modules' own
assumptions (`SyncAssumption`: the tables of rows and ids have their types, the
bounds are numbers, `None` is neither; `WalAssumption`, `ApiAssumption`,
`LedgerAssumption`, `PageAssumption`, `PoolAssumption`, `LifecycleAssumption`).
What a theorem assumes beyond that is in its statement:

| Hypothesis | What it says |
|---|---|
| `NoReset`, `AlwaysReset` | no start, or every start, is made with `--reset-db` |
| `OneWorker` | `download_queue_size` is 1 |
| `MonotoneTimestamps` | the timestamps of the chain do not go back |
| `TypesAreStable` | an object keeps its type for life, as objects of a Move ledger do |
| `CallsAreDirect` | an object changes only in transactions that call its package |
| `TableFits` | the table has fewer than `Modulus` rows, which is 2^32 |

TLC evaluates those that are about the chain or the table on the instances it
checks (`ChainAssumption`, `InstanceFits`), so that states satisfy them. Each
invariance theorem has a lemma for Init, one for each action or group of alike
actions, and one step for each conjunct an action can disturb.

Every invariant that a passing run checks, `ImplementsLog` and the action
property `HandedOver` are stated by a theorem.

`CheckpointSyncProofs`, for any number of workers, any chain and any window:

* `Invariance`: `SyncInv` is an invariant.
* `TypeCorrect`, `TablesPaired`, `PoisonBlocks`, `GaugeKeepsUp`: `TypeOK`,
  `PairedTables`, `PoisonNeverPassed` and `IndexedGauge`.
* `NothingLost`: `NoLostOutput`, when no start resets or every start does. With
  starts of both kinds it is false, and `sync_reset_crash` shows it.
* `Implementation`: without resets, `Spec` implies `Log!Spec`.
* `CountersInvariance` (`CounterInv`) and `CountersKeepUp`
  (`CountersCountRows`).
* `TrailInvariance` (`TrailInv`), `ClockTrails` (`ClockTrailsWindow`) and
  `RowsTrail` (`RowsTrailWindow`).

Why `SyncInv` is what it is. `NoLostOutput` speaks of rows below the saved
progress, but a save looks at `finished` only. So the invariant ties them:
what is saved has been applied (`SavedAreApplied`), what has finished is applied
and not poisoned (`FinishedAreSound`), and of an applied checkpoint every row
that nobody removes is in the table (`RowsPresent`). A checkpoint becomes
applied when its worker is done, so the same is said of the rows a worker at
work has put behind it (`PastRows`), and that needs the order in which it goes
through them (`RowsInOrder`) and that it accepted each (`RowsAccepted`). Last,
a worker must not be at a checkpoint that is saved or that another one holds
(`JobsAreOpen`), and none is at work while the process is down (`DownIsIdle`);
the refinement needs the window of `JobsAreOpen` too: `FinishCheckpoint` is the
step `Apply` of the log and must fall inside it. All of this but
`SavedAreApplied` is `CoreInv`, which a reset cannot disturb; what is saved may
be taken as applied as long as it is `Vouched` for.

Why `CounterInv` is what it is. A row is counted when it is committed, and is
counted again only if its checkpoint is attempted again. So each counter is, up
to the modulus, the number of rows committed plus some k (`Explained`), and k is
paid for: at most `Longest` rows, those of the longest checkpoint, for each
failed attempt that has been started over. An attempt that has failed and waits
(`FailedJobs`) has paid already and has repeated nothing yet; when it is retried
its rows stop being committed ones and move into k. A crash takes the counters,
the attempts and what has finished along with it. The rest is arithmetic of
remainders, from division (`Division`, `OneRemainder`, `Modular`).

Why `TrailInv` is what it is. A worker stores or inserts for a checkpoint that is
open: not below the progress. What is finished, applied or at work at that moment
is less than the window ahead of the progress (`JobsAreOpen`, `AppliedInReach`),
and so less than the window ahead of that checkpoint. Whatever finishes later was
either past its own store by then, or its store came after and is the latest one:
`StampInReach` therefore names the workers that have stored theirs (`Stamped`)
beside the checkpoints that are finished, and `RowsInReach` says the same of the
workers that have written or removed a row (`HasTouched`). The rows have to be
followed through crashes, whose attempts leave some behind, and through resets.

`ExactRowsProofs`, for any number of workers: `ExactInvariance` (`ExactInv`) and
`RowsUncontested` (`UncontestedRows`, `--reset-db` the same at every start). The
invariant follows the rows of one object through an attempt of the one checkpoint
that touches it (`AttemptExact`, `WorkExact`): past row i they are what the first
i rows left, whatever an earlier attempt or process had left there, and after the
delete they are final. The upsert replaces and never adds, so a replay ends where
the first run ended.

With `OneWorker`: `SeqInvariance` (`SeqInv`), `TablesAreSequential`
(`SequentialRows`, `--reset-db` the same at every start). The single worker holds
the checkpoint handed out last (`JobIsLast`), so `ExactAt(k)` is carried from the
saved progress up to it: the tables are the sequential ones, but for objects a
checkpoint from k on has had a chance to touch.

`DurabilityProofs`, for both journal modes and any order of crashes and power
failures, and any choice of `--reset-db` at each start: `DurableInvariance`
(`DurableInv`), `LossesHaveACause` (`LossHasACause`), and with a second
invariant `DurableExactInvariance` (`DurableExact`), `RowsExactOrSuspect`
(`ExactUnlessSuspect`). The first invariant says of `disk` what `CoreInv` says
of the tables, that the two are equal without a write-ahead log, and that what
is saved is applied unless `suspect`. The second takes `WorkExact` from
`ExactRowsProofs`, which needs no hypothesis on resets because a reset finds
nobody at work, and ties the rows below the progress to `suspect` in the same
way.

`LedgerIndexProofs`, for any number of objects, packages and transactions in a
checkpoint:

* `LastRowWins`: what a checkpoint's upserts leave in a table, for any sequence
  of rows.
* `LedgerInvariance` (`LedgerInv`), `LedgerTypeCorrect` (`TypeOK`),
  `RowsAreExact` (`PackageRowsExact`, with `CallsAreDirect`).

The table is exact only when a checkpoint has been applied, so the invariant says
what it would be if the waiting transactions were sealed now (`PendingExact`);
each transaction keeps that so, wherever the checkpoint is cut. It needs the rows
of a batch with one transaction more (`ApplyAppend`), and that an id a batch
deletes has gone for good: deletes come after all upserts, and would take away
the row of an object created again. What the two folds compute for every sequence
is an induction over its length, which the library's induction theorems cannot
express here. It is done by the least number for which the claim fails
(`LeastNumber`, from `WFMin`); the recursive functions inside the folds exist and
unroll by the same argument (`UnrolledExists`, `FoldedExists`).

`PageWalkProofs`, for any table, any pages, and any number of changes, with
`TableFits`: `WalkInvariance` (`WalkInv`), `WalkTypeCorrect` (`TypeOK`),
`MissedAreFew` (`MissedFew`), `RepeatedAreFew` (`RepeatedFew`),
`PagesSliceTheAnswer` (`PagesAreSlices`). The argument follows the position the
walk has got to (`At`, the offset of its next page). `Behind` are the rows in
front of it that the walk has not got and will not get, `Again` those past it
that it has got already. A change puts at most one row more into either set: a
row that comes into the answer pushes one past the position, a row that leaves
it pulls one in front, and a row that an update moves from one part to the other
crosses the position itself or lets the row next to it cross. An update that
leaves owner and return address as they are moves nothing. Rows that are
repeated later count now (`FewAgain`). Positions are the numbers from 0 up to
the length of the answer (`Positions`), so a page of `size` places has `size`
rows unless the answer ends in it (`SliceSize`); as long as pages are full their
offsets are below the length and do not wrap (`OnTrack`, `OffsetNext`).

`RestApiProofs`, for any number of clients and workers:

* `ApiInvariance` (`ApiInv`), `ApiTypeCorrect`, `ListsDecode`, `ShownAsSelected`
  and `ListsComplete` (`ApiTypeOK`, `OnlyDecodableRows`, `AnswersAgree`,
  `ListIsComplete`, the last with `--reset-db` the same at every start).
  Handlers write nothing the workers read, so each of their steps leaves
  `SyncInv` alone; what a request has loaded is tied to what the tables vouched
  for when it came.
* `HandlersKeepTheLog`: without resets the composition implements `SyncLog` too.
  A step of it is a step of `CheckpointSync` or one more failure
  (`SyncBehind`), and neither a request nor a failure moves the log.
* `DriftIsBounded` (`HealthDriftBounded`, with `TypesAreStable`): between two
  counts, what has been counted is off from the table by no more than the rows
  that came and went (`CountsFollow`). A step adds rows or removes rows but not
  both, and an upsert of another type would move one between the counts.

With `OneWorker` and `MonotoneTimestamps`: `ExpiryInvariance`
(`ExpiryInv`), `ExpiredStaysExpired` (`ExpiryHolds`), `NothingBetween`
(`HandedOver`). The timestamp goes forward while the process lives
(`ClockAdvances`), a request's clock is not ahead of it, and not behind anything
its client has been told.

`ConnectionPoolProofs`, for any number of tasks, threads and connections, in both
journal modes: `Invariance` (`PoolInv`), `TypeCorrect`, `NoCircularWait`
(`NobodyStuck`), `PoolLargeEnough` (`NeverShort`). Who holds what follows from
where each task is. `NobodyStuck` then is an argument by the order in which
things are taken: if any task is under way, look at those furthest on.

`LifecycleProofs`, for any number of requests in flight:

* `Invariance`: `LifecycleInv` is an invariant; `TypeCorrect`: `TypeOK`.
* `ExitsCleanly`: `CleanExit`.

`CleanExit` speaks of the moment run_indexer returns Ok, so the invariant
carries what has been passed on the way: past the REST server its task has ended,
by itself only for the token (`RestFirst`), past the cancellation a signal has
come, and a task of the signals that has ended without a panic has joined both
others (`ShutdownInOrder`). The same conjunct says that a task that has panicked
never cancelled a token; so after its panic only a REST server that ended with an
error lets `run_indexer` get to its end, and that is the exception `CleanExit`
names. `NotStarted`
keeps the tasks out of the way until they are spawned.

The theorems are about the specifications without fairness, and so hold with it.

Model-checked and not proved: the liveness properties `SettlesAtPoison`,
`SignalEndsProcess`, `NoSilentRestFailure` and `EveryoneReturns` (fairness and
ENABLED are out of the provers' reach), and the properties that do not hold,
whose counterexamples are the four violation runs.

## 6. What is not modelled

* The download: batches, the data limit, the fullnode's errors. A checkpoint
  arrives, or does not yet.
* `Unreadable`: the model follows the error of `input_objects()`, but no
  transaction of the instances takes it, because a committed transaction has
  inputs that can be read.
* A worker the runtime drops at a graceful shutdown: for the tables and the
  progress this is `Crash`, which may come between any two steps.
* Bytes: BCS, SQL encodings, JSON; the 64-bit casts of checkpoint numbers and
  times, whose values stay far below 2^63.
* The insides of libraries: the executor's batches of progress reports, the
  scheduler of the runtime, axum's connections, the pages of SQLite's files. The
  modules take from them what the code here relies on, and `PROJECT.json` marks
  those definitions as external.
* Configuration, the command line, the generated OpenAPI file: they have no
  state. Their values are the constants of the modules.
* A request to `/metrics`: it reads gauges and counters and changes nothing.
  What they say is `IndexedGauge` and `CountersCountRows`.

## 7. The plan

Done, in this order: `CheckpointSync` with its properties and `SyncLog`;
`CheckpointFilter` and `LedgerIndex`; the proofs of `CheckpointSync`; `RestApi`
over `CheckpointSync`; `PageWalk`; `Lifecycle` and its proofs; the metrics as
properties; `ConnectionPool` and `Durability` with their proofs; the proofs of
`RestApi`; the exact rows and expiration with one worker; the proofs of
`LedgerIndex` and `PageWalk`; the counters and the health counts; uncontested
rows through power failures; the window as a bound on rows and timestamps out of
order, for any number of workers.

What could still be added:

1. `SequentialRows` with power failures, for tables that are not suspect: it is
   proved for crashes, where no commit is lost.
2. The safety half of the liveness properties as theorems: from a state that is
   not settled some step of the process is possible.
3. A lemma that joins the two halves of `process_checkpoint` for every chain:
   one checkpoint processed alone and without a failure by `CheckpointSync`
   leaves in `objects` what `ApplyCheckpoint` computes.
4. A graceful shutdown composed with `CheckpointSync`, once the library says
   which workers it waits for.
