--------------------------- MODULE CheckpointSync ---------------------------
(***************************************************************************)
(* How checkpoints become rows: the worker pool that runs                  *)
(* CheckpointWorker::process_checkpoint on several checkpoints at a time,  *)
(* the two SQLite databases it leads to (the objects database and the      *)
(* progress store), and the life of the process around them: start, reset, *)
(* crash, restart.                                                         *)
(*                                                                         *)
(* What a checkpoint asks of the database (the rows to upsert and the ids  *)
(* to delete) is a parameter here; module CheckpointFilter computes it     *)
(* from the transactions.                                                  *)
(*                                                                         *)
(* A worker has no await point inside process_checkpoint, but the workers  *)
(* are tasks of a multi-threaded runtime, so two of them interleave at     *)
(* every access to shared state: one action for each such access.          *)
(*                                                                         *)
(* A definition whose name begins with Broken is no part of the            *)
(* specification: it is what the definition after it would be with a       *)
(* plausible bug, and PROJECT.json names the property that notices.        *)
(***************************************************************************)
EXTENDS Naturals, Sequences, FiniteSets

CONSTANTS
    Worker,            \* tasks of the worker pool (download_queue_size of them)
    LastCheckpoint,    \* the highest checkpoint the fullnode serves
    Id,                \* object ids
    ObjectType,        \* the indexed types: basic and nft outputs
    Contents,          \* BCS contents of an output
    Expiration,        \* expiration unlock conditions
    DecodeExpiration,  \* the condition found in some contents, or None
    Upserts,           \* checkpoint -> created_objects, in insertion order
    Removals,          \* checkpoint -> deleted_addresses
    Timestamp,         \* checkpoint -> timestamp_ms of its summary
    Unreadable,        \* checkpoints with a transaction whose inputs are bad
    ResetChoices,      \* values --reset-db may take at a start of the process
    MaxInProgress,     \* checkpoints the reader may run ahead of the progress
    CounterModulus,    \* where a counter wraps: 2^64 in the program
    MaxFailures,       \* bound: failing database calls in a behaviour
    MaxCrashes,        \* bound: crashes in a behaviour
    None               \* no row, no checkpoint, no value

Checkpoints  == 0 .. LastCheckpoint
StoredObject == [id : Id, object_type : ObjectType, contents : Contents]
UnlockRow    == [object_id : Id, expiration : Expiration]

ASSUME SyncAssumption ==
    /\ LastCheckpoint \in Nat
    /\ DecodeExpiration \in [Contents -> Expiration \cup {None}]
    /\ Upserts \in [Checkpoints -> Seq(StoredObject)]
    /\ Removals \in [Checkpoints -> SUBSET Id]
    /\ Timestamp \in [Checkpoints -> Nat]
    /\ Unreadable \subseteq Checkpoints
    /\ ResetChoices \in (SUBSET BOOLEAN) \ {{}}
    /\ MaxInProgress \in Nat \ {0}
    /\ CounterModulus \in Nat \ {0}
    /\ MaxFailures \in Nat
    /\ MaxCrashes \in Nat
    /\ None \notin Nat
    /\ None \notin Expiration

VARIABLES
    phase,        \* where the process is between its start and its end
    cursor,       \* the next checkpoint handed to an idle worker
    pc,           \* what each worker does next in process_checkpoint
    job,          \* the checkpoint each worker holds
    row,          \* position in created_objects of the next row to insert
    finished,     \* checkpoints this process has seen processed
    latest_timestamp,              \* LATEST_CHECKPOINT_UNIX_TIMESTAMP_MS
    metrics,                       \* the Prometheus gauges and counters
    objects,                       \* table objects
    expiration_unlock_conditions,  \* table expiration_unlock_conditions
    last_checkpoint_sync           \* row "primary" of the progress store

\* Bounds and history; no guard of the program reads them.
VARIABLES
    failures,     \* database calls that failed so far
    crashes,      \* crashes so far
    applied,      \* checkpoints processed into the present objects database
    reached       \* one more than the highest checkpoint ever taken into it

workerVars   == <<pc, job, row>>
poolVars     == <<cursor, finished>>
globalVars   == <<latest_timestamp, metrics>>
tableVars    == <<objects, expiration_unlock_conditions>>
historyVars  == <<applied, reached>>
boundVars    == <<failures, crashes>>

vars == <<phase, workerVars, poolVars, globalVars, tableVars,
          last_checkpoint_sync, boundVars, historyVars>>

Phases  == {"down", "revert_objects", "revert_progress", "init",
            "running", "stalled"}
Control == {"idle", "receive", "stamp", "insert", "delete", "finish", "failed"}

Up == phase \in {"running", "stalled"}

Metrics == [last_checkpoint_received : Checkpoints,
            last_checkpoint_indexed  : Checkpoints,
            indexed_outputs_count    : [ObjectType -> 0 .. CounterModulus - 1]]

NoMetrics == [last_checkpoint_received |-> 0,
              last_checkpoint_indexed  |-> 0,
              indexed_outputs_count    |-> [t \in ObjectType |-> 0]]

\* Every variable holds a value of its type; in particular the stored progress
\* never runs past the chain and a stored row always has a decoded condition.
TypeOK ==
    /\ phase \in Phases
    /\ cursor \in 0 .. LastCheckpoint + 1
    /\ pc \in [Worker -> Control]
    /\ job \in [Worker -> Checkpoints \cup {None}]
    /\ row \in [Worker -> Nat]
    /\ finished \in SUBSET Checkpoints
    /\ latest_timestamp \in Nat \cup {None}
    /\ metrics \in Metrics
    /\ objects \in SUBSET StoredObject
    /\ expiration_unlock_conditions \in SUBSET UnlockRow
    /\ last_checkpoint_sync \in 0 .. LastCheckpoint + 1 \cup {None}
    /\ failures \in 0 .. MaxFailures
    /\ crashes \in 0 .. MaxCrashes
    /\ applied \in SUBSET Checkpoints
    /\ reached \in 0 .. LastCheckpoint + 1

-----------------------------------------------------------------------------
(* Statements of the databases.                                            *)

\* INSERT .. ON CONFLICT (id) DO UPDATE: the row takes the place of the one
\* that has its key.
BrokenUpsertObject(table, obj) ==
    IF \E o \in table : o.id = obj.id THEN table ELSE table \cup {obj}
UpsertObject(table, obj) ==
    {o \in table : o.id # obj.id} \cup {obj}

BrokenUpsertCondition(table, cond) ==
    IF \E c \in table : c.object_id = cond.object_id THEN table
                                                   ELSE table \cup {cond}
UpsertCondition(table, cond) ==
    {c \in table : c.object_id # cond.object_id} \cup {cond}

\* DELETE FROM objects WHERE id IN (..), and the ON DELETE CASCADE of the
\* conditions, which SQLite obeys because of `PRAGMA foreign_keys = ON`.
WithoutObjects(table, ids) == {o \in table : o.id \notin ids}

BrokenWithoutConditions(table, ids) == table
WithoutConditions(table, ids) == {c \in table : c.object_id \notin ids}

\* ExpirationUnlockCondition::try_from(stored_object): what is written next to
\* the object. It fails when the contents hold no expiration.
Condition(obj) ==
    [object_id |-> obj.id, expiration |-> DecodeExpiration[obj.contents]]

BrokenHasExpiration(obj) == TRUE
HasExpiration(obj) == DecodeExpiration[obj.contents] # None

\* SqliteProgressStore::load: checkpoint 0 when nothing was ever recorded.
BrokenLoad ==
    IF last_checkpoint_sync = None THEN 0 ELSE last_checkpoint_sync + 1
Load == IF last_checkpoint_sync = None THEN 0 ELSE last_checkpoint_sync

\* The first checkpoint the executor asks for: the stored number is the next
\* one to process, not the last one processed.
BrokenFirstFetched == IF last_checkpoint_sync = None THEN 0 ELSE Load + 1
FirstFetched == Load

-----------------------------------------------------------------------------
(* The process: start, reset, initialisation, crash.                       *)

\* What dies with the process: its workers, its channels, its globals.
ForgetMemory ==
    /\ pc' = [w \in Worker |-> "idle"]
    /\ job' = [w \in Worker |-> None]
    /\ row' = [w \in Worker |-> 0]
    /\ finished' = {}
    /\ cursor' = 0
    /\ latest_timestamp' = None
    /\ metrics' = NoMetrics

Init ==
    /\ phase = "down"
    /\ cursor = 0
    /\ pc = [w \in Worker |-> "idle"]
    /\ job = [w \in Worker |-> None]
    /\ row = [w \in Worker |-> 0]
    /\ finished = {}
    /\ latest_timestamp = None
    /\ metrics = NoMetrics
    /\ objects = {}
    /\ expiration_unlock_conditions = {}
    /\ last_checkpoint_sync = None
    /\ failures = 0
    /\ crashes = 0
    /\ applied = {}
    /\ reached = 0

\* run_indexer begins; --reset-db is read from the command line of this start.
Start(reset) ==
    /\ phase = "down"
    /\ phase' = IF reset THEN "revert_objects" ELSE "init"
    /\ UNCHANGED <<workerVars, poolVars, globalVars, tableVars,
                   last_checkpoint_sync, boundVars, historyVars>>

\* reset_database, first call: the tables of the objects database are dropped.
RevertObjects ==
    /\ phase = "revert_objects"
    /\ phase' = "revert_progress"
    /\ objects' = {}
    /\ expiration_unlock_conditions' = {}
    /\ applied' = {}
    /\ reached' = 0
    /\ UNCHANGED <<workerVars, poolVars, globalVars, last_checkpoint_sync,
                   boundVars>>

\* reset_database, second call: the other database file is reverted.
BrokenDropProgress == last_checkpoint_sync' = last_checkpoint_sync
DropProgress == last_checkpoint_sync' = None

RevertProgress ==
    /\ phase = "revert_progress"
    /\ phase' = "init"
    /\ DropProgress
    /\ UNCHANGED <<workerVars, poolVars, globalVars, tableVars, boundVars,
                   historyVars>>

\* Migrations create what is missing and keep what is there; then the executor
\* registers its pool, which loads the checkpoint to start from.
InitIndexer ==
    /\ phase = "init"
    /\ phase' = "running"
    /\ cursor' = FirstFetched
    /\ UNCHANGED <<workerVars, finished, globalVars, tableVars,
                   last_checkpoint_sync, boundVars, historyVars>>

\* The process dies, or leaves run_indexer through a `?` while it starts.
Crash ==
    /\ phase # "down"
    /\ crashes < MaxCrashes
    /\ crashes' = crashes + 1
    /\ phase' = "down"
    /\ ForgetMemory
    /\ UNCHANGED <<tableVars, last_checkpoint_sync, failures, historyVars>>

-----------------------------------------------------------------------------
(* CheckpointWorker::process_checkpoint, one access to shared state a step. *)

\* The pool hands the next checkpoint to an idle worker (the library).
TakeCheckpoint(w) ==
    /\ Up
    /\ pc[w] = "idle"
    /\ cursor \in Checkpoints
    /\ cursor < Load + MaxInProgress
    /\ pc' = [pc EXCEPT ![w] = "receive"]
    /\ job' = [job EXCEPT ![w] = cursor]
    /\ cursor' = cursor + 1
    /\ reached' = IF cursor' > reached THEN cursor' ELSE reached
    /\ UNCHANGED <<phase, row, finished, globalVars, tableVars,
                   last_checkpoint_sync, boundVars, applied>>

\* The gauge of the checkpoint that was received last, in whatever order.
BrokenReceived(n) == [metrics EXCEPT !.last_checkpoint_received = n,
                                     !.last_checkpoint_indexed = n]
Received(n) == [metrics EXCEPT !.last_checkpoint_received = n]

\* The gauge is set, then the transactions are filtered; `input_objects()?`
\* leaves the function before anything else is touched.
ReceiveCheckpoint(w) ==
    /\ pc[w] = "receive"
    /\ metrics' = Received(job[w])
    /\ pc' = [pc EXCEPT ![w] =
                IF job[w] \in Unreadable THEN "failed" ELSE "stamp"]
    /\ UNCHANGED <<phase, job, row, poolVars, latest_timestamp, tableVars,
                   last_checkpoint_sync, boundVars, historyVars>>

\* Where process_checkpoint goes once its insertions are behind it.
AfterInserts(w) == IF Removals[job[w]] # {} THEN "delete" ELSE "finish"

BrokenNewTimestamp(n) ==
    IF latest_timestamp = None THEN Timestamp[n] ELSE latest_timestamp
NewTimestamp(n) == Timestamp[n]

\* The timestamp is stored whatever it was before, ahead of the rows.
StoreTimestamp(w) ==
    /\ pc[w] = "stamp"
    /\ latest_timestamp' = NewTimestamp(job[w])
    /\ row' = [row EXCEPT ![w] = 1]
    /\ pc' = [pc EXCEPT ![w] =
                IF Upserts[job[w]] # <<>> THEN "insert" ELSE AfterInserts(w)]
    /\ UNCHANGED <<phase, job, poolVars, metrics, tableVars,
                   last_checkpoint_sync, boundVars, historyVars>>

\* One database transaction for one object and its condition, then the counter.
InsertObject(w) ==
    LET obj == Upserts[job[w]][row[w]] IN
    /\ pc[w] = "insert"
    /\ HasExpiration(obj)
    /\ objects' = UpsertObject(objects, obj)
    /\ expiration_unlock_conditions' =
         UpsertCondition(expiration_unlock_conditions, Condition(obj))
    /\ metrics' = [metrics EXCEPT
                     !.indexed_outputs_count[obj.object_type] =
                         (@ + 1) % CounterModulus]
    /\ row' = [row EXCEPT ![w] = @ + 1]
    /\ pc' = [pc EXCEPT ![w] =
                IF row[w] < Len(Upserts[job[w]]) THEN "insert"
                                                 ELSE AfterInserts(w)]
    /\ UNCHANGED <<phase, job, poolVars, latest_timestamp,
                   last_checkpoint_sync, boundVars, historyVars>>

\* Where an attempt goes when an error reaches its `?`.
BrokenOnError(w) == AfterInserts(w)
OnError(w) == "failed"

\* What a transaction that upserted obj and then failed leaves of the table.
BrokenRolledBack(table, obj) == UpsertObject(table, obj)
RolledBack(table, obj) == table

\* The conversion fails inside the transaction: it is rolled back and the
\* error ends the attempt. Rows of earlier transactions stay.
RejectObject(w) ==
    LET obj == Upserts[job[w]][row[w]] IN
    /\ pc[w] = "insert"
    /\ ~HasExpiration(obj)
    /\ objects' = RolledBack(objects, obj)
    /\ pc' = [pc EXCEPT ![w] = OnError(w)]
    /\ UNCHANGED <<phase, job, row, poolVars, globalVars,
                   expiration_unlock_conditions, last_checkpoint_sync,
                   boundVars, historyVars>>

\* One DELETE for all removed ids; the conditions follow by ON DELETE CASCADE.
DeleteObjects(w) ==
    /\ pc[w] = "delete"
    /\ objects' = WithoutObjects(objects, Removals[job[w]])
    /\ expiration_unlock_conditions' =
         WithoutConditions(expiration_unlock_conditions, Removals[job[w]])
    /\ pc' = [pc EXCEPT ![w] = "finish"]
    /\ UNCHANGED <<phase, job, row, poolVars, globalVars,
                   last_checkpoint_sync, boundVars, historyVars>>

\* Ok(()): the gauge is set and the pool learns that the checkpoint is done.
FinishCheckpoint(w) ==
    /\ pc[w] = "finish"
    /\ metrics' = [metrics EXCEPT !.last_checkpoint_indexed = job[w]]
    /\ finished' = finished \cup {job[w]}
    /\ applied' = applied \cup {job[w]}
    /\ pc' = [pc EXCEPT ![w] = "idle"]
    /\ job' = [job EXCEPT ![w] = None]
    /\ row' = [row EXCEPT ![w] = 0]
    /\ UNCHANGED <<phase, cursor, latest_timestamp, tableVars,
                   last_checkpoint_sync, boundVars, reached>>

\* No connection within the timeout, or a statement that finds the database
\* busy: `?` ends the attempt, the open transaction is rolled back.
DatabaseFails(w) ==
    /\ pc[w] \in {"insert", "delete"}
    /\ failures < MaxFailures
    /\ failures' = failures + 1
    /\ pc' = [pc EXCEPT ![w] = OnError(w)]
    /\ UNCHANGED <<phase, job, row, poolVars, globalVars, tableVars,
                   last_checkpoint_sync, crashes, historyVars>>

\* The pool calls process_checkpoint again with the same checkpoint (the
\* library), from its first line.
Retry(w) ==
    /\ pc[w] = "failed"
    /\ pc' = [pc EXCEPT ![w] = "receive"]
    /\ row' = [row EXCEPT ![w] = 0]
    /\ UNCHANGED <<phase, job, poolVars, globalVars, tableVars,
                   last_checkpoint_sync, boundVars, historyVars>>

-----------------------------------------------------------------------------
(* The executor and the progress store.                                    *)

\* What the pool's watermark covers: every checkpoint from the stored progress
\* up to n has been processed by this process (the library).
Contiguous(n) == Load .. n - 1 \subseteq finished

\* The pool reports a checkpoint below which everything is processed, and
\* SqliteProgressStore::save upserts it.
SaveProgress(n) ==
    /\ phase = "running"
    /\ n \in Load + 1 .. LastCheckpoint + 1
    /\ Contiguous(n)
    /\ last_checkpoint_sync' = n
    /\ UNCHANGED <<phase, workerVars, poolVars, globalVars, tableVars,
                   boundVars, historyVars>>

\* save returns an error: run_with_config ends with it and so does the task
\* that ran the executor; the process stays up and nothing restarts it.
SaveFails ==
    /\ phase = "running"
    /\ Load \in finished
    /\ failures < MaxFailures
    /\ failures' = failures + 1
    /\ phase' = "stalled"
    /\ UNCHANGED <<workerVars, poolVars, globalVars, tableVars,
                   last_checkpoint_sync, crashes, historyVars>>

-----------------------------------------------------------------------------

ProcessStep(w) ==
    \/ ReceiveCheckpoint(w)
    \/ StoreTimestamp(w)
    \/ InsertObject(w)
    \/ RejectObject(w)
    \/ DeleteObjects(w)
    \/ FinishCheckpoint(w)
    \/ Retry(w)

Next ==
    \/ \E reset \in ResetChoices : Start(reset)
    \/ RevertObjects
    \/ RevertProgress
    \/ InitIndexer
    \/ Crash
    \/ \E w \in Worker : \/ TakeCheckpoint(w)
                         \/ ProcessStep(w)
                         \/ DatabaseFails(w)
    \/ \E n \in 1 .. LastCheckpoint + 1 : SaveProgress(n)
    \/ SaveFails

Spec == Init /\ [][Next]_vars

\* The runtime polls every task that is ready, process_checkpoint never waits
\* for another worker, and the pool retries an attempt that failed. Nothing is
\* promised of crashes, failures or the choice of --reset-db.
Fairness ==
    /\ WF_vars(\E reset \in ResetChoices : Start(reset))
    /\ WF_vars(RevertObjects \/ RevertProgress \/ InitIndexer)
    /\ \A w \in Worker : /\ WF_vars(TakeCheckpoint(w))
                         /\ WF_vars(ProcessStep(w))
    /\ WF_vars(\E n \in 1 .. LastCheckpoint + 1 : SaveProgress(n))

FairSpec == Spec /\ Fairness
=============================================================================
