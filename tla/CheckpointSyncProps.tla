------------------------- MODULE CheckpointSyncProps -------------------------
(***************************************************************************)
(* What the tables, the progress store and the timestamp promise while     *)
(* module CheckpointSync runs.                                             *)
(***************************************************************************)
EXTENDS CheckpointSync

-----------------------------------------------------------------------------
(* What the tables should hold.                                            *)

\* The databases are those an indexer works on: no reset is half done.
Serving == phase \in {"init", "running", "stalled"}

\* The ids whose rows a checkpoint writes or deletes.
Touched ==
    [n \in Checkpoints |->
        { Upserts[n][i].id : i \in DOMAIN Upserts[n] } \cup Removals[n]]
Touches(n, id) == id \in Touched[n]

\* The rows that a checkpoint processed alone leaves: the last one of each id,
\* unless the id is removed by the same checkpoint.
RowsLeft(n) ==
    { Upserts[n][i] : i \in
        { j \in DOMAIN Upserts[n] :
            /\ Upserts[n][j].id \notin Removals[n]
            /\ \A k \in DOMAIN Upserts[n] :
                   k > j => Upserts[n][k].id # Upserts[n][j].id } }

\* The rows that checkpoints 0 .. k - 1 leave when processed one by one.
RowsBelow ==
    [k \in 0 .. LastCheckpoint + 1 |->
        UNION { { r \in RowsLeft(n) :
                    \A m \in n + 1 .. k - 1 : ~Touches(m, r.id) }
                : n \in 0 .. k - 1 }]

RowsOf(id) == { o \in objects : o.id = id }

-----------------------------------------------------------------------------
(* Properties.                                                             *)

\* Every object has exactly one expiration row, the one decoded from the very
\* contents stored beside it, and no expiration row outlives its object:
\* whatever the interleaving of upserts, rolled back transactions and cascaded
\* deletes of several workers (worker.rs:77-94, schema of the two tables).
PairedTables ==
    /\ \A o, p \in objects : o.id = p.id => o = p
    /\ \A o \in objects : HasExpiration(o)
    /\ expiration_unlock_conditions = { Condition(o) : o \in objects }

\* An object created below the stored progress and removed by no checkpoint is
\* in the table: no crash, failed attempt, replay or reset leaves the progress
\* store ahead of the rows it vouches for (progress_store.rs:33-67).
NoLostOutput ==
    Serving =>
        \A n \in 0 .. Load - 1 : \A r \in RowsLeft(n) :
            (\A m \in Checkpoints : r.id \notin Removals[m]) =>
                RowsOf(r.id) # {}

\* Below the stored progress, an object that one checkpoint alone touches has
\* exactly the row that checkpoint leaves, and an object that is only ever
\* removed has none: replays and concurrency change nothing there.
UncontestedRows ==
    Serving =>
        \A n \in 0 .. Load - 1, id \in Id :
            (\A m \in Checkpoints : Touches(m, id) <=> m = n) =>
                RowsOf(id) = { r \in RowsLeft(n) : r.id = id }

\* With one worker the tables are the sequential ones: an object that no
\* checkpoint at or above the progress has had a chance to touch has exactly
\* the row its last checkpoint leaves, or no row if that one removed it. (A
\* crash replays checkpoints from the progress, so those are excluded.)
SequentialRows ==
    Serving =>
        \A id \in Id :
            (\A m \in Load .. reached - 1 : ~Touches(m, id)) =>
                RowsOf(id) = { r \in RowsBelow[Load] : r.id = id }

\* The outputs the REST API lists exist: an object removed below the progress,
\* and touched by no later checkpoint, has no row.
RemovedStaysRemoved ==
    Serving =>
        \A n \in 0 .. Load - 1 : \A id \in Removals[n] :
            (\A m \in Checkpoints : m > n => ~Touches(m, id)) => RowsOf(id) = {}

\* The "latest checkpoint unix timestamp processed" is that of some checkpoint
\* of the chain, and workers that store theirs in the wrong order set it back
\* by less than the window: no checkpoint this process has finished is a window
\* or more ahead of it (worker.rs:26, 157-159).
ClockTrailsWindow ==
    finished # {} =>
        \E m \in Checkpoints :
            /\ latest_timestamp = Timestamp[m]
            /\ \A n \in finished : n < m + MaxInProgress

\* An upsert compares no versions, and nothing orders the statements of two
\* workers: an older row may come after a newer one, or after a removal. But
\* never one that is a window older: a row is among those of some checkpoint
\* that trails each one applied to its object, by a crashed process or by this
\* one, by less than the window (worker.rs:77-94, 115-121, 161-167).
RowsTrailWindow ==
    \A o \in objects : \E m \in Checkpoints :
        /\ \E i \in DOMAIN Upserts[m] : o = Upserts[m][i]
        /\ \A n \in applied : Touches(n, o.id) => n < m + MaxInProgress

\* A checkpoint with a row that has no expiration, or that cannot be read,
\* holds the progress back for good: it is never passed.
Poisoned(n) ==
    \/ n \in Unreadable
    \/ \E i \in DOMAIN Upserts[n] : ~HasExpiration(Upserts[n][i])

PoisonNeverPassed == \A n \in 0 .. Load - 1 : ~Poisoned(n)

\* The gauge of the last checkpoint indexed names one that is indexed, and
\* trails the highest such one by less than the window: workers that finish out
\* of order set it back, but never further (worker.rs:130-134, 169-173).
IndexedGauge ==
    finished # {} =>
        /\ metrics.last_checkpoint_indexed \in finished
        /\ \A n \in finished :
             n < metrics.last_checkpoint_indexed + MaxInProgress

\* The rows of the chain, by the position where process_checkpoint finds them.
RowsOfType ==
    [type \in ObjectType |->
        UNION { { <<n, i>> : i \in { j \in DOMAIN Upserts[n] :
                                     Upserts[n][j].object_type = type } }
                : n \in Checkpoints }]

\* Those that this process has committed, in checkpoints that are finished and
\* in attempts under way.
Committed(type) ==
    { p \in RowsOfType[type] :
        p[1] \in finished \/ \E w \in Worker : job[w] = p[1] /\ p[2] < row[w] }

\* How far a counter runs ahead of them.
Repeated(type) ==
    LET counted == metrics.indexed_outputs_count[type] + CounterModulus
        once    == Cardinality(Committed(type)) % CounterModulus
    IN  (counted - once) % CounterModulus

NothingPoisoned == \A n \in Checkpoints : ~Poisoned(n)

\* The counters of indexed outputs count every row at least once, and a row of
\* a chain that can be processed again only for an attempt that failed on the
\* database in between: each failure repeats at most the rows of one checkpoint
\* (worker.rs:75-110).
CountersCountRows ==
    NothingPoisoned =>
        \E n \in Checkpoints : \A type \in ObjectType :
            Repeated(type) <= failures * Len(Upserts[n])

\* Where a chain must take the progress in the end: to the first poisoned
\* checkpoint, or past the last one. No retry, crash, restart or reset keeps it
\* from there, unless the executor has ended on a failed save; and what the
\* reader's window holds beyond a poisoned checkpoint is processed all the same
\* (worker.rs:161-167, handler.rs:62-87, progress_store.rs:33-45).
EndOfProgress(n) ==
    /\ n = LastCheckpoint + 1 \/ Poisoned(n)
    /\ \A m \in 0 .. n - 1 : ~Poisoned(m)

InReach(n) == { m \in Checkpoints : n <= m /\ m < n + MaxInProgress }

SettlesAtPoison ==
    \A n \in 0 .. LastCheckpoint + 1 : EndOfProgress(n) =>
        \/ <>[](phase = "stalled")
        \/ <>[](/\ Load = n
                /\ \A m \in InReach(n) : Poisoned(m) \/ m \in applied)

\* Without resets, workers, retries, crashes and replays together implement a
\* log that is applied at least once, inside the window, and recorded in order.
Log == INSTANCE SyncLog WITH Window <- MaxInProgress, recorded <- Load

ImplementsLog == Log!Spec
-----------------------------------------------------------------------------
(* The inductive invariant behind the theorems of CheckpointSyncProofs.    *)

\* Nobody works on a checkpoint while the process is not up.
DownIsIdle == ~Up => finished = {} /\ \A w \in Worker : pc[w] = "idle"

\* A worker at work holds a checkpoint of the window that is neither saved nor
\* finished, and that no other worker holds; the next one to hand out is new.
JobsAreOpen ==
    /\ finished \subseteq 0 .. cursor - 1
    /\ Up => Load <= cursor
    /\ \A w \in Worker : pc[w] # "idle" =>
         /\ job[w] \in (Load .. cursor - 1) \ finished
         /\ job[w] < Load + MaxInProgress
         /\ \A v \in Worker : pc[v] # "idle" /\ job[v] = job[w] => v = w

\* A worker that inserts is at a row of its checkpoint; past that, at the end.
RowsInOrder ==
    \A w \in Worker :
        /\ pc[w] = "insert" => row[w] \in DOMAIN Upserts[job[w]]
        /\ pc[w] \in {"delete", "finish"} => row[w] = Len(Upserts[job[w]]) + 1

\* The rows a worker has gone past, all accepted.
PastRows(w) ==
    IF pc[w] \in {"insert", "delete", "finish"}
    THEN { Upserts[job[w]][i] : i \in 1 .. row[w] - 1 }
    ELSE {}

RowsAccepted ==
    \A w \in Worker :
        /\ pc[w] \in {"stamp", "insert", "delete", "finish"} =>
             job[w] \notin Unreadable
        /\ \A r \in PastRows(w) : HasExpiration(r)

FinishedAreSound == \A n \in finished : n \in applied /\ ~Poisoned(n)

\* The watermark only moves forward under a process.
FinishedInReach == \A n \in finished : n < Load + MaxInProgress

\* Ids that no checkpoint removes are present once they have been inserted.
NeverRemoved(id) == \A m \in Checkpoints : id \notin Removals[m]

RowsPresent ==
    /\ \A w \in Worker : \A r \in PastRows(w) :
         NeverRemoved(r.id) => RowsOf(r.id) # {}
    /\ \A n \in applied : \A i \in DOMAIN Upserts[n] :
         NeverRemoved(Upserts[n][i].id) => RowsOf(Upserts[n][i].id) # {}

\* What some theorems ask of the chain: an object keeps its type for life, and
\* no checkpoint is older than the one before; and of the configuration.
TypesAreStable ==
    \A m, n \in Checkpoints : \A i \in DOMAIN Upserts[m], j \in DOMAIN Upserts[n] :
        Upserts[m][i].id = Upserts[n][j].id
        => Upserts[m][i].object_type = Upserts[n][j].object_type

MonotoneTimestamps ==
    \A m, n \in Checkpoints : m <= n => Timestamp[m] <= Timestamp[n]

OneWorker == \A v, w \in Worker : v = w

\* What is saved has been applied to the present tables, from the last reset
\* on if every start resets, always if none does.
NoReset == TRUE \notin ResetChoices
AlwaysReset == FALSE \notin ResetChoices
Vouched     == NoReset \/ (AlwaysReset /\ Serving)

SavedAreApplied ==
    /\ NoReset => phase \notin {"revert_objects", "revert_progress"}
    /\ Vouched => 0 .. Load - 1 \subseteq applied

CoreInv ==
    /\ TypeOK
    /\ DownIsIdle
    /\ JobsAreOpen
    /\ RowsInOrder
    /\ RowsAccepted
    /\ FinishedAreSound
    /\ RowsPresent
    /\ PairedTables
    /\ PoisonNeverPassed
    /\ FinishedInReach
    /\ IndexedGauge

SyncInv == CoreInv /\ SavedAreApplied

\* A checkpoint that is applied is within reach of the progress, also of that a
\* crash goes back to; a reset forgets both.
AppliedInReach ==
    /\ phase = "revert_progress" => applied = {}
    /\ \A n \in applied : n < Load + MaxInProgress

\* An attempt that has stored its timestamp.
Stamped(w) == pc[w] \in {"insert", "delete", "finish"}

\* The timestamp is of a checkpoint that was open when it was stored, and so
\* were those that have stored theirs before it and are not finished.
StampInReach ==
    \/ finished = {} /\ \A w \in Worker : ~Stamped(w)
    \/ \E m \in Checkpoints :
         /\ latest_timestamp = Timestamp[m]
         /\ \A n \in finished : n < m + MaxInProgress
         /\ \A w \in Worker : Stamped(w) => job[w] < m + MaxInProgress

\* An attempt that has written or removed the row of an object.
HasTouched(w, id) ==
    \/ \E r \in PastRows(w) : r.id = id
    \/ pc[w] = "finish" /\ id \in Removals[job[w]]

\* So is a row of a checkpoint that was open when it was written.
RowsInReach ==
    \A o \in objects : \E m \in Checkpoints :
        /\ \E i \in DOMAIN Upserts[m] : o = Upserts[m][i]
        /\ \A n \in applied : Touches(n, o.id) => n < m + MaxInProgress
        /\ \A w \in Worker : HasTouched(w, o.id) => job[w] < m + MaxInProgress

TrailInv == CoreInv /\ AppliedInReach /\ StampInReach /\ RowsInReach
=============================================================================
