--------------------------- MODULE ConnectionPool ---------------------------
(***************************************************************************)
(* What tasks wait for. A task of the runtime (a worker with a checkpoint, *)
(* a handler with a request) needs a thread to run on, a connection of the *)
(* pool, and for each statement a lock of SQLite. None of the waiting is   *)
(* asynchronous: Pool::get and the busy handler of SQLite block the thread *)
(* until they have what they want or their timeout is over.                *)
(*                                                                         *)
(* What the statements do to the tables is the subject of CheckpointSync   *)
(* and RestApi, where a timeout is DatabaseFails, Refuse or                *)
(* StatementFails.                                                         *)
(*                                                                         *)
(* A definition whose name begins with Broken is no part of the            *)
(* specification.                                                          *)
(***************************************************************************)
EXTENDS Naturals, Sequences, FiniteSets

CONSTANTS
    Worker,       \* tasks that run process_checkpoint
    Handler,      \* tasks that serve a request
    MaxThreads,   \* bound: worker threads of the runtime
    MaxPoolSize,  \* bound: connections, --pool-size
    MaxUpserts,   \* bound: created objects of a checkpoint
    None

Task      == Worker \cup Handler
Statement == {"read", "upsert", "delete"}

ASSUME PoolAssumption ==
    /\ IsFiniteSet(Task)
    /\ None \notin Task
    /\ MaxThreads \in Nat \ {0}
    /\ MaxPoolSize \in Nat \ {0}
    /\ MaxUpserts \in Nat

VARIABLES
    config,    \* the command line and the machine; never changes
    at,        \* where each task is
    todo,      \* the statements it still has to run
    running,   \* tasks that have a thread
    pooled,    \* tasks that have a connection
    readers,   \* tasks that hold SQLite's SHARED lock
    writer,    \* the task that holds its RESERVED lock, or None
    pending    \* a commit keeps new readers out

lockVars == <<readers, writer, pending>>
vars     == <<config, at, todo, running, pooled, lockVars>>

\* r2d2 refuses an empty pool, the runtime a machine without threads.
Configs == [threads : 1 .. MaxThreads, pool_size : 1 .. MaxPoolSize,
            enable_wal : BOOLEAN]

Places == {"parked", "ready", "get", "begin", "run", "commit", "next", "done"}

\* Every variable holds a value of its type; in particular threads and
\* connections are never overdrawn.
TypeOK ==
    /\ config \in Configs
    /\ at \in [Task -> Places]
    /\ todo \in [Task -> Seq(Statement)]
    /\ running \in SUBSET Task /\ Cardinality(running) <= config.threads
    /\ pooled \in SUBSET Task  /\ Cardinality(pooled) <= config.pool_size
    /\ readers \in SUBSET Task
    /\ writer \in Task \cup {None}
    /\ pending \in BOOLEAN

Init ==
    /\ config \in Configs
    /\ at = [t \in Task |-> "parked"]
    /\ todo = [t \in Task |-> <<>>]
    /\ running = {}
    /\ pooled = {}
    /\ readers = {}
    /\ writer = None
    /\ pending = FALSE

-----------------------------------------------------------------------------
(* What a task has to do.                                                  *)

\* One transaction for each created object, then one delete for all removed
\* ones; either may have nothing to do.
Insertions == { [i \in 1 .. n |-> "upsert"] : n \in 0 .. MaxUpserts }

CheckpointPrograms ==
    Insertions \cup { inserts \o <<"delete">> : inserts \in Insertions }

\* A list is one query and /health three. A path that does not parse, an
\* unknown route and the specification's file need no database.
RequestPrograms == {<<>>, <<"read">>, <<"read", "read", "read">>}

Programs(t) == IF t \in Worker THEN CheckpointPrograms ELSE RequestPrograms

-----------------------------------------------------------------------------
(* What a task waits for.                                                  *)

Writes(t) == Head(todo[t]) # "read"

\* Connections are opened up to max_size; past that Pool::get waits for one.
BrokenPoolExhausted == Cardinality(pooled) > config.pool_size
PoolExhausted == Cardinality(pooled) >= config.pool_size

\* In the rollback journal a commit waits for the readers and keeps new ones
\* out meanwhile; with a write-ahead log it does neither.
Blocked(t) ==
    \/ at[t] = "ready" /\ Cardinality(running) >= config.threads
    \/ at[t] = "get" /\ PoolExhausted
    \/ at[t] = "begin" /\ Writes(t) /\ writer # None
    \/ at[t] = "begin" /\ ~Writes(t) /\ pending /\ ~config.enable_wal
    \/ at[t] = "commit" /\ readers # {} /\ ~config.enable_wal

Goto(t, place) == at' = [at EXCEPT ![t] = place]

\* The end of the scope of `conn`: the connection goes back to the pool.
BrokenDropConnection(t) == UNCHANGED pooled
DropConnection(t) == pooled' = pooled \ {t}

-----------------------------------------------------------------------------
(* One action for each point where a task may have to wait.                *)

\* A checkpoint or a request arrives, or the pool of workers tries again.
Wake(t, program) ==
    /\ at[t] = "parked"
    /\ Goto(t, "ready")
    /\ todo' = [todo EXCEPT ![t] = program]
    /\ UNCHANGED <<config, running, pooled, lockVars>>

\* The runtime polls the task on a free thread.
Poll(t) ==
    /\ at[t] = "ready"
    /\ ~Blocked(t)
    /\ running' = running \cup {t}
    /\ Goto(t, IF todo[t] = <<>> THEN "done" ELSE "get")
    /\ UNCHANGED <<config, todo, pooled, lockVars>>

GetConnection(t) ==
    /\ at[t] = "get"
    /\ ~Blocked(t)
    /\ pooled' = pooled \cup {t}
    /\ Goto(t, "begin")
    /\ UNCHANGED <<config, todo, running, lockVars>>

\* A resolved list without a timestamp leaves with its connection unused.
NotSyncedYet(t) ==
    /\ at[t] = "begin"
    /\ t \in Handler
    /\ todo[t] = <<"read">>
    /\ DropConnection(t)
    /\ Goto(t, "done")
    /\ UNCHANGED <<config, todo, running, lockVars>>

\* The statement takes its lock. A transaction begins with a write, so it asks
\* for RESERVED at once and never holds SHARED while it waits.
TakeLock(t) ==
    /\ at[t] = "begin"
    /\ ~Blocked(t)
    /\ IF Writes(t) THEN writer' = t /\ UNCHANGED readers
                    ELSE readers' = readers \cup {t} /\ UNCHANGED writer
    /\ Goto(t, "run")
    /\ UNCHANGED <<config, todo, running, pooled, pending>>

EndRead(t) ==
    /\ at[t] = "run"
    /\ ~Writes(t)
    /\ readers' = readers \ {t}
    /\ todo' = [todo EXCEPT ![t] = Tail(@)]
    /\ Goto(t, "next")
    /\ UNCHANGED <<config, running, pooled, writer, pending>>

BeginCommit(t) ==
    /\ at[t] = "run"
    /\ Writes(t)
    /\ pending' = TRUE
    /\ Goto(t, "commit")
    /\ UNCHANGED <<config, todo, running, pooled, readers, writer>>

EndCommit(t) ==
    /\ at[t] = "commit"
    /\ ~Blocked(t)
    /\ writer' = None
    /\ pending' = FALSE
    /\ todo' = [todo EXCEPT ![t] = Tail(@)]
    /\ Goto(t, "next")
    /\ UNCHANGED <<config, running, pooled, readers>>

\* Between two statements: on with the same connection, but delete_objects
\* asks for one of its own after the one of the insertions is dropped.
BrokenContinue(t) ==
    /\ at[t] = "next"
    /\ todo[t] # <<>>
    /\ Goto(t, IF Head(todo[t]) = "delete" THEN "get" ELSE "begin")
    /\ UNCHANGED <<config, todo, running, pooled, lockVars>>
Continue(t) ==
    /\ at[t] = "next"
    /\ todo[t] # <<>>
    /\ IF Head(todo[t]) = "delete"
       THEN DropConnection(t) /\ Goto(t, "get")
       ELSE UNCHANGED pooled /\ Goto(t, "begin")
    /\ UNCHANGED <<config, todo, running, lockVars>>

Finish(t) ==
    /\ at[t] = "next"
    /\ todo[t] = <<>>
    /\ DropConnection(t)
    /\ Goto(t, "done")
    /\ UNCHANGED <<config, todo, running, lockVars>>

\* What a `?` leaves behind on its way out: no lock, no connection.
Abandon(t) ==
    /\ readers' = readers \ {t}
    /\ writer' = IF writer = t THEN None ELSE writer
    /\ pending' = (pending /\ writer # t)
    /\ DropConnection(t)
    /\ todo' = [todo EXCEPT ![t] = <<>>]
    /\ Goto(t, "done")
    /\ UNCHANGED <<config, running>>

\* connection_timeout of the pool, or busy_timeout of the connection: the wait
\* is over and the call returns an error.
BrokenTimesOut(t) == FALSE
TimesOut(t) ==
    /\ at[t] \in {"get", "begin", "commit"}
    /\ Blocked(t)
    /\ Abandon(t)

\* A statement fails by itself, or the conversion inside the transaction does.
StatementFails(t) ==
    /\ at[t] = "run"
    /\ Abandon(t)

\* The poll is over. Nothing in it awaits, so it ran on one thread throughout.
Return(t) ==
    /\ at[t] = "done"
    /\ running' = running \ {t}
    /\ Goto(t, "parked")
    /\ UNCHANGED <<config, todo, pooled, lockVars>>

-----------------------------------------------------------------------------

Advance(t) ==
    \/ GetConnection(t) \/ NotSyncedYet(t) \/ TakeLock(t) \/ EndRead(t)
    \/ BeginCommit(t) \/ EndCommit(t) \/ Continue(t) \/ Finish(t)
    \/ TimesOut(t) \/ Return(t)

Next ==
    \E t \in Task :
        \/ \E program \in Programs(t) : Wake(t, program)
        \/ Poll(t)
        \/ Advance(t)
        \/ StatementFails(t)

Spec == Init /\ [][Next]_vars

\* A thread runs what it has been given, a wait ends one way or the other, and
\* the queue of the runtime is fair. Nothing wakes a task by itself.
Fairness == \A t \in Task : WF_vars(Advance(t)) /\ SF_vars(Poll(t))

FairSpec == Spec /\ Fairness

-----------------------------------------------------------------------------
(* Properties.                                                             *)

\* Everyone waits for someone only up to a point: while a task is under way
\* there is one that needs to wait for nothing, so no timeout is ever the only
\* way out. Threads, connections and locks are taken in this order and a task
\* that waits for one kind holds none of it nor of a later kind
\* (worker.rs:74-115, db.rs:75-82).
NobodyStuck ==
    (\E t \in Task : at[t] # "parked") =>
        \E t \in Task : at[t] # "parked" /\ ~Blocked(t)

\* With at least as many connections as threads nobody waits for a connection,
\* however many workers and requests there are: the default of 20 makes 503
\* for want of a connection a matter of machines with more cores
\* (db.rs:25-29, handler.rs:65, v1/mod.rs:32-35).
NeverShort ==
    config.threads <= config.pool_size =>
        \A t \in Task : at[t] = "get" => ~Blocked(t)

\* Whatever it waits for, a request is answered and an attempt at a checkpoint
\* ends: the two timeouts see to it that nobody is overtaken for ever
\* (db.rs:28, 76-79, 133).
EveryoneReturns == \A t \in Task : at[t] = "ready" ~> at[t] = "parked"

-----------------------------------------------------------------------------
(* The inductive invariant behind the theorems of ConnectionPoolProofs.    *)

\* Who has what follows from where everyone is.
ThreadsAccounted == running = { t \in Task : at[t] \notin {"parked", "ready"} }

ConnectionsAccounted ==
    pooled = { t \in Task : at[t] \in {"begin", "run", "commit", "next"} }

LocksAccounted ==
    /\ readers = { t \in Task : at[t] = "run" /\ ~Writes(t) }
    /\ \A t \in Task : writer = t <=> \/ at[t] = "run" /\ Writes(t)
                                      \/ at[t] = "commit"
    /\ pending => \E t \in Task : at[t] = "commit"

ProgramsGoOn ==
    \A t \in Task :
        at[t] \in {"get", "begin", "run", "commit"} => todo[t] # <<>>

PoolInv ==
    /\ TypeOK
    /\ ThreadsAccounted
    /\ ConnectionsAccounted
    /\ LocksAccounted
    /\ ProgramsGoOn
=============================================================================
