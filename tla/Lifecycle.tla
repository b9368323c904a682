----------------------------- MODULE Lifecycle ------------------------------
(***************************************************************************)
(* The tasks of the process: run_indexer starts them, waits for the REST   *)
(* server, then for the task that answers SIGINT and SIGTERM. That task    *)
(* stops the REST server with one token and the indexer with another, and  *)
(* joins what the indexer started: the metrics server and the executor.    *)
(***************************************************************************)
EXTENDS Naturals

CONSTANTS
    MaxRequests,   \* bound: REST requests in flight
    None

ASSUME LifecycleAssumption ==
    /\ MaxRequests \in Nat
    /\ None \notin {"ok", "error", "killed"}

VARIABLES
    main,            \* what run_indexer does next
    exit,            \* how the process ended, or None
    task,            \* the state of each task
    shutdown_token,  \* cancelled: setup_shutdown_signal's, for the REST server
    cancel_token,    \* cancelled: the Indexer's, for the tasks of its JoinSet
    handlers,        \* signals that no longer have their default effect
    signalled,       \* such a signal has come
    joined,          \* tasks of the JoinSet whose result has been logged
    requests         \* REST requests in flight

tokenVars  == <<shutdown_token, cancel_token>>
signalVars == <<handlers, signalled>>
vars == <<main, exit, task, tokenVars, signalVars, joined, requests>>

Indexer == {"metrics", "executor"}
Task    == Indexer \cup {"shutdown", "rest"}
Ended   == {"ok", "error", "panicked"}

\* A task is joined only once it has ended, and requests are in flight only
\* while the REST server runs or when it was cut short.
TypeOK ==
    /\ main \in {"prepare", "init", "register", "await_rest", "await_shutdown",
                 "returned"}
    /\ exit \in {"ok", "error", "killed", None}
    /\ task \in [Task -> {"none", "spawned", "listening", "running", "cancelling",
                          "joining", "dropped"} \cup Ended]
    /\ shutdown_token \in BOOLEAN /\ cancel_token \in BOOLEAN
    /\ handlers \in SUBSET {"SIGINT", "SIGTERM"} /\ signalled \in BOOLEAN
    /\ joined \in SUBSET Indexer
    /\ \A t \in joined : task[t] \in Ended
    /\ requests \in 0 .. MaxRequests
    /\ requests > 0 => task["rest"] \in {"running", "error", "dropped"}

Init ==
    /\ main = "prepare"
    /\ exit = None
    /\ task = [t \in Task |-> "none"]
    /\ shutdown_token = FALSE
    /\ cancel_token = FALSE
    /\ handlers = {}
    /\ signalled = FALSE
    /\ joined = {}
    /\ requests = 0

-----------------------------------------------------------------------------
(* run_indexer.                                                            *)

Alive == exit = None

\* With the process, or with main's return, every task that is left is dropped.
EndProcess(how) ==
    /\ main' = "returned"
    /\ exit' = how
    /\ task' = [t \in Task |-> IF task[t] \in Ended \cup {"none"}
                               THEN task[t] ELSE "dropped"]
    /\ UNCHANGED <<tokenVars, signalVars, joined, requests>>

\* The pools, --reset-db and the migrations; each `?` ends the process.
Prepare ==
    /\ main = "prepare"
    /\ main' = "init"
    /\ UNCHANGED <<exit, task, tokenVars, signalVars, joined, requests>>

\* Indexer::init: the metrics server is spawned before the executor loads its
\* progress, which may fail; then the JoinSet is dropped with its task.
SpawnMetrics ==
    /\ main = "init"
    /\ main' = "register"
    /\ task' = [task EXCEPT !["metrics"] = "spawned"]
    /\ UNCHANGED <<exit, tokenVars, signalVars, joined, requests>>

StartFails ==
    /\ main \in {"prepare", "register"}
    /\ EndProcess("error")

\* The executor's task, the task of the signals and the REST server follow
\* without an await in between.
SpawnTasks ==
    /\ main = "register"
    /\ main' = "await_rest"
    /\ task' = [t \in Task |-> IF task[t] = "none" THEN "spawned" ELSE task[t]]
    /\ UNCHANGED <<exit, tokenVars, signalVars, joined, requests>>

\* The REST server returned, `.ok()` makes it so either way: on to the task of
\* the signals.
BrokenRestReturned ==
    /\ main = "await_rest"
    /\ task["rest"] \in {"ok", "error"}
    /\ EndProcess("ok")
RestReturned ==
    /\ main = "await_rest"
    /\ task["rest"] \in {"ok", "error"}
    /\ main' = "await_shutdown"
    /\ UNCHANGED <<exit, task, tokenVars, signalVars, joined, requests>>

\* Its task panicked: the JoinError ends the process.
BrokenRestPanicked ==
    /\ main = "await_rest"
    /\ task["rest"] = "panicked"
    /\ main' = "await_shutdown"
    /\ UNCHANGED <<exit, task, tokenVars, signalVars, joined, requests>>
RestPanicked ==
    /\ main = "await_rest"
    /\ task["rest"] = "panicked"
    /\ EndProcess("error")

\* The task of the signals is over; if it panicked, the JoinError is logged.
ShutdownReturned ==
    /\ main = "await_shutdown"
    /\ task["shutdown"] \in Ended
    /\ EndProcess("ok")

Main == \/ Prepare \/ SpawnMetrics \/ SpawnTasks
        \/ RestReturned \/ RestPanicked \/ ShutdownReturned

-----------------------------------------------------------------------------
(* The servers and the executor.                                           *)

Become(t, from, to) ==
    /\ Alive
    /\ task[t] = from
    /\ task' = [task EXCEPT ![t] = to]
    /\ UNCHANGED <<main, exit, tokenVars, signalVars, joined, requests>>

\* Binding the socket: an error for the metrics server, a panic for REST.
MetricsBinds == Become("metrics", "spawned", "running")
MetricsFails == Become("metrics", "spawned", "error")
RestBinds    == Become("rest", "spawned", "running")
RestFails    == Become("rest", "spawned", "panicked")

ExecutorRuns  == Become("executor", "spawned", "running")
ExecutorFails == Become("executor", "running", "error")

\* A cancelled token: the executor drains, the servers stop accepting and end
\* when nothing is in flight.
MetricsStops  == cancel_token /\ Become("metrics", "running", "ok")
ExecutorStops == cancel_token /\ Become("executor", "running", "ok")

RestStops == shutdown_token /\ requests = 0 /\ Become("rest", "running", "ok")

\* The Err of axum::serve, which axum documents never to return, would be logged
\* and dropped, with no token cancelled and requests left to their connections.
RestErrs == Become("rest", "running", "error")

Accept ==
    /\ Alive
    /\ task["rest"] = "running"
    /\ ~shutdown_token
    /\ requests < MaxRequests
    /\ requests' = requests + 1
    /\ UNCHANGED <<main, exit, task, tokenVars, signalVars, joined>>

Respond ==
    /\ Alive
    /\ requests > 0
    /\ requests' = requests - 1
    /\ UNCHANGED <<main, exit, task, tokenVars, signalVars, joined>>

-----------------------------------------------------------------------------
(* Signals and graceful_shutdown.                                          *)

\* The first poll of the task installs one handler, then the other.
Listen(s, from, to) ==
    /\ Alive
    /\ task["shutdown"] = from
    /\ task' = [task EXCEPT !["shutdown"] = to]
    /\ handlers' = handlers \cup {s}
    /\ UNCHANGED <<main, exit, tokenVars, signalled, joined, requests>>

ListenForSigint  == Listen("SIGINT", "spawned", "listening")
ListenForSigterm == Listen("SIGTERM", "listening", "running")

\* Either `expect` panics: the task takes the Indexer with it, whose JoinSet
\* aborts its tasks. A handler that is installed stays so, and is nobody's.
ListenFails ==
    /\ Alive
    /\ task["shutdown"] \in {"spawned", "listening"}
    /\ task' = [t \in Task |->
         IF t = "shutdown" THEN "panicked"
         ELSE IF t \in Indexer /\ task[t] \notin Ended THEN "dropped"
         ELSE task[t]]
    /\ UNCHANGED <<main, exit, tokenVars, signalVars, joined, requests>>

Signal ==
    /\ Alive
    /\ handlers # {}
    /\ signalled' = TRUE
    /\ UNCHANGED <<main, exit, task, tokenVars, handlers, joined, requests>>

\* SIGKILL, or a signal without a handler.
Kill ==
    /\ Alive
    /\ EndProcess("killed")

StopRest ==
    /\ Alive
    /\ task["shutdown"] = "running"
    /\ signalled
    /\ shutdown_token' = TRUE
    /\ task' = [task EXCEPT !["shutdown"] = "cancelling"]
    /\ UNCHANGED <<main, exit, cancel_token, signalVars, joined, requests>>

BrokenStopIndexer == Become("shutdown", "cancelling", "joining")
StopIndexer ==
    /\ Alive
    /\ task["shutdown"] = "cancelling"
    /\ cancel_token' = TRUE
    /\ task' = [task EXCEPT !["shutdown"] = "joining"]
    /\ UNCHANGED <<main, exit, shutdown_token, signalVars, joined, requests>>

\* join_next: whatever the task ended with is logged.
BrokenJoinable(t) == TRUE
Joinable(t) == task[t] \in Ended

JoinNext(t) ==
    /\ Alive
    /\ task["shutdown"] = "joining"
    /\ t \in Indexer \ joined
    /\ Joinable(t)
    /\ joined' = joined \cup {t}
    /\ UNCHANGED <<main, exit, task, tokenVars, signalVars, requests>>

AllJoined == joined = Indexer /\ Become("shutdown", "joining", "ok")

-----------------------------------------------------------------------------

Next ==
    \/ Main \/ StartFails
    \/ MetricsBinds \/ MetricsFails \/ MetricsStops
    \/ ExecutorRuns \/ ExecutorFails \/ ExecutorStops
    \/ RestBinds \/ RestFails \/ RestStops \/ RestErrs
    \/ Accept \/ Respond
    \/ ListenForSigint \/ ListenForSigterm \/ ListenFails
    \/ Signal \/ Kill
    \/ StopRest \/ StopIndexer \/ AllJoined
    \/ \E t \in Indexer : JoinNext(t)

Spec == Init /\ [][Next]_vars

\* The runtime polls every task that can move, sockets bind or fail to, the
\* executor drains when told to, and handlers have no await to hang on. Nothing
\* is promised of signals, requests or failures.
Fairness ==
    /\ WF_vars(Main)
    /\ WF_vars(MetricsBinds \/ MetricsFails) /\ WF_vars(MetricsStops)
    /\ WF_vars(ExecutorRuns) /\ WF_vars(ExecutorStops)
    /\ WF_vars(RestBinds \/ RestFails) /\ WF_vars(RestStops)
    /\ WF_vars(Respond)
    /\ WF_vars(ListenForSigint \/ ListenForSigterm \/ ListenFails)
    /\ WF_vars(StopRest \/ StopIndexer)
    /\ WF_vars(AllJoined \/ \E t \in Indexer : JoinNext(t))

FairSpec == Spec /\ Fairness

-----------------------------------------------------------------------------
(* Properties.                                                             *)

\* run_indexer returns Ok only after a signal, with the results of both tasks
\* of the indexer logged and nothing dropped: no checkpoint half way and, of a
\* REST server that stopped when told to, no accepted request unanswered. One
\* way out is without all that: neither the REST server nor the task of the
\* signals got to its end (main.rs:113-123, 173-186, handler.rs:98-111).
CleanExit ==
    exit = "ok" =>
        \/ /\ signalled
           /\ joined = Indexer
           /\ \A t \in Task : task[t] \in Ended
           /\ task["rest"] = "ok" => requests = 0
        \/ task["rest"] = "error" /\ task["shutdown"] = "panicked"

\* A signal that no longer has its default effect ends the process, whatever
\* state its tasks are in, failed ones included. Only where the task of the
\* signals panicked between its two handlers is SIGINT caught by nobody: then
\* the process goes on (main.rs:173-186).
SignalEndsProcess == signalled ~> ~Alive \/ task["shutdown"] = "panicked"

\* A REST server that cannot start does not leave the process running without
\* it (main.rs:114-116).
NoSilentRestFailure == task["rest"] = "panicked" ~> ~Alive
-----------------------------------------------------------------------------
(* The inductive invariant behind the theorems of LifecycleProofs.         *)

\* The process is over exactly when run_indexer has returned.
ReturnsOnce == Alive <=> main # "returned"

\* Nothing runs before run_indexer has spawned it.
NotStarted ==
    main \in {"prepare", "init", "register"} =>
        \A t \in Task : task[t] # "none" => t = "metrics" /\ main = "register"

\* run_indexer gets past the REST server only when that has ended, and it stops
\* by itself only for the token.
RestFirst ==
    /\ main = "await_shutdown" => task["rest"] \in {"ok", "error"}
    /\ task["rest"] = "ok" => shutdown_token

\* The task of the signals acts on a signal and ends with everything joined. It
\* panics before that or not at all.
ShutdownInOrder ==
    /\ task["shutdown"] \in {"cancelling", "joining", "ok"} => signalled
    /\ task["shutdown"] = "ok" => joined = Indexer
    /\ task["shutdown"] # "error"
    /\ shutdown_token =>
         task["shutdown"] \in {"cancelling", "joining", "ok", "dropped"}

LifecycleInv ==
    /\ TypeOK
    /\ ReturnsOnce
    /\ NotStarted
    /\ RestFirst
    /\ ShutdownInOrder
    /\ CleanExit
=============================================================================
