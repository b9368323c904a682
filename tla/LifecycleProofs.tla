-------------------------- MODULE LifecycleProofs --------------------------
(***************************************************************************)
(* LifecycleInv is inductive, so a process that returns Ok has ended       *)
(* cleanly, or has lost both the REST server and the task of the signals,  *)
(* for any number of requests in flight.                                   *)
(***************************************************************************)
EXTENDS Lifecycle, TLAPS

States == {"none", "spawned", "listening", "running", "cancelling",
           "joining", "dropped"} \cup Ended

\* The invariant holds when run_indexer is called.
LEMMA InitHolds == Init => LifecycleInv
<1> SUFFICES ASSUME Init PROVE LifecycleInv
  OBVIOUS
<1>1. TypeOK
  <2>1. task \in [Task -> States]
    BY DEF Init, States
  <2>2. joined \in SUBSET Indexer /\ \A t \in joined : task[t] \in Ended
    BY DEF Init
  <2>3. requests \in 0 .. MaxRequests /\ ~(requests > 0)
    BY LifecycleAssumption DEF Init
  <2> QED
    BY <2>1, <2>2, <2>3 DEF Init, TypeOK, States
<1>2. ReturnsOnce /\ NotStarted /\ CleanExit
  BY LifecycleAssumption DEF Init, ReturnsOnce, NotStarted, CleanExit, Alive
<1>3. RestFirst /\ ShutdownInOrder
  BY DEF Init, RestFirst, ShutdownInOrder, Task, Indexer
<1> QED
  BY <1>1, <1>2, <1>3 DEF LifecycleInv

\* Ending the process keeps it, cleanly if it is by Ok.
LEMMA EndHolds ==
  ASSUME LifecycleInv, NEW how \in {"ok", "error", "killed"}, Alive,
         EndProcess(how),
         how = "ok" => main = "await_shutdown" /\ task["shutdown"] \in Ended
  PROVE  LifecycleInv'
<1> USE DEF EndProcess, LifecycleInv, tokenVars, signalVars
<1>1. TypeOK'
  BY DEF TypeOK, Ended, Task, Indexer
<1>2. ReturnsOnce' /\ NotStarted'
  BY LifecycleAssumption DEF ReturnsOnce, NotStarted, Alive
<1>3. RestFirst' /\ ShutdownInOrder'
  BY DEF RestFirst, ShutdownInOrder, TypeOK, Ended, Task, Indexer
<1>4. CleanExit'
  <2> SUFFICES ASSUME how = "ok" PROVE CleanExit'
    BY LifecycleAssumption DEF CleanExit
  <2>1. /\ task["rest"] \in {"ok", "error"} /\ task["shutdown"] \in {"ok", "panicked"}
        /\ task'["rest"] = task["rest"] /\ task'["shutdown"] = task["shutdown"]
    BY DEF RestFirst, ShutdownInOrder, Ended, Task
  <2>2. CASE task["shutdown"] = "panicked"
    BY <2>1, <2>2 DEF CleanExit, RestFirst, ShutdownInOrder
  <2>3. CASE task["shutdown"] = "ok"
    <3>1. signalled' /\ joined' = Indexer
      BY <2>3 DEF ShutdownInOrder
    <3>2. \A t \in Task : task'[t] \in Ended
      BY <2>1, <3>1 DEF TypeOK, Task, Indexer, Ended
    <3>3. task["rest"] = "ok" => requests' = 0
      BY LifecycleAssumption DEF TypeOK
    <3> QED
      BY <2>1, <3>1, <3>2, <3>3 DEF CleanExit
  <2> QED
    BY <2>1, <2>2, <2>3
<1> QED
  BY <1>1, <1>2, <1>3, <1>4

\* So does a task that moves on.
LEMMA BecomeHolds ==
  ASSUME LifecycleInv, NEW t \in Task,
         NEW from \in States \ (Ended \cup {"none"}),
         NEW to \in {"running", "cancelling", "joining"} \cup Ended,
         Become(t, from, to),
         t = "rest" =>
            \/ from = "spawned" /\ to \in {"running", "panicked"}
            \/ from = "running" /\ to = "error"
            \/ to = "ok" /\ requests = 0 /\ shutdown_token,
         t = "shutdown" => from = "joining" /\ to = "ok" /\ joined = Indexer
  PROVE  LifecycleInv'
<1> USE DEF Become, LifecycleInv, tokenVars, signalVars
<1>1. TypeOK'
  <2>1. task' \in [Task -> States]
    BY DEF TypeOK, States, Ended
  <2>2. \A u \in joined' : task'[u] \in Ended
    BY DEF TypeOK, States, Task
  <2>3. requests' > 0 => task'["rest"] \in {"running", "error", "dropped"}
    BY DEF TypeOK, Task, Ended
  <2> QED
    BY <2>1, <2>2, <2>3 DEF TypeOK, States
<1>2. ReturnsOnce' /\ NotStarted' /\ CleanExit'
  BY LifecycleAssumption DEF ReturnsOnce, NotStarted, CleanExit, TypeOK, Alive
<1>3. RestFirst'
  BY DEF RestFirst, TypeOK, Ended, Task
<1>4. ShutdownInOrder'
  BY DEF ShutdownInOrder, TypeOK, Ended, Task
<1> QED
  BY <1>1, <1>2, <1>3, <1>4

\* run_indexer's own steps.
LEMMA MainHolds ==
  ASSUME LifecycleInv, Alive, Main \/ StartFails
  PROVE  LifecycleInv'
<1>1. CASE Prepare
  BY <1>1, LifecycleAssumption DEF Prepare, LifecycleInv, TypeOK, ReturnsOnce,
     NotStarted, RestFirst, ShutdownInOrder, CleanExit, Alive, tokenVars, signalVars
<1>2. CASE SpawnMetrics
  <2> USE DEF SpawnMetrics, LifecycleInv, tokenVars, signalVars
  <2>1. joined = {} /\ requests = 0 /\ ~shutdown_token
        /\ task["rest"] = "none" /\ task["shutdown"] = "none"
    BY <1>2, LifecycleAssumption
       DEF NotStarted, ShutdownInOrder, TypeOK, Ended, Task, Indexer
  <2>2. TypeOK'
    BY <1>2, <2>1 DEF TypeOK, Task, Indexer
  <2>3. ReturnsOnce' /\ NotStarted' /\ CleanExit'
    BY <1>2, LifecycleAssumption
       DEF ReturnsOnce, NotStarted, CleanExit, TypeOK, Alive
  <2>4. RestFirst' /\ ShutdownInOrder'
    BY <1>2, <2>1 DEF RestFirst, ShutdownInOrder, TypeOK, Task
  <2> QED
    BY <2>2, <2>3, <2>4
<1>3. CASE SpawnTasks
  <2> USE DEF SpawnTasks, LifecycleInv, tokenVars, signalVars
  <2>1. TypeOK'
    BY <1>3 DEF TypeOK, Ended, Task, Indexer
  <2>2. ReturnsOnce' /\ NotStarted' /\ CleanExit'
    BY <1>3, LifecycleAssumption DEF ReturnsOnce, NotStarted, CleanExit, Alive
  <2>3. RestFirst' /\ ShutdownInOrder'
    BY <1>3 DEF RestFirst, ShutdownInOrder, TypeOK, Task
  <2> QED
    BY <2>1, <2>2, <2>3
<1>4. CASE RestReturned
  <2> USE DEF RestReturned, LifecycleInv, tokenVars, signalVars
  <2>1. TypeOK'
    BY <1>4 DEF TypeOK
  <2>2. ReturnsOnce' /\ NotStarted' /\ CleanExit'
    BY <1>4, LifecycleAssumption DEF ReturnsOnce, NotStarted, CleanExit, Alive
  <2>3. RestFirst' /\ ShutdownInOrder'
    BY <1>4 DEF RestFirst, ShutdownInOrder
  <2> QED
    BY <2>1, <2>2, <2>3
<1>5. CASE RestPanicked
  BY <1>5, EndHolds DEF RestPanicked
<1>6. CASE ShutdownReturned
  BY <1>6, EndHolds DEF ShutdownReturned
<1>7. CASE StartFails
  BY <1>7, EndHolds DEF StartFails
<1> QED
  BY <1>1, <1>2, <1>3, <1>4, <1>5, <1>6, <1>7 DEF Main

\* Requests come only while the REST server runs.
LEMMA RequestHolds ==
  ASSUME LifecycleInv, Accept \/ Respond
  PROVE  LifecycleInv'
<1> USE DEF LifecycleInv, Accept, Respond, tokenVars, signalVars
<1>1. TypeOK'
  <2>1. /\ requests' \in 0 .. MaxRequests
        /\ requests' > 0 => task["rest"] \in {"running", "error", "dropped"}
    BY LifecycleAssumption DEF TypeOK
  <2>2. UNCHANGED <<main, exit, task, tokenVars, signalVars, joined>>
    OBVIOUS
  <2> QED
    BY <2>1, <2>2 DEF TypeOK
<1>2. ReturnsOnce' /\ NotStarted' /\ RestFirst' /\ ShutdownInOrder'
  BY DEF ReturnsOnce, NotStarted, RestFirst, ShutdownInOrder, Alive
<1>3. exit' = None
  BY DEF Alive
<1>4. CleanExit'
  BY <1>3, LifecycleAssumption DEF CleanExit
<1> QED
  BY <1>1, <1>2, <1>4

\* The signals and the steps of graceful_shutdown that are not the mere end or
\* start of a task.
LEMMA ShutdownHolds ==
  ASSUME LifecycleInv,
         \/ ListenForSigint \/ ListenForSigterm \/ ListenFails
         \/ Signal \/ StopRest \/ StopIndexer
         \/ \E t \in Indexer : JoinNext(t)
  PROVE  LifecycleInv'
<1> USE DEF LifecycleInv, tokenVars, signalVars
<1>1. ASSUME NEW s \in {"SIGINT", "SIGTERM"}, NEW from \in {"spawned", "listening"},
             NEW to \in {"listening", "running"}, Listen(s, from, to)
      PROVE  LifecycleInv'
  BY <1>1, LifecycleAssumption DEF Listen, TypeOK, ReturnsOnce, NotStarted,
     RestFirst, ShutdownInOrder, CleanExit, Alive, Ended, Task, Indexer
<1>2. CASE ListenFails
  <2> USE DEF ListenFails
  <2>1. TypeOK'
    BY <1>2 DEF TypeOK, Ended, Task, Indexer
  <2>2. ReturnsOnce' /\ NotStarted' /\ CleanExit'
    BY <1>2, LifecycleAssumption
       DEF ReturnsOnce, NotStarted, CleanExit, TypeOK, Alive, Task
  <2>3. RestFirst' /\ ShutdownInOrder'
    BY <1>2 DEF RestFirst, ShutdownInOrder, TypeOK, Task, Indexer
  <2> QED
    BY <2>1, <2>2, <2>3
<1>3. CASE Signal
  BY <1>3, LifecycleAssumption DEF Signal, TypeOK, ReturnsOnce, NotStarted,
     RestFirst, ShutdownInOrder, CleanExit, Alive
<1>4. CASE StopRest
  BY <1>4, LifecycleAssumption DEF StopRest, TypeOK, ReturnsOnce, NotStarted,
     RestFirst, ShutdownInOrder, CleanExit, Alive, Ended, Task, Indexer
<1>5. CASE StopIndexer
  BY <1>5, LifecycleAssumption DEF StopIndexer, TypeOK, ReturnsOnce,
     NotStarted, RestFirst, ShutdownInOrder, CleanExit, Alive, Ended, Task,
     Indexer
<1>6. ASSUME NEW t \in Indexer, JoinNext(t)
      PROVE  LifecycleInv'
  BY <1>6, LifecycleAssumption DEF JoinNext, Joinable, TypeOK, ReturnsOnce,
     NotStarted, RestFirst, ShutdownInOrder, CleanExit, Alive, Ended
<1> QED
  BY <1>1, <1>2, <1>3, <1>4, <1>5, <1>6 DEF ListenForSigint, ListenForSigterm

\* No step of any task breaks the invariant.
LEMMA StepHolds ==
  ASSUME LifecycleInv, [Next]_vars
  PROVE  LifecycleInv'
<1> USE DEF LifecycleInv
<1>1. CASE Main \/ StartFails
  <2>1. Alive
    BY <1>1 DEF Main, StartFails, Prepare, SpawnMetrics, SpawnTasks,
       RestReturned, RestPanicked, ShutdownReturned, ReturnsOnce
  <2> QED
    BY <1>1, <2>1, MainHolds
<1>2. CASE MetricsBinds \/ MetricsFails \/ MetricsStops
  BY <1>2, BecomeHolds DEF MetricsBinds, MetricsFails, MetricsStops, States,
     Ended, Task, Indexer
<1>3. CASE ExecutorRuns \/ ExecutorFails \/ ExecutorStops
  BY <1>3, BecomeHolds DEF ExecutorRuns, ExecutorFails, ExecutorStops, States,
     Ended, Task, Indexer
<1>4. CASE RestBinds \/ RestFails \/ RestStops \/ RestErrs
  BY <1>4, BecomeHolds DEF RestBinds, RestFails, RestStops, RestErrs, States,
     Ended, Task, Indexer
<1>5. CASE Accept \/ Respond
  BY <1>5, RequestHolds
<1>6. CASE AllJoined
  BY <1>6, BecomeHolds DEF AllJoined, States, Ended, Task, Indexer
<1>7. CASE \/ ListenForSigint \/ ListenForSigterm \/ ListenFails
           \/ Signal \/ StopRest \/ StopIndexer
           \/ \E t \in Indexer : JoinNext(t)
  BY <1>7, ShutdownHolds
<1>8. CASE Kill
  BY <1>8, EndHolds DEF Kill
<1>9. CASE UNCHANGED vars
  BY <1>9 DEF vars, tokenVars, signalVars, TypeOK, ReturnsOnce, NotStarted,
     RestFirst, ShutdownInOrder, CleanExit, Alive
<1> QED
  BY <1>1, <1>2, <1>3, <1>4, <1>5, <1>6, <1>7, <1>8, <1>9 DEF Next

\* LifecycleInv is an invariant of the process.
THEOREM Invariance == Spec => []LifecycleInv
<1>1. Init => LifecycleInv
  BY InitHolds
<1>2. LifecycleInv /\ [Next]_vars => LifecycleInv'
  BY StepHolds
<1> QED
  BY <1>1, <1>2, PTL DEF Spec

\* Every task is in one of its states, and what has been joined has ended.
THEOREM TypeCorrect == Spec => []TypeOK
<1>1. LifecycleInv => TypeOK
  BY DEF LifecycleInv
<1> QED
  BY <1>1, Invariance, PTL

\* run_indexer returns Ok only after a signal, with both tasks of the indexer
\* joined and no request unanswered, unless both the REST server and the task of
\* the signals failed (main.rs:113-123, 173-186).
THEOREM ExitsCleanly == Spec => []CleanExit
<1>1. LifecycleInv => CleanExit
  BY DEF LifecycleInv
<1> QED
  BY <1>1, Invariance, PTL
=============================================================================
