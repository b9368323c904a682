------------------------ MODULE CheckpointSyncProofs ------------------------
(***************************************************************************)
(* SyncInv is an invariant of CheckpointSync for all values of its         *)
(* constants: any number of workers, any chain, any choice of failures,    *)
(* crashes and resets.                                                     *)
(***************************************************************************)
EXTENDS CheckpointSyncProps, FiniteSetTheorems, WellFoundedInduction, TLAPS

\* The number that load returns is a checkpoint, or one past the last.
LEMMA LoadType == TypeOK => Load \in 0 .. LastCheckpoint + 1
  BY SyncAssumption DEF TypeOK, Load

\* The members of the ranges that properties of the progress quantify over.
LEMMA Below == \A m \in Nat : \A k \in 0 .. m - 1 : k \in Nat /\ k < m
  OBVIOUS

\* The invariant holds in the one initial state.
LEMMA InitInv == Init => SyncInv
<1> SUFFICES ASSUME Init PROVE SyncInv
  OBVIOUS
<1> USE SyncAssumption DEF Init
<1>1. Load = 0
  BY DEF Load
<1>2. TypeOK
  BY DEF TypeOK, Phases, Control, Metrics, NoMetrics, Checkpoints
<1>3. DownIsIdle /\ JobsAreOpen /\ RowsInOrder
  BY <1>1 DEF DownIsIdle, JobsAreOpen, RowsInOrder, Up
<1>4. RowsAccepted /\ FinishedAreSound /\ RowsPresent
  BY DEF RowsAccepted, FinishedAreSound, RowsPresent, PastRows
<1>5. SavedAreApplied /\ PairedTables /\ PoisonNeverPassed
  BY <1>1 DEF SavedAreApplied, PairedTables, PoisonNeverPassed
<1>6. FinishedInReach /\ IndexedGauge
  BY DEF FinishedInReach, IndexedGauge
<1> QED
  BY <1>2, <1>3, <1>4, <1>5, <1>6 DEF SyncInv, CoreInv

-----------------------------------------------------------------------------
(* Types.                                                                  *)

\* A worker at work holds a checkpoint.
LEMMA HeldJob ==
    ASSUME CoreInv, NEW w \in Worker, pc[w] # "idle"
    PROVE  job[w] \in Checkpoints
<1>1. TypeOK /\ JobsAreOpen
  BY DEF CoreInv
<1>2. Load \in Nat /\ cursor \in Nat
  BY <1>1, LoadType, SyncAssumption DEF TypeOK
<1>3. job[w] \in Load .. cursor - 1
  BY <1>1 DEF JobsAreOpen
<1>4. job[w] \in Nat
  BY <1>2, <1>3
<1> QED
  BY <1>1, <1>4, SyncAssumption DEF TypeOK

\* The row a worker is about to insert is a row of a checkpoint it holds.
LEMMA CurrentRow ==
    ASSUME CoreInv, NEW w \in Worker, pc[w] = "insert"
    PROVE  /\ job[w] \in Checkpoints
           /\ row[w] \in 1 .. Len(Upserts[job[w]])
           /\ Upserts[job[w]] \in Seq(StoredObject)
           /\ Upserts[job[w]][row[w]] \in StoredObject
<1>2. job[w] \in Checkpoints
  BY HeldJob
<1>3. Upserts[job[w]] \in Seq(StoredObject)
  BY <1>2, SyncAssumption
<1> QED
  BY <1>2, <1>3 DEF CoreInv, RowsInOrder

\* An accepted row has a condition, with the row's id.
LEMMA ConditionType ==
    ASSUME NEW obj \in StoredObject, HasExpiration(obj)
    PROVE  Condition(obj) \in UnlockRow /\ Condition(obj).object_id = obj.id
  BY SyncAssumption DEF StoredObject, UnlockRow, HasExpiration, Condition

\* Every step of the program, of the environment and of nobody keeps the types.
LEMMA TypeStep ==
    ASSUME CoreInv, [Next]_vars
    PROVE  TypeOK'
<1> USE SyncAssumption DEF Phases, Control
<1>0. TypeOK
  BY DEF CoreInv
<1>1. ASSUME NEW reset \in ResetChoices, Start(reset) PROVE TypeOK'
  BY <1>0, <1>1 DEF TypeOK, Start, workerVars, poolVars, globalVars, tableVars,
     boundVars, historyVars
<1>2. CASE RevertObjects
  BY <1>0, <1>2 DEF TypeOK, RevertObjects, workerVars, poolVars, globalVars,
     boundVars
<1>3. CASE RevertProgress
  BY <1>0, <1>3 DEF TypeOK, RevertProgress, DropProgress, workerVars, poolVars,
     globalVars, tableVars, boundVars, historyVars
<1>4. CASE InitIndexer
  BY <1>0, <1>4, LoadType DEF TypeOK, InitIndexer, FirstFetched, workerVars,
     globalVars, tableVars, boundVars, historyVars
<1>5. CASE Crash
  BY <1>0, <1>5 DEF TypeOK, Crash, ForgetMemory, NoMetrics, Metrics,
     Checkpoints, tableVars, historyVars
<1>6. ASSUME NEW w \in Worker, TakeCheckpoint(w) PROVE TypeOK'
  <2>1. cursor \in Checkpoints /\ cursor + 1 \in 0 .. LastCheckpoint + 1
    BY <1>6 DEF TakeCheckpoint, Checkpoints
  <2>2. reached' \in 0 .. LastCheckpoint + 1
    BY <1>0, <1>6, <2>1 DEF TypeOK, TakeCheckpoint
  <2> QED
    BY <1>0, <1>6, <2>1, <2>2 DEF TypeOK, TakeCheckpoint, globalVars, tableVars,
       boundVars
<1>7. ASSUME NEW w \in Worker, ReceiveCheckpoint(w) PROVE TypeOK'
  <2>1. job[w] \in Checkpoints
    BY <1>7, HeldJob DEF ReceiveCheckpoint
  <2>2. metrics' \in Metrics
    BY <1>0, <1>7, <2>1 DEF TypeOK, ReceiveCheckpoint, Received, Metrics
  <2> QED
    BY <1>0, <1>7, <2>2 DEF TypeOK, ReceiveCheckpoint, poolVars, tableVars,
       boundVars, historyVars
<1>8. ASSUME NEW w \in Worker, StoreTimestamp(w) PROVE TypeOK'
  <2>1. job[w] \in Checkpoints
    BY <1>8, HeldJob DEF StoreTimestamp
  <2> QED
    BY <1>0, <1>8, <2>1 DEF TypeOK, StoreTimestamp, NewTimestamp, AfterInserts,
       poolVars, tableVars, boundVars, historyVars
<1>9. ASSUME NEW w \in Worker, InsertObject(w) PROVE TypeOK'
  <2> DEFINE obj == Upserts[job[w]][row[w]]
  <2>1. obj \in StoredObject /\ HasExpiration(obj)
    BY <1>9, CurrentRow DEF InsertObject
  <2>2. objects' \in SUBSET StoredObject
    BY <1>0, <1>9, <2>1 DEF TypeOK, InsertObject, UpsertObject
  <2>3. expiration_unlock_conditions' \in SUBSET UnlockRow
    BY <1>0, <1>9, <2>1, ConditionType DEF TypeOK, InsertObject, UpsertCondition
  <2>4. metrics' \in Metrics
    <3>1. metrics \in Metrics /\ obj.object_type \in ObjectType
      BY <1>0, <2>1 DEF TypeOK, StoredObject
    <3>2. metrics.indexed_outputs_count
            \in [ObjectType -> 0 .. CounterModulus - 1]
      BY <3>1 DEF Metrics
    <3> DEFINE counts == metrics.indexed_outputs_count
               next   == (counts[obj.object_type] + 1) % CounterModulus
    <3>3. next \in 0 .. CounterModulus - 1
      <4>1. \A k \in Nat : (k + 1) % CounterModulus \in 0 .. CounterModulus - 1
        OBVIOUS
      <4>2. counts[obj.object_type] \in Nat
        BY <3>1, <3>2
      <4> QED
        BY <4>1, <4>2
    <3>4. metrics' = [metrics EXCEPT !.indexed_outputs_count =
                                         [counts EXCEPT ![obj.object_type] = next]]
      BY <1>9 DEF InsertObject
    <3>5. [counts EXCEPT ![obj.object_type] = next]
            \in [ObjectType -> 0 .. CounterModulus - 1]
      BY <3>1, <3>2, <3>3
    <3> HIDE DEF obj, counts, next
    <3> QED
      BY <3>1, <3>4, <3>5 DEF Metrics
  <2>5. pc' \in [Worker -> Control] /\ row' \in [Worker -> Nat]
    BY <1>0, <1>9 DEF TypeOK, InsertObject, AfterInserts
  <2> QED
    BY <1>0, <1>9, <2>2, <2>3, <2>4, <2>5 DEF TypeOK, InsertObject, poolVars,
       boundVars, historyVars
<1>10. ASSUME NEW w \in Worker, RejectObject(w) PROVE TypeOK'
  BY <1>0, <1>10 DEF TypeOK, RejectObject, RolledBack, OnError, poolVars,
     globalVars, tableVars, boundVars, historyVars
<1>11. ASSUME NEW w \in Worker, DeleteObjects(w) PROVE TypeOK'
  BY <1>0, <1>11 DEF TypeOK, DeleteObjects, WithoutObjects, WithoutConditions,
     poolVars, globalVars, boundVars, historyVars
<1>12. ASSUME NEW w \in Worker, FinishCheckpoint(w) PROVE TypeOK'
  <2>1. job[w] \in Checkpoints
    BY <1>12, HeldJob DEF FinishCheckpoint
  <2>2. metrics' \in Metrics
    BY <1>0, <1>12, <2>1 DEF TypeOK, FinishCheckpoint, Metrics
  <2> QED
    BY <1>0, <1>12, <2>1, <2>2 DEF TypeOK, FinishCheckpoint, tableVars,
       boundVars
<1>13. ASSUME NEW w \in Worker, DatabaseFails(w) PROVE TypeOK'
  BY <1>0, <1>13 DEF TypeOK, OnError, DatabaseFails, poolVars, globalVars,
     tableVars, historyVars
<1>14. ASSUME NEW w \in Worker, Retry(w) PROVE TypeOK'
  BY <1>0, <1>14 DEF TypeOK, Retry, poolVars, globalVars, tableVars, boundVars,
     historyVars
<1>15. ASSUME NEW n \in 1 .. LastCheckpoint + 1, SaveProgress(n) PROVE TypeOK'
  BY <1>0, <1>15 DEF TypeOK, SaveProgress, workerVars, poolVars, globalVars,
     tableVars, boundVars, historyVars
<1>16. CASE SaveFails
  BY <1>0, <1>16 DEF TypeOK, SaveFails, workerVars, poolVars, globalVars,
     tableVars, historyVars
<1>17. CASE UNCHANGED vars
  BY <1>0, <1>17 DEF TypeOK, vars, workerVars, poolVars, globalVars, tableVars,
     boundVars, historyVars
<1> QED
  BY <1>1, <1>2, <1>3, <1>4, <1>5, <1>6, <1>7, <1>8, <1>9, <1>10, <1>11, <1>12,
     <1>13, <1>14, <1>15, <1>16, <1>17 DEF Next, ProcessStep

-----------------------------------------------------------------------------
(* Who holds which checkpoint.                                             *)

\* Progress only grows while the process is up, and over finished checkpoints.
LEMMA LoadStep ==
    ASSUME CoreInv, [Next]_vars
    PROVE  /\ Load' \in 0 .. LastCheckpoint + 1
           /\ Up => /\ Load' >= Load
                    /\ \A k \in Nat : k >= Load /\ k < Load' => k \in finished
           /\ ~Up => Load' = Load \/ Load' = 0
<1> USE SyncAssumption
<1>1. Load \in 0 .. LastCheckpoint + 1
  BY LoadType DEF CoreInv
<1>2. ASSUME UNCHANGED last_checkpoint_sync
      PROVE  Load' = Load
  BY <1>2 DEF Load
<1>3. ASSUME RevertProgress
      PROVE  ~Up /\ Load' = 0
  BY <1>3 DEF RevertProgress, DropProgress, Load, Up
<1>4. ASSUME NEW n \in 1 .. LastCheckpoint + 1, SaveProgress(n)
      PROVE  /\ Up /\ Load' = n /\ n > Load
             /\ \A k \in Nat : k >= Load /\ k < n => k \in finished
  BY <1>1, <1>4 DEF SaveProgress, Contiguous, Load, Up
<1>5. \/ UNCHANGED last_checkpoint_sync
      \/ RevertProgress
      \/ \E n \in 1 .. LastCheckpoint + 1 : SaveProgress(n)
  BY DEF Next, ProcessStep, vars, Start, RevertObjects, InitIndexer, Crash,
     TakeCheckpoint, ReceiveCheckpoint, StoreTimestamp, InsertObject,
     RejectObject, RolledBack, DeleteObjects, FinishCheckpoint, OnError,
     DatabaseFails, Retry, SaveFails
<1> QED
  BY <1>1, <1>2, <1>3, <1>4, <1>5

\* What the steps have in common that a worker takes between two checkpoints.
LocalStep(w) ==
    /\ pc[w] # "idle"
    /\ pc'[w] # "idle"
    /\ \A v \in Worker \ {w} : pc'[v] = pc[v]
    /\ UNCHANGED <<phase, job, cursor, finished, applied, last_checkpoint_sync>>

\* The steps of process_checkpoint but its last are local.
LEMMA LocalSteps ==
    ASSUME CoreInv, NEW w \in Worker,
           \/ ReceiveCheckpoint(w) \/ StoreTimestamp(w) \/ InsertObject(w)
           \/ RejectObject(w) \/ DeleteObjects(w) \/ DatabaseFails(w) \/ Retry(w)
    PROVE  LocalStep(w)
<1>1. pc \in [Worker -> Control]
  BY DEF CoreInv, TypeOK
<1> QED
  BY <1>1 DEF LocalStep, ReceiveCheckpoint, StoreTimestamp, InsertObject,
     RejectObject, RolledBack, OnError, DeleteObjects, DatabaseFails, Retry,
     AfterInserts, poolVars, historyVars

\* Every step is one of a few kinds, as far as jobs are concerned.
LEMMA StepKinds ==
    ASSUME CoreInv, [Next]_vars
    PROVE  \/ UNCHANGED <<phase, cursor, pc, job, row, finished, applied>>
           \/ \E reset \in ResetChoices : Start(reset)
           \/ RevertObjects
           \/ RevertProgress
           \/ InitIndexer
           \/ Crash
           \/ \E w \in Worker : TakeCheckpoint(w)
           \/ \E w \in Worker : LocalStep(w)
           \/ \E w \in Worker : FinishCheckpoint(w)
           \/ SaveFails
<1>1. ASSUME NEW n \in 1 .. LastCheckpoint + 1, SaveProgress(n)
      PROVE  UNCHANGED <<phase, cursor, pc, job, row, finished, applied>>
  BY <1>1 DEF SaveProgress, workerVars, poolVars, historyVars
<1>2. ASSUME UNCHANGED vars
      PROVE  UNCHANGED <<phase, cursor, pc, job, row, finished, applied>>
  BY <1>2 DEF vars, workerVars, poolVars, historyVars
<1> QED
  BY <1>1, <1>2, LocalSteps DEF Next, ProcessStep

\* Workers are idle whenever the process is not up.
LEMMA DownStep ==
    ASSUME CoreInv, [Next]_vars
    PROVE  DownIsIdle'
<1> USE DEF DownIsIdle, Up
<1>0. DownIsIdle /\ JobsAreOpen
  BY DEF CoreInv
<1>1. CASE UNCHANGED <<phase, cursor, pc, job, row, finished, applied>>
  BY <1>0, <1>1
<1>2. ASSUME NEW reset \in ResetChoices, Start(reset) PROVE DownIsIdle'
  BY <1>0, <1>2 DEF Start, workerVars, poolVars
<1>3. CASE RevertObjects \/ RevertProgress
  BY <1>0, <1>3 DEF RevertObjects, RevertProgress, workerVars, poolVars
<1>4. CASE InitIndexer
  BY <1>0, <1>4 DEF InitIndexer, workerVars
<1>5. CASE Crash
  BY <1>5 DEF Crash, ForgetMemory
<1>6. ASSUME NEW w \in Worker, TakeCheckpoint(w) PROVE DownIsIdle'
  BY <1>6 DEF TakeCheckpoint
<1>7. ASSUME NEW w \in Worker, LocalStep(w) PROVE DownIsIdle'
  BY <1>0, <1>7 DEF LocalStep
<1>8. ASSUME NEW w \in Worker, FinishCheckpoint(w) PROVE DownIsIdle'
  BY <1>0, <1>8 DEF FinishCheckpoint
<1>9. CASE SaveFails
  BY <1>9 DEF SaveFails
<1> QED
  BY <1>1, <1>2, <1>3, <1>4, <1>5, <1>6, <1>7, <1>8, <1>9, StepKinds

\* Two workers never hold the same checkpoint, nor one already saved.
LEMMA JobsStep ==
    ASSUME CoreInv, [Next]_vars
    PROVE  JobsAreOpen'
<1> USE SyncAssumption
<1>0. /\ TypeOK /\ TypeOK' /\ DownIsIdle /\ DownIsIdle' /\ JobsAreOpen
      /\ Load \in Nat /\ Load' \in Nat /\ cursor \in Nat /\ cursor' \in Nat
      /\ Up => Load' >= Load
  <2>1. TypeOK /\ TypeOK' /\ DownIsIdle /\ DownIsIdle' /\ JobsAreOpen
    BY TypeStep, DownStep DEF CoreInv
  <2>2. cursor \in Nat /\ cursor' \in Nat
    BY <2>1 DEF TypeOK
  <2>3. Load \in Nat
    BY <2>1, LoadType
  <2>4. Load' \in Nat
    BY LoadStep
  <2>5. Up => Load' >= Load
    BY LoadStep
  <2> QED
    BY <2>1, <2>2, <2>3, <2>4, <2>5
<1>1. CASE ~Up'
  BY <1>0, <1>1 DEF DownIsIdle, JobsAreOpen
<1>2. CASE InitIndexer
  BY <1>0, <1>2 DEF InitIndexer, FirstFetched, DownIsIdle, JobsAreOpen, Up,
     Load, workerVars
<1>3. ASSUME NEW w \in Worker, TakeCheckpoint(w) PROVE JobsAreOpen'
  <2>1. Load' = Load /\ Load <= cursor /\ cursor < Load + MaxInProgress
    BY <1>0, <1>3 DEF TakeCheckpoint, JobsAreOpen, Load
  <2>2. \A v \in Worker : pc'[v] # "idle" =>
          \/ v = w /\ job'[v] = cursor
          \/ v # w /\ job'[v] = job[v] /\ pc[v] # "idle"
    BY <1>0, <1>3 DEF TakeCheckpoint, TypeOK
  <2> QED
    BY <1>0, <1>3, <2>1, <2>2 DEF TakeCheckpoint, JobsAreOpen
<1>4. ASSUME NEW w \in Worker, LocalStep(w) PROVE JobsAreOpen'
  <2>1. Load' = Load /\ Up' = Up
    BY <1>4 DEF LocalStep, Load, Up
  <2> QED
    BY <1>0, <1>4, <2>1 DEF LocalStep, JobsAreOpen
<1>5. ASSUME NEW w \in Worker, FinishCheckpoint(w) PROVE JobsAreOpen'
  <2>1. Load' = Load /\ Up' = Up
    BY <1>5 DEF FinishCheckpoint, Load, Up
  <2>2. \A v \in Worker : pc'[v] # "idle" =>
          v # w /\ job'[v] = job[v] /\ pc[v] # "idle"
    BY <1>0, <1>5 DEF FinishCheckpoint, TypeOK
  <2> QED
    BY <1>0, <1>5, <2>1, <2>2 DEF FinishCheckpoint, JobsAreOpen
<1>6. ASSUME Up, UNCHANGED <<cursor, pc, job, finished>> PROVE JobsAreOpen'
  <2>0. \A k \in Nat : k >= Load /\ k < Load' => k \in finished
    BY <1>6, LoadStep
  <2>1. Load' <= cursor
    <3>1. CASE Load' = Load
      BY <1>0, <1>6, <3>1 DEF JobsAreOpen
    <3>2. CASE Load' > Load
      <4>1. Load' - 1 \in finished
        BY <1>0, <1>6, <2>0, <3>2
      <4> QED
        BY <1>0, <4>1 DEF JobsAreOpen
    <3> QED
      BY <1>0, <1>6, <3>1, <3>2
  <2>2. ASSUME NEW w \in Worker, pc[w] # "idle"
        PROVE  job[w] >= Load' /\ job[w] < Load' + MaxInProgress
    <3>1. /\ job[w] \in Nat /\ job[w] >= Load /\ job[w] < Load + MaxInProgress
          /\ job[w] \notin finished
      BY <1>0, <2>2 DEF JobsAreOpen
    <3> QED
      BY <1>0, <1>6, <2>0, <3>1
  <2> QED
    BY <1>0, <1>6, <2>1, <2>2 DEF JobsAreOpen
<1>7. CASE SaveFails
  BY <1>6, <1>7 DEF SaveFails, Up, workerVars, poolVars
<1>8. CASE UNCHANGED <<phase, cursor, pc, job, row, finished, applied>>
  BY <1>1, <1>6, <1>8 DEF Up
<1>9. CASE \/ \E reset \in ResetChoices : Start(reset)
           \/ RevertObjects \/ RevertProgress \/ Crash
  BY <1>1, <1>9 DEF Start, RevertObjects, RevertProgress, Crash, Up
<1> QED
  BY <1>2, <1>3, <1>4, <1>5, <1>7, <1>8, <1>9, StepKinds

-----------------------------------------------------------------------------
(* Rows a worker goes past.                                                *)

\* A worker inserts its rows in order and leaves the loop at their end.
LEMMA RowsStep ==
    ASSUME CoreInv, [Next]_vars
    PROVE  RowsInOrder'
<1> USE SyncAssumption DEF RowsInOrder
<1>0. TypeOK /\ RowsInOrder /\ DownIsIdle
  BY DEF CoreInv
<1>1. CASE UNCHANGED <<pc, job, row>>
  BY <1>0, <1>1
<1>2. CASE \/ \E reset \in ResetChoices : Start(reset)
           \/ RevertObjects \/ RevertProgress \/ InitIndexer \/ SaveFails
           \/ \E n \in 1 .. LastCheckpoint + 1 : SaveProgress(n)
  BY <1>1, <1>2 DEF Start, RevertObjects, RevertProgress, InitIndexer,
     SaveFails, SaveProgress, workerVars
<1>3. CASE Crash
  BY <1>3 DEF Crash, ForgetMemory
<1>4. ASSUME NEW w \in Worker,
             \/ TakeCheckpoint(w) \/ ReceiveCheckpoint(w) \/ RejectObject(w)
             \/ FinishCheckpoint(w) \/ DatabaseFails(w) \/ Retry(w)
      PROVE  RowsInOrder'
  <2>1. pc'[w] \notin {"insert", "delete", "finish"}
    BY <1>0, <1>4 DEF TypeOK, TakeCheckpoint, ReceiveCheckpoint, RejectObject,
       RolledBack, OnError, FinishCheckpoint, DatabaseFails, Retry
  <2>2. \A v \in Worker : v # w =>
           pc'[v] = pc[v] /\ job'[v] = job[v] /\ row'[v] = row[v]
    BY <1>0, <1>4 DEF TypeOK, TakeCheckpoint, ReceiveCheckpoint, RejectObject,
       RolledBack, FinishCheckpoint, OnError, DatabaseFails, Retry
  <2> QED
    BY <1>0, <2>1, <2>2
<1>5. ASSUME NEW w \in Worker, StoreTimestamp(w) PROVE RowsInOrder'
  <2>1. job[w] \in Checkpoints /\ Upserts[job[w]] \in Seq(StoredObject)
    BY <1>5, HeldJob DEF StoreTimestamp
  <2>2. /\ pc'[w] = "insert" => 1 \in DOMAIN Upserts[job[w]]
        /\ pc'[w] \in {"delete", "finish"} => 1 = Len(Upserts[job[w]]) + 1
    BY <1>0, <1>5, <2>1 DEF TypeOK, StoreTimestamp, AfterInserts
  <2>3. row'[w] = 1 /\ job' = job
        /\ \A v \in Worker : v # w => pc'[v] = pc[v] /\ row'[v] = row[v]
    BY <1>0, <1>5 DEF TypeOK, StoreTimestamp
  <2> QED
    BY <1>0, <2>2, <2>3
<1>6. ASSUME NEW w \in Worker, InsertObject(w) PROVE RowsInOrder'
  <2>1. job[w] \in Checkpoints /\ Upserts[job[w]] \in Seq(StoredObject)
        /\ row[w] \in 1 .. Len(Upserts[job[w]])
    BY <1>6, CurrentRow DEF InsertObject
  <2>2. /\ pc'[w] = "insert" => row[w] + 1 \in DOMAIN Upserts[job[w]]
        /\ pc'[w] \in {"delete", "finish"} =>
             row[w] + 1 = Len(Upserts[job[w]]) + 1
    BY <1>0, <1>6, <2>1 DEF TypeOK, InsertObject, AfterInserts
  <2>3. row'[w] = row[w] + 1 /\ job' = job
        /\ \A v \in Worker : v # w => pc'[v] = pc[v] /\ row'[v] = row[v]
    BY <1>0, <1>6 DEF TypeOK, InsertObject
  <2> QED
    BY <1>0, <2>2, <2>3
<1>7. ASSUME NEW w \in Worker, DeleteObjects(w) PROVE RowsInOrder'
  <2>1. pc'[w] = "finish" /\ pc[w] = "delete" /\ UNCHANGED <<job, row>>
        /\ \A v \in Worker : v # w => pc'[v] = pc[v]
    BY <1>0, <1>7 DEF TypeOK, DeleteObjects
  <2> QED
    BY <1>0, <2>1
<1>8. CASE UNCHANGED vars
  BY <1>1, <1>8 DEF vars, workerVars
<1> QED
  BY <1>2, <1>3, <1>4, <1>5, <1>6, <1>7, <1>8 DEF Next, ProcessStep

\* A step adds to the rows a worker is past only by inserting one.
LEMMA PastStep ==
    ASSUME CoreInv, [Next]_vars, NEW v \in Worker
    PROVE  \/ PastRows(v)' \subseteq PastRows(v)
           \/ /\ InsertObject(v)
              /\ PastRows(v)' \subseteq
                   PastRows(v) \cup {Upserts[job[v]][row[v]]}
<1>0. TypeOK /\ RowsInOrder
  BY DEF CoreInv
<1>1. CASE pc'[v] = pc[v] /\ job'[v] = job[v] /\ row'[v] = row[v]
  BY <1>1 DEF PastRows
<1>2. CASE pc'[v] \notin {"insert", "delete", "finish"}
  BY <1>2 DEF PastRows
<1>3. CASE StoreTimestamp(v)
  <2>1. row'[v] = 1
    BY <1>0, <1>3 DEF TypeOK, StoreTimestamp
  <2> QED
    BY <2>1 DEF PastRows
<1>4. CASE InsertObject(v)
  <2>1. job[v] \in Checkpoints /\ row[v] \in Nat /\ row[v] >= 1
    BY <1>4, CurrentRow, SyncAssumption DEF InsertObject, Checkpoints
  <2>2. row'[v] = row[v] + 1 /\ job' = job /\ pc[v] = "insert"
    BY <1>0, <1>4 DEF TypeOK, InsertObject
  <2>3. 1 .. row'[v] - 1 = (1 .. row[v] - 1) \cup {row[v]}
    BY <2>1, <2>2
  <2> QED
    BY <1>4, <2>2, <2>3 DEF PastRows
<1>5. CASE DeleteObjects(v)
  BY <1>5 DEF DeleteObjects, PastRows
<1>6. \/ pc'[v] = pc[v] /\ job'[v] = job[v] /\ row'[v] = row[v]
      \/ pc'[v] \notin {"insert", "delete", "finish"}
      \/ StoreTimestamp(v) \/ InsertObject(v) \/ DeleteObjects(v)
  <2>1. CASE \/ \E reset \in ResetChoices : Start(reset)
             \/ RevertObjects \/ RevertProgress \/ InitIndexer \/ SaveFails
             \/ \E n \in 1 .. LastCheckpoint + 1 : SaveProgress(n)
             \/ UNCHANGED vars
    BY <2>1 DEF Start, RevertObjects, RevertProgress, InitIndexer, SaveFails,
       SaveProgress, vars, workerVars
  <2>2. CASE Crash
    BY <2>2 DEF Crash, ForgetMemory
  <2>3. ASSUME NEW w \in Worker,
               TakeCheckpoint(w) \/ ProcessStep(w) \/ DatabaseFails(w)
        PROVE  <1>6!:
    <3>1. CASE v # w
      BY <1>0, <2>3, <3>1 DEF TypeOK, TakeCheckpoint, ProcessStep,
         ReceiveCheckpoint, StoreTimestamp, InsertObject, RejectObject,
         RolledBack, DeleteObjects, FinishCheckpoint, OnError, DatabaseFails,
         Retry
    <3>2. CASE \/ TakeCheckpoint(v) \/ ReceiveCheckpoint(v) \/ RejectObject(v)
               \/ FinishCheckpoint(v) \/ DatabaseFails(v) \/ Retry(v)
      BY <1>0, <3>2 DEF TypeOK, TakeCheckpoint, ReceiveCheckpoint,
         RejectObject, RolledBack, OnError, FinishCheckpoint, DatabaseFails,
         Retry
    <3> QED
      BY <2>3, <3>1, <3>2 DEF ProcessStep
  <2> QED
    BY <2>1, <2>2, <2>3 DEF Next
<1> QED
  BY <1>1, <1>2, <1>3, <1>4, <1>5, <1>6

\* No worker goes past a row that has no expiration.
LEMMA AcceptedStep ==
    ASSUME CoreInv, [Next]_vars
    PROVE  RowsAccepted'
<1>0. TypeOK /\ RowsAccepted
  BY DEF CoreInv
<1>1. ASSUME NEW v \in Worker, NEW r \in PastRows(v)' PROVE HasExpiration(r)
  <2>1. CASE r \in PastRows(v)
    BY <1>0, <2>1 DEF RowsAccepted
  <2>2. CASE InsertObject(v) /\ r = Upserts[job[v]][row[v]]
    BY <2>2 DEF InsertObject
  <2> QED
    BY <1>1, <2>1, <2>2, PastStep
<1>2. ASSUME NEW v \in Worker, pc'[v] \in {"stamp", "insert", "delete", "finish"}
      PROVE  job'[v] \notin Unreadable
  <2> DEFINE Goal == \/ job'[v] \notin Unreadable
                     \/ /\ pc[v] \in {"stamp", "insert", "delete", "finish"}
                        /\ job'[v] = job[v]
  <2>1. ASSUME \/ \E reset \in ResetChoices : Start(reset)
               \/ RevertObjects \/ RevertProgress \/ InitIndexer \/ SaveFails
               \/ \E n \in 1 .. LastCheckpoint + 1 : SaveProgress(n)
               \/ UNCHANGED vars
        PROVE  Goal
    BY <1>2, <2>1 DEF Start, RevertObjects, RevertProgress, InitIndexer,
       SaveFails, SaveProgress, vars, workerVars
  <2>2. ASSUME Crash PROVE Goal
    BY <1>2, <2>2 DEF Crash, ForgetMemory
  <2>3. ASSUME NEW w \in Worker, w # v,
               TakeCheckpoint(w) \/ ProcessStep(w) \/ DatabaseFails(w)
        PROVE  Goal
    BY <1>0, <1>2, <2>3 DEF TypeOK, TakeCheckpoint, ProcessStep,
       ReceiveCheckpoint, StoreTimestamp, InsertObject, RejectObject,
       RolledBack, DeleteObjects, FinishCheckpoint, OnError, DatabaseFails,
       Retry
  <2>4. ASSUME \/ TakeCheckpoint(v) \/ RejectObject(v) \/ FinishCheckpoint(v)
               \/ DatabaseFails(v) \/ Retry(v)
        PROVE  Goal
    BY <1>0, <1>2, <2>4 DEF TypeOK, TakeCheckpoint, RejectObject, RolledBack,
       OnError, FinishCheckpoint, DatabaseFails, Retry
  <2>5. ASSUME ReceiveCheckpoint(v) PROVE Goal
    BY <1>0, <1>2, <2>5 DEF TypeOK, ReceiveCheckpoint
  <2>6. ASSUME StoreTimestamp(v) \/ InsertObject(v) \/ DeleteObjects(v)
        PROVE  Goal
    BY <1>0, <1>2, <2>6 DEF TypeOK, StoreTimestamp, InsertObject, DeleteObjects
  <2>7. Goal
    BY <2>1, <2>2, <2>3, <2>4, <2>5, <2>6 DEF Next, ProcessStep
  <2> QED
    BY <1>0, <2>7 DEF RowsAccepted
<1> QED
  BY <1>1, <1>2 DEF RowsAccepted

\* A worker that finishes is past all rows of its checkpoint.
LEMMA AtFinish ==
    ASSUME CoreInv, NEW w \in Worker, FinishCheckpoint(w)
    PROVE  /\ job[w] \in Checkpoints /\ ~Poisoned(job[w])
           /\ \A i \in DOMAIN Upserts[job[w]] : Upserts[job[w]][i] \in PastRows(w)
<1>1. job[w] \in Checkpoints /\ pc[w] = "finish"
  BY HeldJob DEF FinishCheckpoint
<1>2. Upserts[job[w]] \in Seq(StoredObject)
  BY <1>1, SyncAssumption
<1>3. row[w] = Len(Upserts[job[w]]) + 1
  BY <1>1 DEF CoreInv, RowsInOrder
<1>4. 1 .. row[w] - 1 = DOMAIN Upserts[job[w]]
  BY <1>2, <1>3
<1>5. \A i \in DOMAIN Upserts[job[w]] : Upserts[job[w]][i] \in PastRows(w)
  BY <1>1, <1>4 DEF PastRows
<1> QED
  BY <1>1, <1>5 DEF CoreInv, RowsAccepted, Poisoned

\* History and rows of the tables change in a few steps only.
LEMMA TableSteps ==
    ASSUME CoreInv, [Next]_vars
    PROVE  \/ RevertObjects
           \/ \E w \in Worker : InsertObject(w) \/ DeleteObjects(w)
           \/ UNCHANGED <<objects, expiration_unlock_conditions>>
<1> QED
  BY DEF Next, ProcessStep, vars, Start, RevertProgress, InitIndexer, Crash,
     TakeCheckpoint, ReceiveCheckpoint, StoreTimestamp, RejectObject,
     RolledBack, FinishCheckpoint, OnError, DatabaseFails, Retry, SaveProgress,
     SaveFails, tableVars

\* Upserts, deletes and resets change both tables alike.
LEMMA PairedStep ==
    ASSUME CoreInv, [Next]_vars
    PROVE  PairedTables'
<1>0. PairedTables /\ TypeOK
  BY DEF CoreInv
<1>1. CASE RevertObjects
  BY <1>1 DEF RevertObjects, PairedTables
<1>2. ASSUME NEW w \in Worker, InsertObject(w) PROVE PairedTables'
  <2> DEFINE obj == Upserts[job[w]][row[w]]
  <2>1. obj \in StoredObject /\ HasExpiration(obj)
    BY <1>2, CurrentRow DEF InsertObject
  <2>2. objects' = {o \in objects : o.id # obj.id} \cup {obj}
    BY <1>2 DEF InsertObject, UpsertObject
  <2>3. expiration_unlock_conditions' =
          {k \in expiration_unlock_conditions : k.object_id # obj.id}
            \cup {Condition(obj)}
    BY <1>2, <2>1, ConditionType DEF InsertObject, UpsertCondition
  <2> HIDE DEF obj
  <2>4. \A o \in objects : Condition(o).object_id = o.id
    BY DEF Condition
  <2> QED
    BY <1>0, <2>1, <2>2, <2>3, <2>4 DEF PairedTables
<1>3. ASSUME NEW w \in Worker, DeleteObjects(w) PROVE PairedTables'
  <2>1. \A o \in objects : Condition(o).object_id = o.id
    BY DEF Condition
  <2> QED
    BY <1>0, <1>3, <2>1 DEF DeleteObjects, WithoutObjects, WithoutConditions,
       PairedTables
<1>4. CASE UNCHANGED <<objects, expiration_unlock_conditions>>
  BY <1>0, <1>4 DEF PairedTables
<1> QED
  BY <1>1, <1>2, <1>3, <1>4, TableSteps

\* What no checkpoint removes stays in the table until a reset drops it.
LEMMA PresenceStep ==
    ASSUME CoreInv, [Next]_vars, NEW id, NeverRemoved(id), RowsOf(id) # {}
    PROVE  RowsOf(id)' # {} \/ RevertObjects
<1>1. ASSUME NEW w \in Worker, InsertObject(w) PROVE RowsOf(id)' # {}
  BY <1>1 DEF InsertObject, UpsertObject, RowsOf
<1>2. ASSUME NEW w \in Worker, DeleteObjects(w) PROVE RowsOf(id)' # {}
  <2>1. job[w] \in Checkpoints
    BY <1>2, HeldJob DEF DeleteObjects
  <2> QED
    BY <1>2, <2>1 DEF DeleteObjects, WithoutObjects, RowsOf, NeverRemoved
<1>3. ASSUME UNCHANGED objects PROVE RowsOf(id)' # {}
  BY <1>3 DEF RowsOf
<1> QED
  BY <1>1, <1>2, <1>3, TableSteps

\* The applied set grows with a finished checkpoint, and a reset empties it.
LEMMA AppliedStep ==
    ASSUME CoreInv, [Next]_vars
    PROVE  \/ RevertObjects
           \/ UNCHANGED applied
           \/ \E w \in Worker :
                FinishCheckpoint(w) /\ applied' = applied \cup {job[w]}
<1> QED
  BY DEF Next, ProcessStep, vars, Start, RevertProgress, InitIndexer, Crash,
     TakeCheckpoint, ReceiveCheckpoint, StoreTimestamp, InsertObject,
     RejectObject, RolledBack, DeleteObjects, FinishCheckpoint, OnError,
     DatabaseFails, Retry, SaveProgress, SaveFails, historyVars

\* When the tables are dropped, no worker holds anything.
LEMMA RevertingIsIdle ==
    ASSUME CoreInv, RevertObjects
    PROVE  /\ finished' = {} /\ applied' = {}
           /\ \A w \in Worker : PastRows(w)' = {}
<1>1. finished = {} /\ \A w \in Worker : pc[w] = "idle"
  BY DEF CoreInv, DownIsIdle, RevertObjects, Up
<1> QED
  BY <1>1 DEF RevertObjects, poolVars, workerVars, PastRows

\* What a process has finished is applied and was acceptable.
LEMMA FinishedStep ==
    ASSUME CoreInv, [Next]_vars
    PROVE  FinishedAreSound'
<1>0. FinishedAreSound
  BY DEF CoreInv
<1>1. \A n : Poisoned(n)' <=> Poisoned(n)
  BY DEF Poisoned, HasExpiration
<1>2. CASE RevertObjects
  BY <1>2, RevertingIsIdle DEF FinishedAreSound
<1>3. ASSUME NEW w \in Worker, FinishCheckpoint(w) PROVE FinishedAreSound'
  <2>1. finished' = finished \cup {job[w]} /\ applied' = applied \cup {job[w]}
    BY <1>3 DEF FinishCheckpoint
  <2> QED
    BY <1>0, <1>1, <1>3, <2>1, AtFinish DEF FinishedAreSound
<1>4. CASE UNCHANGED applied /\ finished' \subseteq finished
  BY <1>0, <1>1, <1>4 DEF FinishedAreSound
<1>5. \/ RevertObjects \/ \E w \in Worker : FinishCheckpoint(w)
      \/ UNCHANGED applied /\ finished' \subseteq finished
  BY StepKinds DEF Start, RevertProgress, InitIndexer, Crash, ForgetMemory,
     TakeCheckpoint, LocalStep, SaveFails, poolVars, historyVars
<1> QED
  BY <1>2, <1>3, <1>4, <1>5

\* The rows that a worker is past, and all of an applied checkpoint, are there.
LEMMA PresentStep ==
    ASSUME CoreInv, [Next]_vars
    PROVE  RowsPresent'
<1>0. RowsPresent /\ TypeOK
  BY DEF CoreInv
<1>1. CASE RevertObjects
  BY <1>1, RevertingIsIdle DEF RowsPresent
<1>2. CASE ~RevertObjects
  <2>1. ASSUME NEW w \in Worker, NEW r \in PastRows(w)', NeverRemoved(r.id)
        PROVE  RowsOf(r.id)' # {}
    <3>1. CASE r \in PastRows(w)
      BY <1>0, <1>2, <2>1, <3>1, PresenceStep DEF RowsPresent
    <3>2. CASE InsertObject(w) /\ r = Upserts[job[w]][row[w]]
      BY <3>2 DEF InsertObject, UpsertObject, RowsOf
    <3> QED
      BY <2>1, <3>1, <3>2, PastStep
  <2>2. ASSUME NEW n \in applied', NEW i \in DOMAIN Upserts[n],
               NeverRemoved(Upserts[n][i].id)
        PROVE  RowsOf(Upserts[n][i].id)' # {}
    <3>1. CASE n \in applied
      BY <1>0, <1>2, <2>2, <3>1, PresenceStep DEF RowsPresent
    <3>2. ASSUME NEW w \in Worker, FinishCheckpoint(w), n = job[w]
          PROVE  RowsOf(Upserts[n][i].id) # {}
      BY <1>0, <2>2, <3>2, AtFinish DEF RowsPresent
    <3> QED
      BY <1>2, <2>2, <3>1, <3>2, PresenceStep, AppliedStep
  <2>3. \A id : NeverRemoved(id)' <=> NeverRemoved(id)
    BY DEF NeverRemoved
  <2> QED
    BY <2>1, <2>2, <2>3 DEF RowsPresent
<1> QED
  BY <1>1, <1>2

\* If what is saved is applied, it stays so until the tables are dropped.
LEMMA SavedGrows ==
    ASSUME CoreInv, [Next]_vars, ~RevertObjects, 0 .. Load - 1 \subseteq applied
    PROVE  (0 .. Load - 1)' \subseteq applied'
<1> USE SyncAssumption
<1>1. applied \subseteq applied'
  BY AppliedStep
<1>2. Load \in Nat /\ Load' \in Nat /\ FinishedAreSound
  BY LoadType, LoadStep DEF CoreInv
<1>3. ASSUME NEW k \in Nat, k < Load' PROVE k \in applied'
  <2>1. CASE k < Load
    BY <1>1, <1>2, <1>3, <2>1
  <2>2. CASE k >= Load
    <3>1. Up
      BY <1>2, <1>3, <2>2, LoadStep
    <3>2. k \in finished
      BY <1>3, <2>2, <3>1, LoadStep
    <3> QED
      BY <1>1, <1>2, <3>2 DEF FinishedAreSound
  <2> QED
    BY <1>2, <2>1, <2>2
<1>4. ASSUME NEW m \in Nat, m = Load' PROVE 0 .. m - 1 \subseteq applied'
  <2>1. \A k \in Nat : k < m => k \in applied'
    BY <1>3, <1>4
  <2> QED
    BY <2>1, Below
<1> QED
  BY <1>2, <1>4

\* Without resets the tables are never dropped.
LEMMA NoRevertStep ==
    ASSUME SyncInv, [Next]_vars, NoReset
    PROVE  phase' \notin {"revert_objects", "revert_progress"}
<1>0. CoreInv /\ phase \notin {"revert_objects", "revert_progress"}
  BY DEF SyncInv, SavedAreApplied
<1>1. \/ phase' = phase \/ phase' \in {"init", "running", "down", "stalled"}
      \/ TRUE \in ResetChoices
  BY <1>0, StepKinds DEF Start, RevertObjects, RevertProgress, InitIndexer,
     Crash, TakeCheckpoint, LocalStep, FinishCheckpoint, SaveFails
<1> QED
  BY <1>0, <1>1 DEF NoReset

\* A progress that vouches for the tables did so before, or is a new one.
LEMMA VouchedStep ==
    ASSUME SyncInv, [Next]_vars, Vouched'
    PROVE  \/ RevertProgress /\ Load' = 0
           \/ Vouched /\ ~RevertObjects
<1>0. CoreInv
  BY DEF SyncInv
<1>1. NoReset \/ (AlwaysReset /\ Serving')
  BY DEF Vouched, NoReset, AlwaysReset
<1>2. CASE RevertProgress
  BY <1>2 DEF RevertProgress, DropProgress, Load
<1>3. CASE ~RevertProgress
  <2>1. ASSUME NEW reset \in ResetChoices, Start(reset)
        PROVE  AlwaysReset => ~Serving'
    <3>1. CASE reset
      BY <2>1, <3>1 DEF Start, Serving
    <3>2. CASE ~reset
      <4>1. reset = FALSE
        BY <3>2
      <4> QED
        BY <4>1 DEF AlwaysReset
    <3> QED
      BY <3>1, <3>2
  <2>2. RevertObjects \/ Crash => ~Serving'
    BY DEF RevertObjects, Crash, Serving
  <2>3. \/ \E reset \in ResetChoices : Start(reset)
        \/ RevertObjects \/ Crash
        \/ Serving' => Serving
    BY <1>0, <1>3, StepKinds DEF Serving, InitIndexer, TakeCheckpoint,
       LocalStep, FinishCheckpoint, SaveFails, Up
  <2>4. Vouched
    BY <1>1, <2>1, <2>2, <2>3 DEF Vouched
  <2>5. ~RevertObjects
    BY <2>4 DEF RevertObjects, Vouched, SyncInv, SavedAreApplied, Serving
  <2> QED
    BY <2>4, <2>5
<1> QED
  BY <1>2, <1>3

\* The progress is saved over applied checkpoints and dropped with the tables.
LEMMA SavedStep ==
    ASSUME SyncInv, [Next]_vars
    PROVE  SavedAreApplied'
<1>0. SavedAreApplied /\ CoreInv
  BY DEF SyncInv
<1>1. NoReset => phase' \notin {"revert_objects", "revert_progress"}
  BY NoRevertStep
<1>2. ASSUME Vouched' PROVE (0 .. Load - 1)' \subseteq applied'
  <2>1. CASE Load' = 0
    BY <2>1
  <2>2. CASE Vouched /\ ~RevertObjects
    BY <1>0, <2>2, SavedGrows DEF SavedAreApplied
  <2> QED
    BY <1>2, <2>1, <2>2, VouchedStep
<1> QED
  BY <1>1, <1>2 DEF SavedAreApplied, NoReset

\* The progress stops at a checkpoint with a rejected row.
LEMMA PoisonStep ==
    ASSUME CoreInv, [Next]_vars
    PROVE  PoisonNeverPassed'
<1>1. Load \in Nat /\ Load' \in Nat /\ FinishedAreSound /\ PoisonNeverPassed
  BY LoadType, LoadStep, SyncAssumption DEF CoreInv
<1>2. ASSUME NEW k \in Nat, k < Load' PROVE ~Poisoned(k)
  <2>1. CASE k < Load
    BY <1>1, <2>1 DEF PoisonNeverPassed
  <2>2. CASE k >= Load
    <3>1. Up
      BY <1>1, <1>2, <2>2, LoadStep
    <3>2. k \in finished
      BY <1>2, <2>2, <3>1, LoadStep
    <3> QED
      BY <1>1, <3>2 DEF FinishedAreSound
  <2> QED
    BY <1>1, <2>1, <2>2
<1>3. \A k : Poisoned(k)' <=> Poisoned(k)
  BY DEF Poisoned, HasExpiration
<1>4. ASSUME NEW m \in Nat, m = Load' PROVE \A n \in 0 .. m - 1 : ~Poisoned(n)
  <2>1. \A k \in Nat : k < m => ~Poisoned(k)
    BY <1>2, <1>4
  <2> QED
    BY <2>1, Below
<1> QED
  BY <1>1, <1>3, <1>4 DEF PoisonNeverPassed

-----------------------------------------------------------------------------
(* The gauge of the last checkpoint indexed.                               *)

\* A step forgets what is finished, finishes one more, or leaves both alone.
LEMMA GaugeKinds ==
    ASSUME CoreInv, [Next]_vars
    PROVE  \/ finished' = {}
           \/ \E w \in Worker : FinishCheckpoint(w)
           \/ /\ finished' = finished
              /\ metrics'.last_checkpoint_indexed
                   = metrics.last_checkpoint_indexed
<1>1. metrics \in Metrics
  BY DEF CoreInv, TypeOK
<1>2. ASSUME NEW w \in Worker, ReceiveCheckpoint(w) \/ InsertObject(w)
      PROVE  /\ finished' = finished
             /\ metrics'.last_checkpoint_indexed
                  = metrics.last_checkpoint_indexed
  BY <1>1, <1>2 DEF ReceiveCheckpoint, Received, InsertObject, Metrics, poolVars
<1>3. CASE Crash
  BY <1>3 DEF Crash, ForgetMemory
<1> QED
  BY <1>2, <1>3 DEF Next, ProcessStep, vars, Start, RevertObjects,
     RevertProgress, InitIndexer, TakeCheckpoint, StoreTimestamp, RejectObject,
     DeleteObjects, DatabaseFails, Retry, SaveProgress, SaveFails, poolVars,
     globalVars

\* A checkpoint that is finished was taken within reach of one that still was
\* open, so it is within reach of whichever finishes next.
LEMMA GaugeStep ==
    ASSUME CoreInv, [Next]_vars
    PROVE  FinishedInReach' /\ IndexedGauge'
<1>1. /\ FinishedInReach /\ IndexedGauge /\ JobsAreOpen /\ DownIsIdle
      /\ Load \in Nat /\ Load' \in Nat /\ MaxInProgress \in Nat
      /\ finished \subseteq Nat /\ finished' \subseteq Nat
  <2>1. TypeOK /\ TypeOK'
    BY TypeStep DEF CoreInv
  <2>2. finished \subseteq Nat /\ finished' \subseteq Nat
    BY <2>1, SyncAssumption DEF TypeOK, Checkpoints
  <2>3. Load \in Nat /\ Load' \in Nat
    BY <2>1, LoadType, LoadStep, SyncAssumption
  <2> QED
    BY <2>2, <2>3, SyncAssumption DEF CoreInv
<1>2. CASE finished' = {}
  BY <1>2 DEF FinishedInReach, IndexedGauge
<1>3. ASSUME finished' # {} PROVE Load' >= Load
  <2>1. CASE Up
    BY <2>1, LoadStep
  <2>2. CASE ~Up
    <3>1. finished = {} /\ \A w \in Worker : pc[w] = "idle"
      BY <1>1, <2>2 DEF DownIsIdle
    <3>2. ~\E w \in Worker : FinishCheckpoint(w)
      BY <3>1 DEF FinishCheckpoint
    <3> QED
      BY <1>3, <3>1, <3>2, GaugeKinds
  <2> QED
    BY <2>1, <2>2
<1>4. ASSUME finished' = finished, finished' # {},
             metrics'.last_checkpoint_indexed = metrics.last_checkpoint_indexed
      PROVE  FinishedInReach' /\ IndexedGauge'
  <2>1. FinishedInReach'
    <3>1. \A n, k, l, m \in Nat : n < k + m /\ l >= k => n < l + m
      OBVIOUS
    <3>2. Load' >= Load
      BY <1>3, <1>4
    <3> QED
      BY <1>1, <1>4, <3>1, <3>2 DEF FinishedInReach
  <2>2. IndexedGauge'
    BY <1>1, <1>4 DEF IndexedGauge
  <2> QED
    BY <2>1, <2>2
<1>5. ASSUME NEW w \in Worker, FinishCheckpoint(w)
      PROVE  FinishedInReach' /\ IndexedGauge'
  <2>1. /\ finished' = finished \cup {job[w]}
        /\ Load' = Load
        /\ metrics'.last_checkpoint_indexed = job[w]
    <3>1. metrics \in Metrics
      BY DEF CoreInv, TypeOK
    <3> QED
      BY <1>5, <3>1 DEF FinishCheckpoint, Load, Metrics
  <2>2. job[w] \in Nat /\ job[w] >= Load /\ job[w] < Load + MaxInProgress
    <3>1. pc[w] # "idle"
      BY <1>5 DEF FinishCheckpoint
    <3>2. job[w] \in Nat
      BY <3>1, HeldJob, SyncAssumption DEF Checkpoints
    <3>3. cursor \in Nat
      BY SyncAssumption DEF CoreInv, TypeOK
    <3> QED
      BY <1>1, <3>1, <3>2, <3>3 DEF JobsAreOpen
  <2>3. FinishedInReach'
    BY <1>1, <2>1, <2>2 DEF FinishedInReach
  <2>4. ASSUME NEW n \in finished' PROVE n < job[w] + MaxInProgress
    BY <1>1, <2>1, <2>2, SyncAssumption DEF FinishedInReach
  <2> QED
    BY <2>1, <2>3, <2>4 DEF IndexedGauge
<1> QED
  BY <1>2, <1>4, <1>5, GaugeKinds

-----------------------------------------------------------------------------
(* Theorems.                                                               *)

\* Every step preserves the invariant, one conjunct a lemma.
LEMMA CoreStep == CoreInv /\ [Next]_vars => CoreInv'
<1> SUFFICES ASSUME CoreInv, [Next]_vars PROVE CoreInv'
  OBVIOUS
<1> QED
  BY TypeStep, DownStep, JobsStep, RowsStep, AcceptedStep, FinishedStep,
     PresentStep, PairedStep, PoisonStep, GaugeStep DEF CoreInv

LEMMA NextInv == SyncInv /\ [Next]_vars => SyncInv'
  BY CoreStep, SavedStep DEF SyncInv

\* The inductive invariant holds in every reachable state.
THEOREM Invariance == Spec => []SyncInv
  BY InitInv, NextInv, PTL DEF Spec

\* Every variable keeps its type: no worker indexes past its rows, the stored
\* progress never runs past the chain.
THEOREM TypeCorrect == Spec => []TypeOK
  BY Invariance, PTL DEF SyncInv, CoreInv

\* The two tables agree row by row in every reachable state, whatever the
\* workers, failures, crashes and resets.
THEOREM TablesPaired == Spec => []PairedTables
  BY Invariance, PTL DEF SyncInv, CoreInv

\* No checkpoint with a rejected row is ever passed by the progress.
THEOREM PoisonBlocks == Spec => []PoisonNeverPassed
  BY Invariance, PTL DEF SyncInv, CoreInv

\* The gauge of the last checkpoint indexed never trails by a whole window.
THEOREM GaugeKeepsUp == Spec => []IndexedGauge
  BY Invariance, PTL DEF SyncInv, CoreInv

\* When what is saved is applied, it is present.
LEMMA SavedArePresent ==
    ASSUME CoreInv, Serving => 0 .. Load - 1 \subseteq applied
    PROVE  NoLostOutput
<1> SUFFICES ASSUME Serving, NEW n \in 0 .. Load - 1, NEW r \in RowsLeft(n),
                    \A m \in Checkpoints : r.id \notin Removals[m]
             PROVE  RowsOf(r.id) # {}
  BY DEF NoLostOutput
<1>1. PICK i \in DOMAIN Upserts[n] : r = Upserts[n][i]
  BY DEF RowsLeft
<1> QED
  BY <1>1 DEF CoreInv, RowsPresent, NeverRemoved

\* If --reset-db is the same at every start, no object created below the stored
\* progress and never removed is missing. (With a choice at each start it may
\* be: that is the run sync_reset_crash.)
THEOREM NothingLost ==
    ASSUME NoReset \/ AlwaysReset
    PROVE  Spec => []NoLostOutput
<1>1. SyncInv => NoLostOutput
  BY SavedArePresent DEF SyncInv, SavedAreApplied, Vouched
<1> QED
  BY <1>1, Invariance, PTL

-----------------------------------------------------------------------------
(* Without resets CheckpointSync implements SyncLog.                       *)

\* The initial state is an empty log.
LEMMA LogInit == Init => Log!Init
  BY SyncAssumption DEF Init, Log!Init, Load

\* Every step is a step of the log or leaves it alone.
LEMMA LogStep ==
    ASSUME SyncInv, [Next]_vars, NoReset
    PROVE  [Log!Next]_(Log!vars)
<1> USE SyncAssumption
<1>0. CoreInv /\ phase \notin {"revert_objects", "revert_progress"}
  BY DEF SyncInv, SavedAreApplied
<1>1. ASSUME NEW w \in Worker, FinishCheckpoint(w)
      PROVE  \E n \in 0 .. LastCheckpoint : Log!Apply(n)
  <2>1. job[w] \in Checkpoints
    BY <1>0, <1>1, HeldJob DEF FinishCheckpoint
  <2>2. Load \in Nat /\ Load' = Load
    BY <1>0, <1>1, LoadType DEF CoreInv, FinishCheckpoint, Load
  <2>3. job[w] >= Load /\ job[w] < Load + MaxInProgress
    BY <1>0, <1>1, <2>2 DEF CoreInv, JobsAreOpen, FinishCheckpoint
  <2>4. Log!Apply(job[w])
    BY <1>1, <2>2, <2>3 DEF FinishCheckpoint, Log!Apply
  <2> QED
    BY <2>1, <2>4 DEF Checkpoints
<1>2. ASSUME NEW n \in 1 .. LastCheckpoint + 1, SaveProgress(n)
      PROVE  Log!Record(n)
  <2>1. /\ Load \in Nat /\ Load' = n /\ n > Load /\ applied' = applied
        /\ \A k \in Nat : k >= Load /\ k < n => k \in finished
    BY <1>0, <1>2, LoadType DEF CoreInv, SaveProgress, Contiguous, Load, historyVars
  <2>2. \A k \in Nat : k < Load => k \in applied
    BY <2>1 DEF SyncInv, SavedAreApplied, Vouched
  <2>3. \A k \in Nat : k < n => k \in applied
    BY <1>0, <2>1, <2>2 DEF CoreInv, FinishedAreSound
  <2>4. n \in Nat
    OBVIOUS
  <2>5. 0 .. n - 1 \subseteq applied
    BY <2>3, <2>4, Below
  <2> QED
    BY <2>1, <2>5 DEF Log!Record
<1>3. \/ \E w \in Worker : FinishCheckpoint(w)
      \/ \E n \in 1 .. LastCheckpoint + 1 : SaveProgress(n)
      \/ UNCHANGED <<applied, last_checkpoint_sync>>
  BY <1>0 DEF Next, ProcessStep, vars, Start, RevertObjects, RevertProgress,
     InitIndexer, Crash, TakeCheckpoint, ReceiveCheckpoint, StoreTimestamp,
     InsertObject, RejectObject, RolledBack, DeleteObjects, OnError,
     DatabaseFails, Retry, SaveFails, historyVars
<1>4. ASSUME UNCHANGED <<applied, last_checkpoint_sync>>
      PROVE  UNCHANGED Log!vars
  BY <1>4 DEF Log!vars, Load
<1> QED
  BY <1>1, <1>2, <1>3, <1>4 DEF Log!Next

\* Workers, attempts, retries, crashes and replays together are an at-least-once
\* log: applied inside the window, never below the progress, recorded in order.
THEOREM Implementation ==
    ASSUME NoReset
    PROVE  Spec => ImplementsLog
<1>1. Init => Log!Init
  BY LogInit
<1>2. SyncInv /\ [Next]_vars => [Log!Next]_(Log!vars)
  BY LogStep
<1> QED
  BY <1>1, <1>2, Invariance, PTL DEF Spec, ImplementsLog, Log!Spec

-----------------------------------------------------------------------------
(* The counters of indexed outputs, which count the rows of an attempt     *)
(* that failed and of the one after it (worker.rs:97-110).                 *)

\* Attempts that ended in an error and have not been repeated yet.
FailedJobs ==
    { n \in Checkpoints : \E w \in Worker : pc[w] = "failed" /\ job[w] = n }

\* The most rows that a checkpoint has.
IsLongest(n) == /\ n \in Checkpoints
                /\ \A m \in Checkpoints : Len(Upserts[m]) <= Len(Upserts[n])
Longest == Len(Upserts[CHOOSE n : IsLongest(n)])

\* Before its first row an attempt is at none.
RowsReset == \A w \in Worker : pc[w] \in {"idle", "receive", "stamp"} => row[w] = 0

\* An attempt fails on a failure of its own.
FailuresPaid == Cardinality(FailedJobs) <= failures

\* A counter repeats at most the rows of one checkpoint for each failed attempt
\* that was repeated.
Explained(type) ==
    \E k \in Nat :
        /\ k <= (failures - Cardinality(FailedJobs)) * Longest
        /\ metrics.indexed_outputs_count[type]
             = (Cardinality(Committed(type)) + k) % CounterModulus

CounterInv ==
    /\ SyncInv
    /\ RowsReset
    /\ NothingPoisoned => /\ FailuresPaid
                          /\ \A type \in ObjectType : Explained(type)

\* Of the numbers f[0] .. f[k] one is the highest.
HasHighest(f, k) == \E n \in 0 .. k : \A m \in 0 .. k : f[m] <= f[n]

\* By the least k for which none were: f[k] is then above the highest before it.
LEMMA HighestExists ==
    ASSUME NEW k \in Nat, NEW f, \A m \in 0 .. k : f[m] \in Nat
    PROVE  HasHighest(f, k)
<1> DEFINE T == { j \in Nat : j <= k /\ ~HasHighest(f, j) }
<1>1. SUFFICES ASSUME T # {} PROVE FALSE
  OBVIOUS
<1>2. PICK j \in T : \A m \in T : ~(<<m, j>> \in OpToRel(<, Nat))
  BY <1>1, NatLessThanWellFounded, WFMin
<1>3. j \in Nat /\ j <= k /\ ~HasHighest(f, j)
  BY <1>2
<1>4. ~(j - 1 \in Nat /\ ~HasHighest(f, j - 1))
  <2>1. ASSUME j - 1 \in Nat, ~HasHighest(f, j - 1) PROVE FALSE
    <3>1. j - 1 \in T /\ j - 1 < j
      BY <1>3, <2>1
    <3> QED
      BY <1>2, <1>3, <3>1 DEF OpToRel
  <2> QED
    BY <2>1
<1> HIDE DEF T
<1>5. CASE j = 0
  <2>1. 0 .. j = {0} /\ f[0] \in Nat
    BY <1>5
  <2> QED
    BY <1>3, <2>1 DEF HasHighest
<1>6. CASE j # 0
  <2>1. j - 1 \in Nat /\ 0 .. j = (0 .. j - 1) \cup {j}
    BY <1>3, <1>6
  <2>2. PICK n \in 0 .. j - 1 : \A m \in 0 .. j - 1 : f[m] <= f[n]
    BY <1>4, <2>1 DEF HasHighest
  <2>3. /\ n \in 0 .. j /\ j \in 0 .. j
        /\ \A m \in 0 .. j : f[m] \in Nat
    BY <1>3, <2>1
  <2>4. (\A m \in 0 .. j : f[m] <= f[n]) \/ (\A m \in 0 .. j : f[m] <= f[j])
    BY <2>1, <2>2, <2>3
  <2> QED
    BY <1>3, <2>3, <2>4 DEF HasHighest
<1> QED
  BY <1>5, <1>6

\* So there is a longest checkpoint.
LEMMA LongestExists ==
    /\ \E n \in Checkpoints : Longest = Len(Upserts[n])
    /\ Longest \in Nat
    /\ \A m \in Checkpoints : Len(Upserts[m]) <= Longest
<1>1. \A m \in Checkpoints : Len(Upserts[m]) \in Nat
  BY SyncAssumption
<1>2. \E n : IsLongest(n)
  <2> DEFINE f == [m \in Checkpoints |-> Len(Upserts[m])]
  <2>1. \A m \in Checkpoints : f[m] = Len(Upserts[m]) /\ f[m] \in Nat
    BY <1>1
  <2> HIDE DEF f
  <2>2. HasHighest(f, LastCheckpoint)
    BY <2>1, HighestExists, SyncAssumption DEF Checkpoints
  <2> QED
    BY <2>1, <2>2 DEF HasHighest, IsLongest, Checkpoints
<1>3. IsLongest(CHOOSE n : IsLongest(n))
  BY <1>2
<1> QED
  BY <1>1, <1>3 DEF Longest, IsLongest

\* Counters wrap: what their arithmetic keeps, from division with remainder.
LEMMA Division ==
    ASSUME NEW M \in Nat \ {0}, NEW x \in Nat
    PROVE  \E q \in Int : x = M * q + (x % M)
<1>1. x = M * (x \div M) + (x % M) /\ x \div M \in Int
  OBVIOUS
<1> QED
  BY <1>1

\* A number has one remainder.
LEMMA OneRemainder ==
    ASSUME NEW M \in Nat \ {0}, NEW p \in Int, NEW q \in Int,
           NEW r \in 0 .. M - 1, NEW s \in 0 .. M - 1, M * p + r = M * q + s
    PROVE  r = s
<1> DEFINE d == p - q
<1>1. d \in Int /\ M * d = s - r
  OBVIOUS
<1> HIDE DEF d
<1>2. CASE d >= 1
  <2>1. M * d >= M
    BY <1>1, <1>2
  <2> QED
    BY <1>1, <2>1
<1>3. CASE d <= 0 - 1
  <2>1. M * d <= 0 - M
    BY <1>1, <1>3
  <2> QED
    BY <1>1, <2>1
<1>4. CASE d = 0
  <2>1. M * d = 0
    BY <1>4
  <2> QED
    BY <1>1, <2>1
<1> QED
  BY <1>1, <1>2, <1>3, <1>4

\* Wrapping early or late is the same, and a difference of wrapped numbers is
\* the wrapped difference.
LEMMA Modular ==
    ASSUME NEW M \in Nat \ {0}, NEW x \in Nat, NEW y \in Nat
    PROVE  /\ ((x % M) + y) % M = (x + y) % M
           /\ (((x + y) % M) + M - (x % M)) % M = y % M
<1> DEFINE r == x % M
           s == (x + y) % M
           u == (r + y) % M
           v == (s + M - r) % M
           w == y % M
<1>1. r \in 0 .. M - 1 /\ s \in 0 .. M - 1 /\ w \in 0 .. M - 1
  OBVIOUS
<1>2. r + y \in Nat /\ s + M - r \in Nat /\ x + y \in Nat
  BY <1>1
<1>3. u \in 0 .. M - 1 /\ v \in 0 .. M - 1
  <2>1. \A z \in Nat : z % M \in 0 .. M - 1
    OBVIOUS
  <2> HIDE DEF r, s
  <2> QED
    BY <1>2, <2>1
<1>4. PICK a \in Int : x = M * a + r
  BY Division
<1>5. PICK b \in Int : x + y = M * b + s
  BY <1>2, Division
<1>6. PICK c \in Int : r + y = M * c + u
  BY <1>2, Division
<1>7. PICK d \in Int : s + M - r = M * d + v
  BY <1>2, Division
<1>8. PICK e \in Int : y = M * e + w
  BY Division
<1> HIDE DEF r, s, u, v, w
<1>9. u = s
  <2>1. M * (a + c) + u = M * b + s
    BY <1>1, <1>3, <1>4, <1>5, <1>6
  <2>2. a + c \in Int
    OBVIOUS
  <2> QED
    BY <1>1, <1>3, <2>1, <2>2, OneRemainder
<1>10. v = w
  <2>1. M * (d + b - 1) + v = M * (e + a) + w
    BY <1>1, <1>3, <1>4, <1>5, <1>7, <1>8
  <2>2. d + b - 1 \in Int /\ e + a \in Int
    OBVIOUS
  <2> QED
    BY <1>1, <1>3, <2>1, <2>2, OneRemainder
<1> QED
  BY <1>9, <1>10 DEF r, s, u, v, w

\* With more failures there is room for more repetitions.
LEMMA Room ==
    ASSUME NEW L \in Nat, NEW d \in Int, NEW k \in Nat, k <= d * L
    PROVE  /\ \A e \in Int : e >= d => k <= e * L
           /\ \A j \in 0 .. L : j + k <= (d + 1) * L
<1>1. ASSUME NEW e \in Int, e >= d PROVE k <= e * L
  <2>1. e * L \in Int /\ d * L \in Int /\ e * L >= d * L
    BY <1>1
  <2> QED
    BY <2>1
<1>2. ASSUME NEW j \in 0 .. L PROVE j + k <= (d + 1) * L
  <2>1. d * L \in Int /\ (d + 1) * L = d * L + L
    OBVIOUS
  <2> QED
    BY <2>1
<1> QED
  BY <1>1, <1>2

\* A row to count is a row of a checkpoint.
LEMMA RowsOfTypeMembers ==
    ASSUME NEW type \in ObjectType
    PROVE  /\ \A p \in RowsOfType[type] :
                /\ p[1] \in Checkpoints /\ p[2] \in 1 .. Len(Upserts[p[1]])
                /\ p = <<p[1], p[2]>>
           /\ \A n \in Checkpoints : \A i \in 1 .. Len(Upserts[n]) :
                Upserts[n][i].object_type = type <=> <<n, i>> \in RowsOfType[type]
<1>1. \A n \in Checkpoints : DOMAIN Upserts[n] = 1 .. Len(Upserts[n])
  BY SyncAssumption
<1>2. \A p : p \in RowsOfType[type] <=>
        \E n \in Checkpoints : \E i \in 1 .. Len(Upserts[n]) :
           p = <<n, i>> /\ Upserts[n][i].object_type = type
  BY <1>1 DEF RowsOfType
<1> QED
  BY <1>2

\* There are finitely many of them.
LEMMA RowsAreFinite ==
    ASSUME NEW type \in ObjectType
    PROVE  IsFiniteSet(RowsOfType[type])
<1>1. /\ Longest \in Nat
      /\ \A m \in Checkpoints :
           Len(Upserts[m]) \in Nat /\ Len(Upserts[m]) <= Longest
  BY LongestExists, SyncAssumption
<1>2. RowsOfType[type] \subseteq Checkpoints \X (1 .. Longest)
  <2>1. ASSUME NEW p \in RowsOfType[type]
        PROVE  p \in Checkpoints \X (1 .. Longest)
    <3>1. /\ p[1] \in Checkpoints /\ p[2] \in 1 .. Len(Upserts[p[1]])
          /\ p = <<p[1], p[2]>>
      BY RowsOfTypeMembers
    <3>2. p[2] \in 1 .. Longest
      BY <1>1, <3>1
    <3> QED
      BY <3>1, <3>2
  <2> QED
    BY <2>1
<1>3. IsFiniteSet(Checkpoints) /\ IsFiniteSet(1 .. Longest)
  BY <1>1, FS_Interval, SyncAssumption DEF Checkpoints
<1>4. IsFiniteSet(Checkpoints \X (1 .. Longest))
  BY <1>3, FS_Product
<1> QED
  BY <1>2, <1>4, FS_Subset

\* So those committed can be counted, before and after a step.
LEMMA CommittedIsFinite ==
    ASSUME NEW type \in ObjectType
    PROVE  /\ IsFiniteSet(Committed(type)) /\ Cardinality(Committed(type)) \in Nat
           /\ IsFiniteSet(Committed(type)') /\ Cardinality(Committed(type)') \in Nat
  BY RowsAreFinite, FS_Subset, FS_CardinalityType DEF Committed

\* And so can the failed attempts, one for a checkpoint at most.
LEMMA FailedIsFinite ==
    /\ IsFiniteSet(FailedJobs) /\ Cardinality(FailedJobs) \in Nat
    /\ IsFiniteSet(FailedJobs') /\ Cardinality(FailedJobs)' \in Nat
<1>1. IsFiniteSet(Checkpoints)
  BY FS_Interval, SyncAssumption DEF Checkpoints
<1> QED
  BY <1>1, FS_Subset, FS_CardinalityType DEF FailedJobs

\* The counters, without the other metrics.
Counts == metrics.indexed_outputs_count

\* A step that leaves counters, rows passed and failed attempts alone.
NoCount ==
    /\ Counts' = Counts
    /\ finished' = finished
    /\ failures' \in {failures, failures + 1}
    /\ \A w \in Worker :
         /\ \/ job'[w] = job[w] /\ row'[w] = row[w]
            \/ row[w] \in {0, 1} /\ row'[w] \in {0, 1}
         /\ pc'[w] = "failed" <=> pc[w] = "failed"
         /\ pc[w] = "failed" => job'[w] = job[w]

\* Every step is of one of these kinds, as far as the counters are concerned.
LEMMA CountKinds ==
    ASSUME CoreInv, RowsReset, NothingPoisoned, [Next]_vars
    PROVE  \/ NoCount
           \/ Crash
           \/ \E w \in Worker : \/ InsertObject(w) \/ DatabaseFails(w)
                                \/ Retry(w) \/ FinishCheckpoint(w)
<1>1. /\ pc \in [Worker -> Control] /\ job \in [Worker -> Checkpoints \cup {None}]
      /\ row \in [Worker -> Nat] /\ metrics \in Metrics /\ failures \in Nat
  BY SyncAssumption DEF CoreInv, TypeOK
<1>2. CASE \/ \E reset \in ResetChoices : Start(reset)
           \/ RevertObjects \/ RevertProgress \/ InitIndexer
           \/ \E n \in 1 .. LastCheckpoint + 1 : SaveProgress(n)
           \/ SaveFails \/ UNCHANGED vars
  BY <1>1, <1>2 DEF NoCount, Counts, Start, RevertObjects, RevertProgress,
     InitIndexer, SaveProgress, SaveFails, vars, workerVars, poolVars,
     globalVars, boundVars
<1>3. ASSUME NEW w \in Worker, TakeCheckpoint(w) PROVE NoCount
  BY <1>1, <1>3 DEF NoCount, Counts, TakeCheckpoint, RowsReset, globalVars,
     boundVars
<1>4. ASSUME NEW w \in Worker, ReceiveCheckpoint(w) PROVE NoCount
  <2>1. job[w] \notin Unreadable
    <3>1. job[w] \in Checkpoints
      BY <1>4, HeldJob DEF ReceiveCheckpoint
    <3> QED
      BY <3>1 DEF NothingPoisoned, Poisoned
  <2>2. Counts' = Counts
    BY <1>1, <1>4 DEF Counts, ReceiveCheckpoint, Received, Metrics
  <2>3. /\ pc' = [pc EXCEPT ![w] = "stamp"] /\ pc[w] = "receive"
        /\ UNCHANGED <<job, row, finished, failures>>
    BY <1>4, <2>1 DEF ReceiveCheckpoint, poolVars, boundVars
  <2> QED
    BY <1>1, <2>2, <2>3 DEF NoCount
<1>5. ASSUME NEW w \in Worker, StoreTimestamp(w) PROVE NoCount
  BY <1>1, <1>5 DEF NoCount, Counts, StoreTimestamp, RowsReset, AfterInserts,
     poolVars, boundVars
<1>6. ASSUME NEW w \in Worker, RejectObject(w) PROVE FALSE
  BY <1>6, CurrentRow DEF RejectObject, NothingPoisoned, Poisoned
<1>7. ASSUME NEW w \in Worker, DeleteObjects(w) PROVE NoCount
  BY <1>1, <1>7 DEF NoCount, Counts, DeleteObjects, poolVars, globalVars,
     boundVars
<1> QED
  BY <1>2, <1>3, <1>4, <1>5, <1>6, <1>7 DEF Next, ProcessStep

\* An attempt begins at no row, the first one and every retry.
LEMMA ResetStep ==
    ASSUME CoreInv, RowsReset, [Next]_vars
    PROVE  RowsReset'
<1>1. /\ pc \in [Worker -> Control] /\ row \in [Worker -> Nat]
  BY DEF CoreInv, TypeOK
<1>2. CASE \/ \E reset \in ResetChoices : Start(reset)
           \/ RevertObjects \/ RevertProgress \/ InitIndexer
           \/ \E n \in 1 .. LastCheckpoint + 1 : SaveProgress(n)
           \/ SaveFails \/ UNCHANGED vars
  BY <1>1, <1>2 DEF RowsReset, Start, RevertObjects, RevertProgress,
     InitIndexer, SaveProgress, SaveFails, vars, workerVars
<1>3. CASE Crash
  BY <1>3 DEF Crash, ForgetMemory, RowsReset
<1>4. ASSUME NEW w \in Worker,
             \/ TakeCheckpoint(w) \/ ReceiveCheckpoint(w) \/ StoreTimestamp(w)
             \/ DeleteObjects(w) \/ RejectObject(w) \/ DatabaseFails(w)
      PROVE  RowsReset'
  BY <1>1, <1>4 DEF RowsReset, TakeCheckpoint, ReceiveCheckpoint,
     StoreTimestamp, DeleteObjects, RejectObject, DatabaseFails, AfterInserts,
     OnError
<1>5. ASSUME NEW w \in Worker, InsertObject(w) PROVE RowsReset'
  BY <1>1, <1>5 DEF RowsReset, InsertObject, AfterInserts
<1>6. ASSUME NEW w \in Worker, FinishCheckpoint(w) \/ Retry(w) PROVE RowsReset'
  BY <1>1, <1>6 DEF RowsReset, FinishCheckpoint, Retry
<1> QED
  BY <1>2, <1>3, <1>4, <1>5, <1>6 DEF Next, ProcessStep

\* A row is committed if its checkpoint is finished, or if an attempt is past it.
LEMMA CommittedRow ==
    ASSUME NEW type \in ObjectType, NEW p \in RowsOfType[type]
    PROVE  /\ p \in Committed(type) <=>
                \/ p[1] \in finished
                \/ \E w \in Worker : job[w] = p[1] /\ p[2] < row[w]
           /\ p \in Committed(type)' <=>
                \/ p[1] \in finished'
                \/ \E w \in Worker : job'[w] = p[1] /\ p[2] < row'[w]
           /\ p[1] \in Checkpoints /\ p[2] \in Nat /\ p[2] >= 1
           /\ p[2] <= Len(Upserts[p[1]]) /\ Len(Upserts[p[1]]) \in Nat
           /\ p = <<p[1], p[2]>>
<1>1. /\ p[1] \in Checkpoints /\ p[2] \in 1 .. Len(Upserts[p[1]])
      /\ p = <<p[1], p[2]>>
  BY RowsOfTypeMembers
<1>2. Len(Upserts[p[1]]) \in Nat
  BY <1>1, SyncAssumption
<1> QED
  BY <1>1, <1>2 DEF Committed

\* Only a counting step changes what is committed.
LEMMA NoCountCommitted ==
    ASSUME CoreInv, NoCount
    PROVE  /\ \A type \in ObjectType : Committed(type)' = Committed(type)
           /\ FailedJobs' = FailedJobs
<1>1. row \in [Worker -> Nat]
  BY DEF CoreInv, TypeOK
<1>2. ASSUME NEW type \in ObjectType, NEW p \in RowsOfType[type]
      PROVE  p \in Committed(type)' <=> p \in Committed(type)
  <2>1. \A w \in Worker :
          (job'[w] = p[1] /\ p[2] < row'[w]) <=> (job[w] = p[1] /\ p[2] < row[w])
    BY <1>2, CommittedRow DEF NoCount
  <2> QED
    BY <1>2, <2>1, CommittedRow DEF NoCount
<1>3. \A type \in ObjectType :
        /\ Committed(type) \subseteq RowsOfType[type]
        /\ Committed(type)' \subseteq RowsOfType[type]
  BY DEF Committed
<1>4. FailedJobs' = FailedJobs
  BY DEF FailedJobs, NoCount
<1> QED
  BY <1>2, <1>3, <1>4

\* No other worker passes rows of a checkpoint that a worker is at.
LEMMA NobodyElse ==
    ASSUME CoreInv, RowsReset, NEW w \in Worker, pc[w] # "idle"
    PROVE  /\ job[w] \in Checkpoints /\ job[w] \notin finished
           /\ \A v \in Worker : \A i \in Nat :
                i >= 1 /\ job[v] = job[w] /\ i < row[v] => v = w
           /\ \A v \in Worker : pc[v] # "idle" /\ job[v] = job[w] => v = w
<1>1. /\ row \in [Worker -> Nat]
      /\ \A v \in Worker : pc[v] # "idle" /\ job[v] = job[w] => v = w
      /\ job[w] \notin finished
  BY DEF CoreInv, TypeOK, JobsAreOpen
<1>2. \A v \in Worker : pc[v] = "idle" => row[v] = 0
  BY DEF RowsReset
<1> QED
  BY <1>1, <1>2, HeldJob

\* The rows of an attempt that finishes stay committed: all of its checkpoint.
LEMMA FinishCommitted ==
    ASSUME CoreInv, RowsReset, NEW w \in Worker, FinishCheckpoint(w)
    PROVE  /\ \A type \in ObjectType : Committed(type)' = Committed(type)
           /\ FailedJobs' = FailedJobs
           /\ Counts' = Counts /\ failures' = failures
<1>1. /\ row \in [Worker -> Nat] /\ metrics \in Metrics
      /\ pc \in [Worker -> Control] /\ job \in [Worker -> Checkpoints \cup {None}]
  BY DEF CoreInv, TypeOK
<1>2. /\ pc[w] = "finish" /\ row[w] = Len(Upserts[job[w]]) + 1
      /\ job' = [job EXCEPT ![w] = None] /\ row' = [row EXCEPT ![w] = 0]
      /\ finished' = finished \cup {job[w]} /\ pc' = [pc EXCEPT ![w] = "idle"]
      /\ failures' = failures
  BY DEF FinishCheckpoint, CoreInv, RowsInOrder, boundVars
<1>3. ASSUME NEW type \in ObjectType, NEW p \in RowsOfType[type]
      PROVE  p \in Committed(type)' <=> p \in Committed(type)
  <2>1. /\ p[2] \in Nat /\ p[2] >= 1 /\ Len(Upserts[p[1]]) \in Nat
        /\ p[2] < Len(Upserts[p[1]]) + 1
    BY <1>3, CommittedRow
  <2>2. p[1] = job[w] => p \in Committed(type) /\ p \in Committed(type)'
    BY <1>2, <1>3, <2>1, CommittedRow
  <2>3. ASSUME p[1] # job[w], NEW v \in Worker
        PROVE  (job'[v] = p[1] /\ p[2] < row'[v])
                 <=> (job[v] = p[1] /\ p[2] < row[v])
    BY <1>1, <1>2, <2>1, <2>3
  <2>4. p[1] # job[w] => (p[1] \in finished' <=> p[1] \in finished)
    BY <1>2
  <2> QED
    BY <1>3, <2>2, <2>3, <2>4, CommittedRow
<1>4. \A type \in ObjectType :
        /\ Committed(type) \subseteq RowsOfType[type]
        /\ Committed(type)' \subseteq RowsOfType[type]
  BY DEF Committed
<1>5. FailedJobs' = FailedJobs
  BY <1>1, <1>2 DEF FailedJobs
<1>6. Counts' = Counts
  BY <1>1 DEF Counts, FinishCheckpoint, Metrics
<1> QED
  BY <1>2, <1>3, <1>4, <1>5, <1>6

\* An insertion commits one row more, and counts it.
LEMMA InsertCommitted ==
    ASSUME CoreInv, RowsReset, NEW w \in Worker, InsertObject(w),
           NEW type \in ObjectType
    PROVE  /\ FailedJobs' = FailedJobs /\ failures' = failures
           /\ \/ /\ Committed(type)' = Committed(type)
                 /\ Counts'[type] = Counts[type]
              \/ /\ Cardinality(Committed(type)') = Cardinality(Committed(type)) + 1
                 /\ Counts'[type] = (Counts[type] + 1) % CounterModulus
<1> DEFINE n == job[w]
           i == row[w]
<1>1. /\ row \in [Worker -> Nat] /\ metrics \in Metrics
      /\ pc \in [Worker -> Control] /\ job \in [Worker -> Checkpoints \cup {None}]
  BY DEF CoreInv, TypeOK
<1>2. /\ n \in Checkpoints /\ i \in 1 .. Len(Upserts[n])
      /\ Upserts[n][i].object_type \in ObjectType
  BY CurrentRow DEF InsertObject, StoredObject
<1>3. /\ pc[w] = "insert" /\ row' = [row EXCEPT ![w] = i + 1]
      /\ UNCHANGED <<job, finished, failures>>
      /\ pc' \in [Worker -> Control]
      /\ pc'[w] # "failed" /\ \A v \in Worker \ {w} : pc'[v] = pc[v]
  BY <1>1 DEF InsertObject, AfterInserts, poolVars, boundVars, Control
<1>4. Counts' = [Counts EXCEPT ![Upserts[n][i].object_type] =
                                (@ + 1) % CounterModulus]
  BY <1>1 DEF Counts, InsertObject, Metrics
<1>5. /\ Counts \in [ObjectType -> 0 .. CounterModulus - 1]
  BY <1>1 DEF Metrics, Counts
<1>6. i \in Nat /\ i >= 1
  BY <1>2
<1>7. /\ n \notin finished
      /\ \A v \in Worker : \A k \in Nat :
           k >= 1 /\ job[v] = n /\ k < row[v] => v = w
  BY <1>3, NobodyElse
<1>8. ASSUME NEW p \in RowsOfType[type]
      PROVE  p \in Committed(type)' <=> p \in Committed(type) \/ p = <<n, i>>
  <2>1. /\ p[2] \in Nat /\ p[2] >= 1 /\ p = <<p[1], p[2]>>
    BY <1>8, CommittedRow
  <2>2. /\ p \in Committed(type)' <=>
             \/ p[1] \in finished
             \/ \E v \in Worker : job[v] = p[1] /\ p[2] < row'[v]
        /\ p \in Committed(type) <=>
             \/ p[1] \in finished
             \/ \E v \in Worker : job[v] = p[1] /\ p[2] < row[v]
    BY <1>3, <1>8, CommittedRow
  <2>3. \A v \in Worker : p[2] < row'[v] <=>
            p[2] < row[v] \/ (v = w /\ p[2] = i)
    BY <1>1, <1>3, <1>6, <2>1
  <2>4. p = <<n, i>> <=> p[1] = n /\ p[2] = i
    BY <2>1
  <2> HIDE DEF n, i
  <2>5. job[w] = n
    BY DEF n
  <2> QED
    BY <2>2, <2>3, <2>4, <2>5
<1>9. /\ Committed(type) \subseteq RowsOfType[type]
      /\ Committed(type)' \subseteq RowsOfType[type]
  BY DEF Committed
<1>10. FailedJobs' = FailedJobs
  BY <1>3 DEF FailedJobs
<1>11. CASE Upserts[n][i].object_type = type
  <2>1. <<n, i>> \in RowsOfType[type]
    BY <1>2, <1>11, RowsOfTypeMembers
  <2>2. <<n, i>> \notin Committed(type)
    <3>1. <<n, i>>[1] = n /\ <<n, i>>[2] = i
      OBVIOUS
    <3>2. ~(i < row[w])
      BY <1>6
    <3> QED
      BY <1>6, <1>7, <2>1, <3>1, <3>2, CommittedRow
  <2>3. Committed(type)' = Committed(type) \cup {<<n, i>>}
    BY <1>8, <1>9, <2>1
  <2>4. Cardinality(Committed(type)') = Cardinality(Committed(type)) + 1
    BY <2>2, <2>3, CommittedIsFinite, FS_AddElement
  <2>5. Counts'[type] = (Counts[type] + 1) % CounterModulus
    BY <1>4, <1>5, <1>11
  <2> QED
    BY <1>3, <1>10, <2>4, <2>5
<1>12. CASE Upserts[n][i].object_type # type
  <2>1. <<n, i>> \notin RowsOfType[type]
    BY <1>2, <1>12, RowsOfTypeMembers
  <2>2. Committed(type)' = Committed(type)
    BY <1>8, <1>9, <2>1
  <2>3. Counts'[type] = Counts[type]
    BY <1>2, <1>4, <1>5, <1>12
  <2> QED
    BY <1>3, <1>10, <2>2, <2>3
<1> QED
  BY <1>11, <1>12

\* A database call that fails leaves the rows the attempt has passed counted.
LEMMA FailureCommitted ==
    ASSUME CoreInv, RowsReset, NEW w \in Worker, DatabaseFails(w)
    PROVE  /\ \A type \in ObjectType : Committed(type)' = Committed(type)
           /\ Cardinality(FailedJobs)' = Cardinality(FailedJobs) + 1
           /\ Counts' = Counts /\ failures' = failures + 1
<1>1. /\ pc \in [Worker -> Control] /\ pc[w] \in {"insert", "delete"}
      /\ pc' = [pc EXCEPT ![w] = "failed"]
      /\ UNCHANGED <<job, row, finished, metrics>> /\ failures' = failures + 1
  BY DEF CoreInv, TypeOK, DatabaseFails, OnError, poolVars, globalVars
<1>2. /\ job[w] \in Checkpoints
      /\ \A v \in Worker : pc[v] # "idle" /\ job[v] = job[w] => v = w
  BY <1>1, NobodyElse
<1>3. job[w] \notin FailedJobs /\ FailedJobs' = FailedJobs \cup {job[w]}
  BY <1>1, <1>2 DEF FailedJobs
<1>4. Cardinality(FailedJobs') = Cardinality(FailedJobs) + 1
  BY <1>3, FailedIsFinite, FS_AddElement
<1> QED
  BY <1>1, <1>4 DEF Committed, Counts

\* A retry is one failed attempt less.
LEMMA RetryFailed ==
    ASSUME CoreInv, RowsReset, NEW w \in Worker, Retry(w)
    PROVE  Cardinality(FailedJobs) = Cardinality(FailedJobs)' + 1
           /\ failures' = failures
<1>1. /\ pc \in [Worker -> Control] /\ pc[w] = "failed"
      /\ pc' = [pc EXCEPT ![w] = "receive"] /\ UNCHANGED <<job, failures>>
  BY DEF CoreInv, TypeOK, Retry, boundVars
<1>2. /\ job[w] \in Checkpoints
      /\ \A v \in Worker : pc[v] # "idle" /\ job[v] = job[w] => v = w
  BY <1>1, NobodyElse
<1>3. job[w] \in FailedJobs /\ FailedJobs' = FailedJobs \ {job[w]}
  BY <1>1, <1>2 DEF FailedJobs
<1>4. Cardinality(FailedJobs') = Cardinality(FailedJobs) - 1
  BY <1>3, FailedIsFinite, FS_RemoveElement
<1> QED
  BY <1>1, <1>4, FailedIsFinite

\* The next attempt starts over: at most the rows of its checkpoint are counted
\* again.
LEMMA RetryCommitted ==
    ASSUME CoreInv, RowsReset, NEW w \in Worker, Retry(w),
           NEW type \in ObjectType
    PROVE  /\ \E k \in 0 .. Longest :
                Cardinality(Committed(type)) = Cardinality(Committed(type)') + k
           /\ Counts' = Counts
<1> DEFINE n == job[w]
           Lost == { p \in Committed(type) : p[1] = n }
<1>1. /\ pc \in [Worker -> Control] /\ pc[w] = "failed" /\ row \in [Worker -> Nat]
      /\ pc' = [pc EXCEPT ![w] = "receive"] /\ row' = [row EXCEPT ![w] = 0]
      /\ UNCHANGED <<job, finished, metrics, failures>>
  BY DEF CoreInv, TypeOK, Retry, poolVars, globalVars, boundVars
<1>2. /\ n \in Checkpoints /\ n \notin finished
      /\ \A v \in Worker : \A i \in Nat :
           i >= 1 /\ job[v] = n /\ i < row[v] => v = w
      /\ \A v \in Worker : pc[v] # "idle" /\ job[v] = n => v = w
  BY <1>1, NobodyElse
<1>5. ASSUME NEW p \in RowsOfType[type]
      PROVE  p \in Committed(type)' <=> p \in Committed(type) /\ p[1] # n
  <2>1. /\ p[2] \in Nat /\ p[2] >= 1
        /\ p \in Committed(type)' <=>
             \/ p[1] \in finished
             \/ \E v \in Worker : job[v] = p[1] /\ p[2] < row'[v]
        /\ p \in Committed(type) <=>
             \/ p[1] \in finished
             \/ \E v \in Worker : job[v] = p[1] /\ p[2] < row[v]
    BY <1>1, <1>5, CommittedRow
  <2>2. \A v \in Worker : p[2] < row'[v] <=> p[2] < row[v] /\ v # w
    BY <1>1, <2>1
  <2> QED
    BY <1>2, <2>1, <2>2
<1>6. Committed(type)' = Committed(type) \ Lost
  <2>1. /\ Committed(type) \subseteq RowsOfType[type]
        /\ Committed(type)' \subseteq RowsOfType[type]
    BY DEF Committed
  <2> QED
    BY <1>5, <2>1
<1>7. Len(Upserts[n]) \in Nat /\ Len(Upserts[n]) <= Longest /\ Longest \in Nat
  BY <1>2, LongestExists, SyncAssumption
<1>8. IsFiniteSet(Lost) /\ Cardinality(Lost) \in 0 .. Longest
  <2>1. Lost \subseteq {n} \X (1 .. Len(Upserts[n]))
    <3>1. ASSUME NEW p \in Lost PROVE p \in {n} \X (1 .. Len(Upserts[n]))
      <4>1. p \in RowsOfType[type] /\ p[1] = n
        BY <3>1 DEF Committed
      <4> QED
        BY <4>1, RowsOfTypeMembers
    <3> QED
      BY <3>1
  <2>2. \A x : \A l \in Nat : /\ IsFiniteSet({x} \X (1 .. l))
                             /\ Cardinality({x} \X (1 .. l)) = l
    <3> SUFFICES ASSUME NEW x, NEW l \in Nat
                 PROVE  /\ IsFiniteSet({x} \X (1 .. l))
                        /\ Cardinality({x} \X (1 .. l)) = l
      OBVIOUS
    <3> DEFINE S == 1 .. l
    <3>1. IsFiniteSet({x}) /\ Cardinality({x}) = 1
      BY FS_Singleton
    <3>2. IsFiniteSet(S) /\ Cardinality(S) = l
      BY FS_Interval
    <3> HIDE DEF S
    <3>3. IsFiniteSet({x} \X S) /\ Cardinality({x} \X S) = 1 * l
      BY <3>1, <3>2, FS_Product
    <3> QED
      BY <3>3 DEF S
  <2>3. IsFiniteSet(Lost) /\ Cardinality(Lost) <= Len(Upserts[n])
    <3> DEFINE S == {n} \X (1 .. Len(Upserts[n]))
    <3>1. IsFiniteSet(S) /\ Cardinality(S) = Len(Upserts[n])
      BY <1>7, <2>2
    <3>2. Lost \in SUBSET S
      BY <2>1
    <3> HIDE DEF S, Lost
    <3> QED
      BY <3>1, <3>2, FS_Subset
  <2>4. Cardinality(Lost) \in Nat
    BY <2>3, FS_CardinalityType
  <2> QED
    BY <1>7, <2>3, <2>4
<1>9. Cardinality(Committed(type)')
        = Cardinality(Committed(type)) - Cardinality(Lost)
  <2>1. Committed(type) \cap Lost = Lost
    OBVIOUS
  <2> HIDE DEF Lost
  <2> QED
    BY <1>6, <2>1, CommittedIsFinite, FS_Difference
<1> HIDE DEF Lost, n
<1>10. Cardinality(Committed(type))
         = Cardinality(Committed(type)') + Cardinality(Lost)
  BY <1>7, <1>8, <1>9, CommittedIsFinite
<1> QED
  BY <1>1, <1>8, <1>10 DEF Counts

\* Nothing is counted at first.
LEMMA CounterInit == Init => CounterInv
<1> SUFFICES ASSUME Init PROVE CounterInv
  OBVIOUS
<1>1. SyncInv /\ RowsReset
  BY InitInv DEF Init, RowsReset
<1>2. FailedJobs = {} /\ Cardinality(FailedJobs) = 0
  BY FS_EmptySet DEF Init, FailedJobs
<1>3. ASSUME NEW type \in ObjectType PROVE Explained(type)
  <2>1. Committed(type) = {} /\ Cardinality(Committed(type)) = 0
    <3>1. \A p \in RowsOfType[type] : ~(p \in Committed(type))
      BY CommittedRow DEF Init
    <3> QED
      BY <3>1, FS_EmptySet DEF Committed
  <2>2. metrics.indexed_outputs_count[type] = 0 /\ failures = 0
    BY DEF Init, NoMetrics
  <2>3. (0 + 0) % CounterModulus = 0 /\ 0 <= (0 - 0) * Longest
    BY LongestExists, SyncAssumption
  <2>4. \E k \in Nat : k = 0
    OBVIOUS
  <2> QED
    BY <1>2, <2>1, <2>2, <2>3, <2>4 DEF Explained
<1> QED
  BY <1>1, <1>2, <1>3 DEF CounterInv, FailuresPaid, Init

\* Every step preserves the invariant: a failure makes room for the rows that
\* its retry will count again.
LEMMA CounterStep ==
    ASSUME CounterInv, [Next]_vars
    PROVE  CounterInv'
<1>1. CoreInv /\ RowsReset /\ SyncInv' /\ RowsReset'
  BY NextInv, ResetStep DEF CounterInv, SyncInv
<1> SUFFICES ASSUME NothingPoisoned
             PROVE  FailuresPaid' /\ \A type \in ObjectType : Explained(type)'
  BY <1>1 DEF CounterInv, NothingPoisoned, Poisoned, HasExpiration
<1> DEFINE failed == Cardinality(FailedJobs)
<1>2. /\ failed \in Nat /\ failed' \in Nat /\ failed <= failures
      /\ failures \in Nat /\ failures' \in Nat /\ Longest \in Nat
      /\ CounterModulus \in Nat \ {0}
  BY <1>1, FailedIsFinite, LongestExists, SyncAssumption
     DEF CounterInv, FailuresPaid, SyncInv, CoreInv, TypeOK
<1>3. /\ \A type \in ObjectType : \E k \in Nat :
           /\ k <= (failures - failed) * Longest
           /\ Counts[type] = (Cardinality(Committed(type)) + k) % CounterModulus
      /\ \A type \in ObjectType : Explained(type)' <=> \E k \in Nat :
           /\ k <= (failures' - failed') * Longest
           /\ Counts'[type] = (Cardinality(Committed(type)') + k) % CounterModulus
  BY DEF CounterInv, Explained, Counts
<1>4. \A type \in ObjectType : /\ Cardinality(Committed(type)) \in Nat
                               /\ Cardinality(Committed(type)') \in Nat
  BY CommittedIsFinite
<1> HIDE DEF failed
\* The same rows and counters, and no less room for repetition.
<1>5. ASSUME NEW type \in ObjectType,
             Cardinality(Committed(type)') = Cardinality(Committed(type)),
             Counts'[type] = Counts[type],
             failures' - failed' >= failures - failed
      PROVE  Explained(type)'
  <2>2. PICK k \in Nat : /\ k <= (failures - failed) * Longest
                         /\ Counts[type] = (Cardinality(Committed(type)) + k)
                                             % CounterModulus
    BY <1>3
  <2>3. failures - failed \in Int /\ failures' - failed' \in Int
    BY <1>2
  <2>4. k <= (failures' - failed') * Longest
    BY <1>2, <1>5, <2>2, <2>3, Room
  <2> QED
    BY <1>3, <1>5, <2>2, <2>4
<1>6. CASE NoCount
  <2>1. /\ FailedJobs' = FailedJobs
        /\ \A type \in ObjectType : Committed(type)' = Committed(type)
    BY <1>1, <1>6, NoCountCommitted
  <2>2. /\ failed' = failed /\ failures' - failed' >= failures - failed
        /\ failed' <= failures'
    BY <1>2, <1>6, <2>1 DEF NoCount, failed
  <2> QED
    BY <1>5, <1>6, <2>1, <2>2 DEF NoCount, FailuresPaid, failed
<1>7. CASE Crash
  <2>1. /\ finished' = {} /\ pc' = [w \in Worker |-> "idle"]
        /\ row' = [w \in Worker |-> 0] /\ metrics' = NoMetrics
    BY <1>7 DEF Crash, ForgetMemory
  <2>2. FailedJobs' = {} /\ failed' = 0
    BY <2>1, FS_EmptySet DEF FailedJobs, failed
  <2>3. ASSUME NEW type \in ObjectType PROVE Explained(type)'
    <3>1. Committed(type)' = {} /\ Cardinality(Committed(type)') = 0
      <4>1. \A p \in RowsOfType[type] : ~(p \in Committed(type)')
        BY <2>1, CommittedRow
      <4> QED
        BY <4>1, FS_EmptySet DEF Committed
    <3>2. Counts'[type] = 0
      BY <2>1 DEF NoMetrics, Counts
    <3>3. 0 <= (failures' - 0) * Longest /\ (0 + 0) % CounterModulus = 0
      <4>1. \A f, l \in Nat : 0 <= (f - 0) * l
        OBVIOUS
      <4>2. \A m \in Nat \ {0} : (0 + 0) % m = 0
        OBVIOUS
      <4> QED
        BY <1>2, <4>1, <4>2
    <3> QED
      BY <1>3, <2>2, <3>1, <3>2, <3>3
  <2> QED
    BY <1>2, <2>2, <2>3 DEF FailuresPaid, failed
<1>8. ASSUME NEW w \in Worker, FinishCheckpoint(w)
      PROVE  FailuresPaid' /\ \A type \in ObjectType : Explained(type)'
  <2>1. /\ \A type \in ObjectType : Committed(type)' = Committed(type)
        /\ FailedJobs' = FailedJobs /\ Counts' = Counts /\ failures' = failures
    BY <1>1, <1>8, FinishCommitted
  <2>2. /\ failed' = failed /\ failures' - failed' >= failures - failed
        /\ failed' <= failures'
    BY <1>2, <2>1 DEF failed
  <2> QED
    BY <1>5, <2>1, <2>2 DEF FailuresPaid, failed
<1>9. ASSUME NEW w \in Worker, DatabaseFails(w)
      PROVE  FailuresPaid' /\ \A type \in ObjectType : Explained(type)'
  <2>1. /\ \A type \in ObjectType : Committed(type)' = Committed(type)
        /\ failed' = failed + 1 /\ Counts' = Counts /\ failures' = failures + 1
    BY <1>1, <1>9, FailureCommitted DEF failed
  <2>2. failures' - failed' >= failures - failed /\ failed' <= failures'
    BY <1>2, <2>1
  <2> QED
    BY <1>5, <2>1, <2>2 DEF FailuresPaid, failed
<1>10. ASSUME NEW w \in Worker, InsertObject(w)
       PROVE  FailuresPaid' /\ \A type \in ObjectType : Explained(type)'
  <2>1. ASSUME NEW type \in ObjectType
        PROVE  failed' = failed /\ failures' = failures /\ Explained(type)'
    <3>1. /\ failed' = failed /\ failures' = failures
          /\ \/ /\ Committed(type)' = Committed(type)
                /\ Counts'[type] = Counts[type]
             \/ /\ Cardinality(Committed(type)') = Cardinality(Committed(type)) + 1
                /\ Counts'[type] = (Counts[type] + 1) % CounterModulus
      BY <1>1, <1>10, InsertCommitted DEF failed
    <3>2. failures' - failed' >= failures - failed
      BY <1>2, <3>1
    <3>3. CASE Cardinality(Committed(type)') = Cardinality(Committed(type)) + 1
               /\ Counts'[type] = (Counts[type] + 1) % CounterModulus
      <4>1. PICK k \in Nat :
              /\ k <= (failures - failed) * Longest
              /\ Counts[type] = (Cardinality(Committed(type)) + k) % CounterModulus
        BY <1>3
      <4>2. Cardinality(Committed(type)) + k \in Nat
        BY <1>4
      <4>3. Counts'[type] = ((Cardinality(Committed(type)) + k) + 1)
                              % CounterModulus
        <5>1. \A x \in Nat : ((x % CounterModulus) + 1) % CounterModulus
                                = (x + 1) % CounterModulus
          <6>1. 1 \in Nat
            OBVIOUS
          <6> QED
            BY <1>2, <6>1, Modular, Zenon
        <5>2. Counts'[type] = (((Cardinality(Committed(type)) + k)
                                  % CounterModulus) + 1) % CounterModulus
          BY <3>3, <4>1
        <5> QED
          BY <4>2, <5>1, <5>2
      <4>4. (Cardinality(Committed(type)) + k) + 1
              = Cardinality(Committed(type)') + k
        BY <1>4, <3>3
      <4> QED
        BY <1>3, <3>1, <4>1, <4>3, <4>4
    <3> QED
      BY <1>5, <3>1, <3>2, <3>3
  <2>2. failed' = failed /\ failures' = failures
    <3>1. Upserts[job[w]][row[w]].object_type \in ObjectType
      BY <1>1, <1>10, CurrentRow DEF InsertObject, StoredObject
    <3> QED
      BY <2>1, <3>1
  <2> QED
    BY <1>2, <2>1, <2>2 DEF FailuresPaid, failed
<1>11. ASSUME NEW w \in Worker, Retry(w)
       PROVE  FailuresPaid' /\ \A type \in ObjectType : Explained(type)'
  <2>1. ASSUME NEW type \in ObjectType
        PROVE  failed = failed' + 1 /\ failures' = failures /\ Explained(type)'
    <3>1. PICK j \in 0 .. Longest :
            Cardinality(Committed(type)) = Cardinality(Committed(type)') + j
      BY <1>1, <1>11, RetryCommitted
    <3>2. failed = failed' + 1 /\ failures' = failures /\ Counts' = Counts
      BY <1>1, <1>11, RetryCommitted, RetryFailed DEF failed
    <3>3. PICK k \in Nat :
            /\ k <= (failures - failed) * Longest
            /\ Counts[type] = (Cardinality(Committed(type)) + k) % CounterModulus
      BY <1>3
    <3>4. /\ j \in Nat /\ j <= Longest /\ j + k \in Nat
          /\ Cardinality(Committed(type)) + k
               = Cardinality(Committed(type)') + (j + k)
      BY <1>2, <1>4, <3>1
    <3>5. j + k <= (failures' - failed') * Longest
      <4>1. /\ failures' - failed' = (failures - failed) + 1
            /\ failures - failed \in Int
        BY <1>2, <3>2
      <4> QED
        BY <1>2, <3>1, <3>3, <4>1, Room
    <3> QED
      BY <1>3, <3>2, <3>3, <3>4, <3>5
  <2>2. failed = failed' + 1 /\ failures' = failures
    BY <1>1, <1>11, RetryFailed DEF failed
  <2> QED
    BY <1>2, <2>1, <2>2 DEF FailuresPaid, failed
<1> QED
  BY <1>1, <1>6, <1>7, <1>8, <1>9, <1>10, <1>11, CountKinds

\* The inductive invariant of the counters holds in every reachable state.
THEOREM CountersInvariance == Spec => []CounterInv
  BY CounterInit, CounterStep, PTL DEF Spec

\* The counters of indexed outputs miss no row, and repeat at most the rows of one
\* checkpoint for each failure, whatever the workers and the chain.
THEOREM CountersKeepUp == Spec => []CountersCountRows
<1>1. CounterInv => CountersCountRows
  <2> SUFFICES ASSUME CounterInv, NothingPoisoned
               PROVE  \E n \in Checkpoints : \A type \in ObjectType :
                        Repeated(type) <= failures * Len(Upserts[n])
    BY DEF CountersCountRows
  <2>1. PICK n \in Checkpoints : Longest = Len(Upserts[n])
    BY LongestExists
  <2>2. ASSUME NEW type \in ObjectType PROVE Repeated(type) <= failures * Longest
    <3>1. /\ Cardinality(FailedJobs) \in Nat /\ failures \in Nat /\ Longest \in Nat
          /\ CounterModulus \in Nat \ {0} /\ Cardinality(Committed(type)) \in Nat
      BY FailedIsFinite, CommittedIsFinite, LongestExists, SyncAssumption
         DEF CounterInv, SyncInv, CoreInv, TypeOK
    <3>2. PICK k \in Nat :
            /\ k <= (failures - Cardinality(FailedJobs)) * Longest
            /\ Counts[type] = (Cardinality(Committed(type)) + k) % CounterModulus
      BY DEF CounterInv, Explained, Counts
    <3>3. Repeated(type) = k % CounterModulus
      <4> DEFINE c == Cardinality(Committed(type))
      <4>1. Repeated(type) = ((Counts[type] + CounterModulus)
                                - (c % CounterModulus)) % CounterModulus
        BY DEF Repeated, Counts
      <4> HIDE DEF c
      <4> QED
        BY <3>1, <3>2, <4>1, Modular DEF c
    <3>4. k % CounterModulus <= k
      BY <3>1
    <3>5. (failures - Cardinality(FailedJobs)) * Longest <= failures * Longest
      BY <3>1
    <3>6. k % CounterModulus \in Int
      BY <3>1
    <3> QED
      BY <3>1, <3>2, <3>3, <3>4, <3>5, <3>6
  <2> QED
    BY <2>1, <2>2
<1> QED
  BY <1>1, CountersInvariance, PTL
-----------------------------------------------------------------------------
(* How far the timestamp and the rows may go back.                         *)

\* What is applied, finished or at work is within reach of what is at work.
LEMMA OpenInReach ==
    ASSUME CoreInv, AppliedInReach, NEW w \in Worker, pc[w] # "idle"
    PROVE  /\ job[w] \in Checkpoints
           /\ \A n \in finished \cup applied : n < job[w] + MaxInProgress
           /\ \A v \in Worker : pc[v] # "idle" => job[v] < job[w] + MaxInProgress
<1>1. /\ TypeOK /\ JobsAreOpen /\ FinishedInReach
      /\ Load \in Nat /\ cursor \in Nat /\ MaxInProgress \in Nat
  BY LoadType, SyncAssumption DEF CoreInv, TypeOK
<1>2. \A v \in Worker : pc[v] # "idle" => job[v] \in Checkpoints
  BY HeldJob
<1>3. job[w] \in Nat /\ Load <= job[w]
  BY <1>1, <1>2, SyncAssumption DEF JobsAreOpen, Checkpoints
<1>4. finished \subseteq Nat /\ applied \subseteq Nat
  BY <1>1, SyncAssumption DEF TypeOK, Checkpoints
<1>5. \A n \in Nat : n < Load + MaxInProgress => n < job[w] + MaxInProgress
  BY <1>1, <1>3
<1>6. \A n \in finished \cup applied : n < job[w] + MaxInProgress
  BY <1>1, <1>4, <1>5 DEF FinishedInReach, AppliedInReach
<1>7. ASSUME NEW v \in Worker, pc[v] # "idle"
      PROVE  job[v] < job[w] + MaxInProgress
  <2>1. job[v] \in Nat
    BY <1>2, <1>7, SyncAssumption DEF Checkpoints
  <2>2. job[v] < Load + MaxInProgress
    BY <1>1, <1>7 DEF JobsAreOpen
  <2> QED
    BY <1>5, <2>1, <2>2
<1> QED
  BY <1>2, <1>6, <1>7

\* The progress goes back by a revert only.
LEMMA LoadGrows ==
    ASSUME CoreInv, [Next]_vars, ~RevertProgress
    PROVE  Load' >= Load
<1>1. Load \in Nat
  BY LoadType, SyncAssumption DEF CoreInv
<1>2. CASE UNCHANGED last_checkpoint_sync
  BY <1>1, <1>2 DEF Load
<1>3. CASE Up
  BY <1>3, LoadStep
<1>4. UNCHANGED last_checkpoint_sync \/ Up
  BY DEF Next, ProcessStep, vars, Start, RevertObjects, InitIndexer, Crash,
     TakeCheckpoint, ReceiveCheckpoint, StoreTimestamp, InsertObject,
     RejectObject, RolledBack, DeleteObjects, FinishCheckpoint, OnError,
     DatabaseFails, Retry, SaveFails, SaveProgress, Up
<1> QED
  BY <1>2, <1>3, <1>4

LEMMA AppliedReachStep ==
    ASSUME CoreInv, AppliedInReach, [Next]_vars
    PROVE  AppliedInReach'
<1>0. /\ DownIsIdle /\ Load \in Nat /\ Load' \in Nat /\ MaxInProgress \in Nat
      /\ applied \subseteq Nat
  <2>1. TypeOK
    BY DEF CoreInv
  <2>2. Load \in Nat /\ Load' \in Nat
    BY <2>1, LoadType, LoadStep, SyncAssumption
  <2> QED
    BY <2>1, <2>2, SyncAssumption DEF CoreInv, TypeOK, Checkpoints
<1>1. CASE RevertObjects
  BY <1>1, RevertingIsIdle DEF AppliedInReach
<1>2. CASE RevertProgress
  <2>1. applied' = {}
    BY <1>2 DEF RevertProgress, AppliedInReach, historyVars
  <2> QED
    BY <2>1 DEF AppliedInReach
<1>3. CASE ~RevertObjects /\ ~RevertProgress
  <2>1. Load' >= Load
    BY <1>3, LoadGrows
  <2>2. \A n \in Nat : n < Load + MaxInProgress => n < Load' + MaxInProgress
    <3>1. \A n, k, l, m \in Nat : n < k + m /\ l >= k => n < l + m
      OBVIOUS
    <3> QED
      BY <1>0, <2>1, <3>1
  <2>3. ASSUME NEW w \in Worker, FinishCheckpoint(w)
        PROVE  job[w] \in Nat /\ job[w] < Load + MaxInProgress
    <3>1. pc[w] # "idle"
      BY <2>3 DEF FinishCheckpoint
    <3> QED
      BY <3>1, HeldJob, SyncAssumption DEF CoreInv, JobsAreOpen, Checkpoints
  <2>4. \A n \in applied' : n < Load' + MaxInProgress
    <3>1. \A n \in applied' : n \in Nat /\ n < Load + MaxInProgress
      <4>1. CASE applied' = applied
        BY <1>0, <4>1 DEF AppliedInReach
      <4>2. ASSUME NEW w \in Worker, FinishCheckpoint(w),
                   applied' = applied \cup {job[w]}
            PROVE  <3>1!:
        BY <1>0, <2>3, <4>2 DEF AppliedInReach
      <4> QED
        BY <1>3, <4>1, <4>2, AppliedStep
    <3> QED
      BY <2>2, <3>1
  <2>5. phase' = "revert_progress" => phase = phase' /\ applied' = applied
    <3>1. phase' = "revert_progress" => phase = phase'
      BY <1>3 DEF Next, ProcessStep, vars, Start, InitIndexer, Crash,
         TakeCheckpoint, ReceiveCheckpoint, StoreTimestamp, InsertObject,
         RejectObject, RolledBack, DeleteObjects, FinishCheckpoint, OnError,
         DatabaseFails, Retry, SaveProgress, SaveFails
    <3>2. phase = "revert_progress" => ~\E w \in Worker : FinishCheckpoint(w)
      BY <1>0 DEF DownIsIdle, Up, FinishCheckpoint
    <3> QED
      BY <1>3, <3>1, <3>2, AppliedStep
  <2> QED
    BY <2>4, <2>5 DEF AppliedInReach
<1> QED
  BY <1>1, <1>2, <1>3

\* An attempt becomes stamped by storing its timestamp, and stays the same one.
LEMMA StampedStep ==
    ASSUME CoreInv, [Next]_vars, NEW v \in Worker, Stamped(v)'
    PROVE  /\ pc[v] # "idle" /\ job'[v] = job[v]
           /\ Stamped(v) \/ StoreTimestamp(v)
<1>0. TypeOK
  BY DEF CoreInv
<1> USE DEF Stamped
<1>1. CASE \/ \E reset \in ResetChoices : Start(reset)
           \/ RevertObjects \/ RevertProgress \/ InitIndexer \/ SaveFails
           \/ \E n \in 1 .. LastCheckpoint + 1 : SaveProgress(n)
           \/ UNCHANGED vars
  BY <1>1 DEF Start, RevertObjects, RevertProgress, InitIndexer, SaveFails,
     SaveProgress, vars, workerVars
<1>2. CASE Crash
  BY <1>2 DEF Crash, ForgetMemory
<1>3. ASSUME NEW w \in Worker,
             TakeCheckpoint(w) \/ ProcessStep(w) \/ DatabaseFails(w)
      PROVE  /\ pc[v] # "idle" /\ job'[v] = job[v]
             /\ Stamped(v) \/ StoreTimestamp(v)
  BY <1>0, <1>3 DEF TypeOK, TakeCheckpoint, ProcessStep, ReceiveCheckpoint,
     StoreTimestamp, InsertObject, RejectObject, RolledBack, DeleteObjects,
     FinishCheckpoint, OnError, DatabaseFails, Retry
<1> QED
  BY <1>1, <1>2, <1>3 DEF Next

\* A step forgets the timestamp, stores one, or leaves it alone.
LEMMA StampKinds ==
    ASSUME CoreInv, [Next]_vars
    PROVE  \/ Crash
           \/ \E w \in Worker : StoreTimestamp(w)
           \/ /\ UNCHANGED latest_timestamp
              /\ \/ finished' \subseteq finished
                 \/ \E w \in Worker : /\ FinishCheckpoint(w)
                                      /\ finished' = finished \cup {job[w]}
  BY DEF Next, ProcessStep, vars, Start, RevertObjects, RevertProgress,
     InitIndexer, TakeCheckpoint, ReceiveCheckpoint, InsertObject,
     RejectObject, RolledBack, DeleteObjects, FinishCheckpoint, OnError,
     DatabaseFails, Retry, SaveProgress, SaveFails, globalVars, poolVars

LEMMA StampReachStep ==
    ASSUME CoreInv, AppliedInReach, StampInReach, [Next]_vars
    PROVE  StampInReach'
<1>1. CASE Crash
  BY <1>1 DEF Crash, ForgetMemory, StampInReach, Stamped
<1>2. ASSUME NEW w \in Worker, StoreTimestamp(w)
      PROVE  StampInReach'
  <2>1. /\ pc[w] # "idle" /\ latest_timestamp' = Timestamp[job[w]]
        /\ finished' = finished
    BY <1>2 DEF StoreTimestamp, NewTimestamp, poolVars
  <2>2. /\ job[w] \in Checkpoints
        /\ \A n \in finished' : n < job[w] + MaxInProgress
    BY <2>1, OpenInReach
  <2>3. ASSUME NEW v \in Worker, Stamped(v)'
        PROVE  job'[v] < job[w] + MaxInProgress
    BY <2>1, <2>3, StampedStep, OpenInReach
  <2> QED
    BY <2>1, <2>2, <2>3 DEF StampInReach
<1>3. ASSUME ~\E w \in Worker : StoreTimestamp(w),
             UNCHANGED latest_timestamp,
             \/ finished' \subseteq finished
             \/ \E w \in Worker : /\ FinishCheckpoint(w)
                                  /\ finished' = finished \cup {job[w]}
      PROVE  StampInReach'
  <2>1. \A v \in Worker : Stamped(v)' => Stamped(v) /\ job'[v] = job[v]
    BY <1>3, StampedStep
  <2>2. \A w \in Worker : FinishCheckpoint(w) => Stamped(w)
    BY DEF FinishCheckpoint, Stamped
  <2>3. CASE finished = {} /\ \A w \in Worker : ~Stamped(w)
    BY <1>3, <2>1, <2>2, <2>3 DEF StampInReach
  <2>4. ASSUME NEW m \in Checkpoints,
               /\ latest_timestamp = Timestamp[m]
               /\ \A n \in finished : n < m + MaxInProgress
               /\ \A w \in Worker : Stamped(w) => job[w] < m + MaxInProgress
        PROVE  StampInReach'
    <3>1. \A n \in finished' : n < m + MaxInProgress
      BY <1>3, <2>2, <2>4
    <3>2. \A w \in Worker : Stamped(w)' => job'[w] < m + MaxInProgress
      BY <2>1, <2>4
    <3> QED
      BY <1>3, <2>4, <3>1, <3>2 DEF StampInReach
  <2> QED
    BY <2>3, <2>4 DEF StampInReach
<1> QED
  BY <1>1, <1>2, <1>3, StampKinds

\* An attempt touches an object by inserting a row of it or by removing it.
LEMMA TouchStep ==
    ASSUME CoreInv, [Next]_vars, NEW v \in Worker, NEW id, HasTouched(v, id)'
    PROVE  /\ pc[v] # "idle" /\ job'[v] = job[v]
           /\ \/ HasTouched(v, id)
              \/ InsertObject(v) /\ Upserts[job[v]][row[v]].id = id
              \/ DeleteObjects(v) /\ id \in Removals[job[v]]
<1>0. TypeOK
  BY DEF CoreInv
<1>1. Stamped(v)'
  BY DEF HasTouched, PastRows, Stamped
<1>2. pc[v] # "idle" /\ job'[v] = job[v]
  BY <1>1, StampedStep
<1>3. CASE \E r \in PastRows(v)' : r.id = id
  <2>1. PICK r \in PastRows(v)' : r.id = id
    BY <1>3
  <2>2. CASE r \in PastRows(v)
    BY <1>2, <2>1, <2>2 DEF HasTouched
  <2>3. CASE InsertObject(v) /\ r = Upserts[job[v]][row[v]]
    BY <1>2, <2>1, <2>3
  <2> QED
    BY <2>1, <2>2, <2>3, PastStep
<1>4. CASE pc'[v] = "finish" /\ id \in Removals[job'[v]]
  <2>1. \/ pc[v] = "finish" \/ DeleteObjects(v)
        \/ pc'[v] = AfterInserts(v)
    <3>1. CASE pc'[v] = pc[v]
      BY <1>4, <3>1
    <3>2. CASE \/ \E reset \in ResetChoices : Start(reset)
               \/ RevertObjects \/ RevertProgress \/ InitIndexer \/ SaveFails
               \/ \E n \in 1 .. LastCheckpoint + 1 : SaveProgress(n)
               \/ UNCHANGED vars
      BY <3>1, <3>2 DEF Start, RevertObjects, RevertProgress, InitIndexer,
         SaveFails, SaveProgress, vars, workerVars
    <3>3. CASE Crash
      BY <1>4, <3>3 DEF Crash, ForgetMemory
    <3>4. ASSUME NEW w \in Worker,
                 TakeCheckpoint(w) \/ ProcessStep(w) \/ DatabaseFails(w)
          PROVE  <2>1!:
      BY <1>0, <1>4, <3>1, <3>4 DEF TypeOK, TakeCheckpoint, ProcessStep,
         ReceiveCheckpoint, StoreTimestamp, InsertObject, RejectObject,
         RolledBack, DeleteObjects, FinishCheckpoint, OnError, DatabaseFails,
         Retry
    <3> QED
      BY <3>2, <3>3, <3>4 DEF Next
  <2>2. pc'[v] # AfterInserts(v)
    BY <1>2, <1>4 DEF AfterInserts
  <2> QED
    BY <1>2, <1>4, <2>1, <2>2 DEF HasTouched
<1> QED
  BY <1>2, <1>3, <1>4 DEF HasTouched

\* A row is the one an attempt has just written, or was there before and its
\* object is not touched by the step.
LEMMA RowKinds ==
    ASSUME CoreInv, [Next]_vars, NEW o \in objects'
    PROVE  \/ \E w \in Worker : InsertObject(w) /\ o = Upserts[job[w]][row[w]]
           \/ /\ o \in objects
              /\ \A v \in Worker : HasTouched(v, o.id)' => HasTouched(v, o.id)
              /\ ~RevertObjects
<1>1. CASE RevertObjects
  BY <1>1 DEF RevertObjects
<1>2. o \in objects \/ \E w \in Worker : InsertObject(w) /\ o = Upserts[job[w]][row[w]]
  BY <1>1, TableSteps DEF InsertObject, UpsertObject, DeleteObjects, WithoutObjects
<1>3. ASSUME NEW v \in Worker, HasTouched(v, o.id)',
             ~\E w \in Worker : InsertObject(w) /\ o = Upserts[job[w]][row[w]]
      PROVE  HasTouched(v, o.id)
  <2>1. ~(InsertObject(v) /\ Upserts[job[v]][row[v]].id = o.id)
    BY <1>3 DEF InsertObject, UpsertObject
  <2>2. ~(DeleteObjects(v) /\ o.id \in Removals[job[v]])
    BY DEF DeleteObjects, WithoutObjects
  <2> QED
    BY <1>3, <2>1, <2>2, TouchStep
<1> QED
  BY <1>1, <1>2, <1>3

LEMMA RowsReachStep ==
    ASSUME CoreInv, AppliedInReach, RowsInReach, [Next]_vars
    PROVE  RowsInReach'
<1> DEFINE Within(o, m) ==
             /\ \E i \in DOMAIN Upserts[m] : o = Upserts[m][i]
             /\ \A n \in applied' : Touches(n, o.id) => n < m + MaxInProgress
             /\ \A v \in Worker :
                  HasTouched(v, o.id)' => job'[v] < m + MaxInProgress
<1> SUFFICES ASSUME NEW o \in objects'
             PROVE  \E m \in Checkpoints : Within(o, m)
  BY DEF RowsInReach, Touches, Touched
<1>1. ASSUME NEW w \in Worker, InsertObject(w), o = Upserts[job[w]][row[w]]
      PROVE  \E m \in Checkpoints : Within(o, m)
  <2>1. pc[w] = "insert" /\ applied' = applied
    BY <1>1 DEF InsertObject, historyVars
  <2>2. job[w] \in Checkpoints /\ row[w] \in DOMAIN Upserts[job[w]]
    BY <2>1, CurrentRow
  <2>3. \A n \in applied' : n < job[w] + MaxInProgress
    BY <2>1, OpenInReach
  <2>4. ASSUME NEW v \in Worker, HasTouched(v, o.id)'
        PROVE  job'[v] < job[w] + MaxInProgress
    BY <2>1, <2>4, TouchStep, OpenInReach
  <2> QED
    BY <1>1, <2>2, <2>3, <2>4
<1>2. ASSUME o \in objects, ~RevertObjects,
             \A v \in Worker : HasTouched(v, o.id)' => HasTouched(v, o.id)
      PROVE  \E m \in Checkpoints : Within(o, m)
  <2>1. PICK m \in Checkpoints :
          /\ \E i \in DOMAIN Upserts[m] : o = Upserts[m][i]
          /\ \A n \in applied : Touches(n, o.id) => n < m + MaxInProgress
          /\ \A v \in Worker : HasTouched(v, o.id) => job[v] < m + MaxInProgress
    BY <1>2 DEF RowsInReach
  <2>2. ASSUME NEW w \in Worker, FinishCheckpoint(w), Touches(job[w], o.id)
        PROVE  HasTouched(w, o.id)
    <3>1. job[w] \in Checkpoints /\ pc[w] = "finish"
      BY <2>2, AtFinish DEF FinishCheckpoint
    <3> QED
      BY <2>2, <3>1, AtFinish DEF HasTouched, Touches, Touched
  <2>3. \A n \in applied' : Touches(n, o.id) => n < m + MaxInProgress
    BY <1>2, <2>1, <2>2, AppliedStep
  <2>4. \A v \in Worker : HasTouched(v, o.id)' => job'[v] < m + MaxInProgress
    BY <1>2, <2>1, TouchStep
  <2> QED
    BY <2>1, <2>3, <2>4
<1> QED
  BY <1>1, <1>2, RowKinds

LEMMA TrailInit == Init => TrailInv
<1> SUFFICES ASSUME Init PROVE TrailInv
  OBVIOUS
<1>1. CoreInv
  BY InitInv DEF SyncInv
<1> QED
  BY <1>1 DEF Init, TrailInv, AppliedInReach, StampInReach, Stamped, RowsInReach

LEMMA TrailStep == TrailInv /\ [Next]_vars => TrailInv'
  BY CoreStep, AppliedReachStep, StampReachStep, RowsReachStep DEF TrailInv

\* The invariant of the window: what is written lately is of a checkpoint that
\* was open then, within reach of all that was open or applied.
THEOREM TrailInvariance == Spec => []TrailInv
  BY TrailInit, TrailStep, PTL DEF Spec

\* The timestamp goes back by less than the window, whatever the order in which
\* workers store theirs, and the number of them.
THEOREM ClockTrails == Spec => []ClockTrailsWindow
<1>1. TrailInv => ClockTrailsWindow
  BY DEF TrailInv, StampInReach, ClockTrailsWindow
<1> QED
  BY <1>1, TrailInvariance, PTL

\* A row never comes after what a later checkpoint did to its object by a window
\* or more, through failures, crashes, replays and any choice of --reset-db.
THEOREM RowsTrail == Spec => []RowsTrailWindow
<1>1. TrailInv => RowsTrailWindow
  BY DEF TrailInv, RowsInReach, RowsTrailWindow
<1> QED
  BY <1>1, TrailInvariance, PTL
=============================================================================
