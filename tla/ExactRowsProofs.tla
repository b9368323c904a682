-------------------------- MODULE ExactRowsProofs ---------------------------
(***************************************************************************)
(* The exact rows of the tables, for all values of the constants. First of *)
(* an object that one checkpoint alone touches, whatever the workers,      *)
(* failures, crashes and replays. Then, with one worker, of all objects:   *)
(* the tables are those of checkpoints processed one by one.               *)
(***************************************************************************)
EXTENDS CheckpointSyncProofs

\* n is the only checkpoint that touches id.
Sole(n, id) == \A m \in Checkpoints : Touches(m, id) <=> m = n

Final(n, id) == { r \in RowsLeft(n) : r.id = id }

\* Whether rows 1 .. k - 1 of a checkpoint write id, and the last that does.
Wrote(n, id, k) == \E j \in 1 .. k - 1 : Upserts[n][j].id = id

LastRow(n, id, k) ==
    { Upserts[n][i] : i \in
        { j \in 1 .. k - 1 :
            /\ Upserts[n][j].id = id
            /\ \A l \in 1 .. k - 1 : l > j => Upserts[n][l].id # id } }

\* An attempt at n has brought id up to the rows it is past, whatever an
\* earlier attempt left there.
AttemptExact(w, n, id) ==
    job[w] = n =>
        /\ pc[w] \in {"insert", "delete"} /\ Wrote(n, id, row[w]) =>
             RowsOf(id) = LastRow(n, id, row[w])
        /\ pc[w] = "finish" => RowsOf(id) = Final(n, id)

\* Attempts under way and those this process has finished, whatever is saved.
WorkExact ==
    \A n \in Checkpoints, id \in Id : Sole(n, id) =>
        /\ \A w \in Worker : AttemptExact(w, n, id)
        /\ n \in finished => RowsOf(id) = Final(n, id)

SavedExact ==
    \A n \in Checkpoints, id \in Id :
        Sole(n, id) /\ n < Load => RowsOf(id) = Final(n, id)

ExactInv ==
    /\ SyncInv
    /\ WorkExact
    /\ Vouched => SavedExact

-----------------------------------------------------------------------------
(* Rows of one checkpoint.                                                 *)

\* One more row: it is the last one if it writes id, otherwise nothing changes.
LEMMA LastRowStep ==
    ASSUME NEW n \in Checkpoints, NEW id, NEW k \in Nat \ {0}
    PROVE  /\ Upserts[n][k].id = id => LastRow(n, id, k + 1) = {Upserts[n][k]}
           /\ Upserts[n][k].id # id =>
                /\ LastRow(n, id, k + 1) = LastRow(n, id, k)
                /\ Wrote(n, id, k + 1) = Wrote(n, id, k)
<1>1. 1 .. (k + 1) - 1 = (1 .. k - 1) \cup {k}
  OBVIOUS
<1>2. \A j \in 1 .. k - 1 : k > j /\ ~(j > k)
  OBVIOUS
<1>3. ~(k > k)
  OBVIOUS
<1>4. ASSUME Upserts[n][k].id = id
      PROVE  LastRow(n, id, k + 1) = {Upserts[n][k]}
  BY <1>1, <1>2, <1>3, <1>4 DEF LastRow
<1>5. ASSUME Upserts[n][k].id # id
      PROVE  /\ LastRow(n, id, k + 1) = LastRow(n, id, k)
             /\ Wrote(n, id, k + 1) = Wrote(n, id, k)
  BY <1>1, <1>2, <1>3, <1>5 DEF LastRow, Wrote
<1> QED
  BY <1>4, <1>5

\* Past all rows, the last one is final, unless the checkpoint removes it.
LEMMA LastRowFinal ==
    ASSUME NEW n \in Checkpoints, NEW id, Touches(n, id)
    PROVE  /\ id \notin Removals[n] =>
                /\ Wrote(n, id, Len(Upserts[n]) + 1)
                /\ LastRow(n, id, Len(Upserts[n]) + 1) = Final(n, id)
           /\ id \in Removals[n] => Final(n, id) = {}
<1>1. Upserts[n] \in Seq(StoredObject)
  BY SyncAssumption
<1>2. DOMAIN Upserts[n] = 1 .. (Len(Upserts[n]) + 1) - 1
  BY <1>1
<1>3. id \in Removals[n] => Final(n, id) = {}
  BY DEF Final, RowsLeft
<1>4. ASSUME id \notin Removals[n]
      PROVE  /\ Wrote(n, id, Len(Upserts[n]) + 1)
             /\ LastRow(n, id, Len(Upserts[n]) + 1) = Final(n, id)
  <2>1. \E j \in DOMAIN Upserts[n] : Upserts[n][j].id = id
    BY <1>4 DEF Touches, Touched
  <2>2. Wrote(n, id, Len(Upserts[n]) + 1)
    BY <1>2, <2>1 DEF Wrote
  <2>3. ASSUME NEW r
        PROVE  r \in LastRow(n, id, Len(Upserts[n]) + 1) <=> r \in Final(n, id)
    BY <1>2, <1>4 DEF LastRow, Final, RowsLeft
  <2> QED
    BY <2>2, <2>3
<1> QED
  BY <1>3, <1>4

-----------------------------------------------------------------------------
(* Steps.                                                                  *)

\* Only an attempt at a checkpoint that touches id changes its row, or a reset.
LEMMA TouchedTables ==
    ASSUME CoreInv, [Next]_vars, NEW id \in Id
    PROVE  \/ RowsOf(id)' = RowsOf(id)
           \/ RevertObjects
           \/ \E w \in Worker : /\ job[w] \in Checkpoints /\ Touches(job[w], id)
                                /\ InsertObject(w) \/ DeleteObjects(w)
<1>1. ASSUME NEW w \in Worker, InsertObject(w), ~Touches(job[w], id)
      PROVE  RowsOf(id)' = RowsOf(id)
  <2>1. /\ job[w] \in Checkpoints /\ row[w] \in DOMAIN Upserts[job[w]]
    BY <1>1, CurrentRow DEF InsertObject
  <2>2. Upserts[job[w]][row[w]].id # id
    BY <1>1, <2>1 DEF Touches, Touched
  <2> QED
    BY <1>1, <2>2 DEF InsertObject, UpsertObject, RowsOf
<1>2. ASSUME NEW w \in Worker, DeleteObjects(w), ~Touches(job[w], id)
      PROVE  RowsOf(id)' = RowsOf(id)
  <2>1. job[w] \in Checkpoints
    BY <1>2, HeldJob DEF DeleteObjects
  <2>2. id \notin Removals[job[w]]
    BY <1>2, <2>1 DEF Touches, Touched
  <2> QED
    BY <1>2, <2>2 DEF DeleteObjects, WithoutObjects, RowsOf
<1>3. UNCHANGED objects => RowsOf(id)' = RowsOf(id)
  BY DEF RowsOf
<1>4. ASSUME NEW w \in Worker, InsertObject(w) \/ DeleteObjects(w)
      PROVE  job[w] \in Checkpoints
  BY <1>4, HeldJob DEF InsertObject, DeleteObjects
<1> QED
  BY <1>1, <1>2, <1>3, <1>4, TableSteps

\* The attempt that is at a row of n leaves its id with the rows it is past.
LEMMA OwnStep ==
    ASSUME CoreInv, NEW n \in Checkpoints, NEW id \in Id, Touches(n, id),
           NEW w \in Worker, job[w] = n, AttemptExact(w, n, id),
           \/ ReceiveCheckpoint(w) \/ StoreTimestamp(w) \/ InsertObject(w)
           \/ RejectObject(w) \/ DeleteObjects(w) \/ FinishCheckpoint(w)
           \/ DatabaseFails(w) \/ Retry(w)
    PROVE  AttemptExact(w, n, id)'
<1>0. /\ CoreInv /\ TypeOK /\ AttemptExact(w, n, id) /\ Touches(n, id)
      /\ Upserts[n] \in Seq(StoredObject)
  BY SyncAssumption DEF CoreInv
<1>1. CASE \/ ReceiveCheckpoint(w) \/ RejectObject(w) \/ FinishCheckpoint(w)
           \/ DatabaseFails(w) \/ Retry(w)
  <2>1. pc'[w] \notin {"insert", "delete", "finish"}
    BY <1>0, <1>1 DEF TypeOK, ReceiveCheckpoint, RejectObject, RolledBack,
       OnError, FinishCheckpoint, DatabaseFails, Retry
  <2> QED
    BY <2>1 DEF AttemptExact
<1>2. CASE StoreTimestamp(w)
  <2>1. row'[w] = 1
    BY <1>0, <1>2 DEF TypeOK, StoreTimestamp
  <2>2. ~Wrote(n, id, 1)
    BY DEF Wrote
  <2>3. pc'[w] # "finish"
    <3>1. ASSUME pc'[w] = "finish" PROVE Upserts[n] = <<>> /\ Removals[n] = {}
      BY <1>0, <1>2, <3>1 DEF TypeOK, StoreTimestamp, AfterInserts
    <3>2. Upserts[n] = <<>> /\ Removals[n] = {} => ~Touches(n, id)
      BY DEF Touches, Touched
    <3> QED
      BY <1>0, <3>1, <3>2
  <2> QED
    BY <2>1, <2>2, <2>3 DEF AttemptExact, Wrote
<1>3. CASE InsertObject(w)
  <2> DEFINE k == row[w]
  <2>1. /\ pc[w] = "insert" /\ k \in 1 .. Len(Upserts[n])
        /\ row'[w] = k + 1
        /\ pc'[w] \in {"insert", "delete", "finish"}
        /\ pc'[w] = "finish" => Removals[n] = {} /\ k = Len(Upserts[n])
        /\ objects' = UpsertObject(objects, Upserts[n][k])
    <3>1. pc[w] = "insert" /\ k \in 1 .. Len(Upserts[n])
      BY <1>3, CurrentRow DEF InsertObject
    <3>2. row \in [Worker -> Nat] /\ pc \in [Worker -> Control]
      BY <1>0 DEF TypeOK
    <3> QED
      BY <1>0, <1>3, <3>1, <3>2 DEF InsertObject, AfterInserts
  <2> HIDE DEF k
  <2>2. Wrote(n, id, k + 1) => RowsOf(id)' = LastRow(n, id, k + 1)
    <3>0. k \in Nat \ {0}
      BY <2>1
    <3>1. CASE Upserts[n][k].id = id
      <4>1. RowsOf(id)' = {Upserts[n][k]}
        BY <2>1, <3>1 DEF UpsertObject, RowsOf
      <4> QED
        BY <3>0, <3>1, <4>1, LastRowStep
    <3>2. CASE Upserts[n][k].id # id
      <4>1. RowsOf(id)' = RowsOf(id)
        BY <2>1, <3>2 DEF UpsertObject, RowsOf
      <4>2. Wrote(n, id, k) => RowsOf(id) = LastRow(n, id, k)
        BY <1>0, <2>1 DEF AttemptExact, k
      <4> QED
        BY <3>0, <3>2, <4>1, <4>2, LastRowStep
    <3> QED
      BY <3>1, <3>2
  <2>3. pc'[w] = "finish" => RowsOf(id)' = Final(n, id)
    BY <1>0, <2>1, <2>2, LastRowFinal
  <2>4. job' = job
    BY <1>3 DEF InsertObject
  <2> QED
    BY <2>1, <2>2, <2>3, <2>4 DEF AttemptExact, Wrote, LastRow, Final, RowsLeft
<1>4. CASE DeleteObjects(w)
  <2>1. /\ pc[w] = "delete" /\ pc'[w] = "finish"
        /\ objects' = {o \in objects : o.id \notin Removals[n]}
        /\ row[w] = Len(Upserts[n]) + 1
    BY <1>0, <1>4 DEF TypeOK, DeleteObjects, WithoutObjects, CoreInv,
       RowsInOrder
  <2>2. RowsOf(id)' = Final(n, id)
    <3>1. CASE id \in Removals[n]
      <4>1. RowsOf(id)' = {}
        BY <2>1, <3>1 DEF RowsOf
      <4> QED
        BY <1>0, <3>1, <4>1, LastRowFinal
    <3>2. CASE id \notin Removals[n]
      <4>1. RowsOf(id)' = RowsOf(id)
        BY <2>1, <3>2 DEF RowsOf
      <4> QED
        BY <1>0, <2>1, <3>2, <4>1, LastRowFinal DEF AttemptExact
    <3> QED
      BY <3>1, <3>2
  <2> QED
    BY <2>1, <2>2 DEF AttemptExact, Final, RowsLeft
<1> QED
  BY <1>1, <1>2, <1>3, <1>4

OwnAction(w) ==
    \/ ReceiveCheckpoint(w) \/ StoreTimestamp(w) \/ InsertObject(w)
    \/ RejectObject(w) \/ DeleteObjects(w) \/ FinishCheckpoint(w)
    \/ DatabaseFails(w) \/ Retry(w)

\* A step moves one worker at most, or sends all of them home.
LEMMA WorkerKinds ==
    ASSUME CoreInv, [Next]_vars, NEW w \in Worker
    PROVE  \/ OwnAction(w)
           \/ pc'[w] \in {"idle", "receive"}
           \/ /\ pc'[w] = pc[w] /\ job'[w] = job[w] /\ row'[w] = row[w]
<1>0. TypeOK
  BY DEF CoreInv
<1> DEFINE Still == pc'[w] = pc[w] /\ job'[w] = job[w] /\ row'[w] = row[w]
<1>1. ASSUME NEW v \in Worker, OwnAction(v), v # w PROVE Still
  BY <1>0, <1>1 DEF TypeOK, OwnAction, ReceiveCheckpoint, StoreTimestamp,
     InsertObject, RejectObject, DeleteObjects, FinishCheckpoint,
     DatabaseFails, Retry
<1>2. ASSUME NEW v \in Worker, TakeCheckpoint(v)
      PROVE  Still \/ pc'[w] = "receive"
  BY <1>0, <1>2 DEF TypeOK, TakeCheckpoint
<1>3. CASE Crash
  BY <1>3 DEF Crash, ForgetMemory
<1>4. \/ \E v \in Worker : OwnAction(v) \/ TakeCheckpoint(v)
      \/ Crash
      \/ UNCHANGED workerVars
  BY DEF Next, ProcessStep, OwnAction, vars, Start, RevertObjects,
     RevertProgress, InitIndexer, SaveProgress, SaveFails
<1>5. UNCHANGED workerVars => Still
  BY DEF workerVars
<1> QED
  BY <1>1, <1>2, <1>3, <1>4, <1>5

\* A worker that does nothing loses nothing: nobody else is at its checkpoint.
LEMMA AttemptStep ==
    ASSUME CoreInv, WorkExact, [Next]_vars,
           NEW n \in Checkpoints, NEW id \in Id, Sole(n, id), NEW w \in Worker
    PROVE  AttemptExact(w, n, id)'
<1>0. /\ TypeOK /\ JobsAreOpen /\ DownIsIdle
      /\ AttemptExact(w, n, id) /\ Touches(n, id)
      /\ \A m \in Checkpoints : Touches(m, id) => m = n
  BY DEF CoreInv, WorkExact, Sole
<1>1. CASE OwnAction(w)
  <2>1. CASE job[w] = n
    BY <1>0, <1>1, <2>1, OwnStep DEF OwnAction
  <2>2. CASE job[w] # n
    <3>1. job'[w] # n
      BY <1>0, <1>1, <2>2, SyncAssumption DEF TypeOK, Checkpoints, OwnAction,
         ReceiveCheckpoint, StoreTimestamp, InsertObject, RejectObject,
         DeleteObjects, FinishCheckpoint, DatabaseFails, Retry
    <3> QED
      BY <3>1 DEF AttemptExact
  <2> QED
    BY <2>1, <2>2
<1>2. CASE pc'[w] \in {"idle", "receive"}
  BY <1>2 DEF AttemptExact
<1>3. CASE /\ ~OwnAction(w)
           /\ pc'[w] = pc[w] /\ job'[w] = job[w] /\ row'[w] = row[w]
  <2> SUFFICES ASSUME job[w] = n, pc[w] \in {"insert", "delete", "finish"}
               PROVE  AttemptExact(w, n, id)'
    BY <1>3 DEF AttemptExact
  <2>1. ~RevertObjects
    BY <1>0 DEF DownIsIdle, RevertObjects, Up
  <2>2. ASSUME NEW v \in Worker, job[v] = n, InsertObject(v) \/ DeleteObjects(v)
        PROVE  FALSE
    <3>1. v = w
      BY <1>0, <2>2 DEF JobsAreOpen, InsertObject, DeleteObjects
    <3> QED
      BY <1>3, <2>2, <3>1 DEF OwnAction
  <2>3. RowsOf(id)' = RowsOf(id)
    BY <1>0, <2>1, <2>2, TouchedTables
  <2> QED
    BY <1>0, <1>3, <2>3 DEF AttemptExact, Wrote, LastRow, Final, RowsLeft
<1> QED
  BY <1>0, <1>1, <1>2, <1>3, WorkerKinds

\* A checkpoint that nobody holds keeps its rows until the tables are dropped.
LEMMA FreeRows ==
    ASSUME CoreInv, [Next]_vars, NEW n \in Checkpoints, NEW id \in Id,
           Sole(n, id), ~RevertObjects, n \in finished \/ n < Load
    PROVE  RowsOf(id)' = RowsOf(id)
<1>1. ASSUME NEW w \in Worker, job[w] = n, InsertObject(w) \/ DeleteObjects(w)
      PROVE  FALSE
  <2>1. JobsAreOpen /\ TypeOK /\ pc[w] # "idle"
    BY <1>1 DEF CoreInv, InsertObject, DeleteObjects
  <2>2. n \notin finished /\ n >= Load
    BY <1>1, <2>1, LoadType, SyncAssumption DEF JobsAreOpen, TypeOK
  <2>3. n \in Nat /\ Load \in Nat
    BY <2>1, LoadType, SyncAssumption DEF Checkpoints
  <2> QED
    BY <2>2, <2>3
<1>2. \A m \in Checkpoints : Touches(m, id) => m = n
  BY DEF Sole
<1> QED
  BY <1>1, <1>2, TouchedTables

\* What a process has finished is final.
LEMMA FinishedFinal ==
    ASSUME CoreInv, WorkExact, [Next]_vars,
           NEW n \in Checkpoints, NEW id \in Id, Sole(n, id), n \in finished'
    PROVE  RowsOf(id)' = Final(n, id)
<1>0. /\ DownIsIdle
      /\ n \in finished => RowsOf(id) = Final(n, id)
      /\ \A w \in Worker : AttemptExact(w, n, id)
  BY DEF CoreInv, WorkExact
<1>1. CASE n \in finished
  <2>1. ~RevertObjects
    BY <1>0, <1>1 DEF DownIsIdle, RevertObjects, Up
  <2> QED
    BY <1>0, <1>1, <2>1, FreeRows
<1>2. CASE n \notin finished
  <2>1. PICK w \in Worker : FinishCheckpoint(w)
    BY <1>0, <1>2, GaugeKinds
  <2>2. job[w] = n /\ pc[w] = "finish" /\ UNCHANGED objects
    BY <1>2, <2>1 DEF FinishCheckpoint, tableVars
  <2>3. RowsOf(id) = Final(n, id)
    BY <1>0, <2>2 DEF AttemptExact
  <2> QED
    BY <2>2, <2>3 DEF RowsOf
<1> QED
  BY <1>1, <1>2

\* No step disturbs what attempts have got to.
LEMMA WorkStep ==
    ASSUME CoreInv, WorkExact, [Next]_vars
    PROVE  WorkExact'
<1>1. ASSUME NEW n \in Checkpoints, NEW id \in Id
      PROVE  Final(n, id)' = Final(n, id) /\ (Sole(n, id)' <=> Sole(n, id))
  BY DEF Final, RowsLeft, Sole, Touches, Touched
<1>2. ASSUME NEW n \in Checkpoints, NEW id \in Id, Sole(n, id)
      PROVE  /\ \A w \in Worker : AttemptExact(w, n, id)'
             /\ n \in finished' => RowsOf(id)' = Final(n, id)
  BY <1>2, AttemptStep, FinishedFinal
<1> QED
  BY <1>1, <1>2 DEF WorkExact

\* Nor what is saved, but for a reset: the progress passes over finished ones.
LEMMA SavedExactStep ==
    ASSUME CoreInv, WorkExact, SavedExact, [Next]_vars, ~RevertObjects
    PROVE  SavedExact'
<1>1. ASSUME NEW n \in Checkpoints, NEW id \in Id, Sole(n, id), n < Load'
      PROVE  RowsOf(id)' = Final(n, id)
  <2>1. n \in Nat /\ Load \in Nat /\ Load' \in Nat
    BY LoadType, LoadStep, SyncAssumption DEF CoreInv, Checkpoints
  <2>2. n < Load \/ n \in finished
    BY <1>1, <2>1, LoadStep
  <2>3. RowsOf(id) = Final(n, id)
    BY <1>1, <2>2 DEF WorkExact, SavedExact
  <2> QED
    BY <1>1, <2>2, <2>3, FreeRows
<1>2. ASSUME NEW n \in Checkpoints, NEW id \in Id
      PROVE  Final(n, id)' = Final(n, id) /\ (Sole(n, id)' <=> Sole(n, id))
  BY DEF Final, RowsLeft, Sole, Touches, Touched
<1> QED
  BY <1>1, <1>2 DEF SavedExact

\* Nothing is saved at first, and nothing when a reset is complete.
LEMMA NothingSaved ==
    /\ Load = 0 => SavedExact
    /\ Load' = 0 => SavedExact'
<1>1. \A n \in Checkpoints : ~(n < 0)
  BY SyncAssumption DEF Checkpoints
<1> QED
  BY <1>1 DEF SavedExact

-----------------------------------------------------------------------------
(* Theorems.                                                               *)

LEMMA ExactInit == Init => ExactInv
<1> SUFFICES ASSUME Init PROVE ExactInv
  OBVIOUS
<1>1. SyncInv
  BY InitInv
<1>2. WorkExact
  BY DEF Init, WorkExact, AttemptExact
<1>3. Load = 0
  BY DEF Init, Load
<1> QED
  BY <1>1, <1>2, <1>3, NothingSaved DEF ExactInv

LEMMA ExactStep == ExactInv /\ [Next]_vars => ExactInv'
<1> SUFFICES ASSUME ExactInv, [Next]_vars PROVE ExactInv'
  OBVIOUS
<1>1. CoreInv /\ SyncInv' /\ WorkExact'
  BY NextInv, WorkStep DEF ExactInv, SyncInv
<1>2. ASSUME Vouched' PROVE SavedExact'
  <2>1. CASE Load' = 0
    BY <2>1, NothingSaved
  <2>2. CASE Vouched /\ ~RevertObjects
    BY <1>1, <2>2, SavedExactStep DEF ExactInv
  <2> QED
    BY <1>2, <2>1, <2>2, VouchedStep DEF ExactInv
<1> QED
  BY <1>1, <1>2 DEF ExactInv

\* The inductive invariant holds in every reachable state.
THEOREM ExactInvariance == Spec => []ExactInv
  BY ExactInit, ExactStep, PTL DEF Spec

\* What UncontestedRows asks of a process that serves.
LEMMA ExactWhenServing ==
    ASSUME CoreInv, Serving => SavedExact
    PROVE  UncontestedRows
<1> SUFFICES ASSUME Serving, NEW n \in 0 .. Load - 1, NEW id \in Id,
                    \A m \in Checkpoints : Touches(m, id) <=> m = n
             PROVE  RowsOf(id) = { r \in RowsLeft(n) : r.id = id }
  BY DEF UncontestedRows
<1>1. Load \in 0 .. LastCheckpoint + 1
  BY LoadType DEF CoreInv
<1>2. n \in Checkpoints /\ n < Load /\ Sole(n, id)
  BY <1>1, SyncAssumption DEF Checkpoints, Sole
<1> QED
  BY <1>2 DEF SavedExact, Final

\* If --reset-db is the same at every start, an object that one checkpoint
\* alone touches has, below the progress, exactly the row that checkpoint
\* leaves: replays, failed attempts and other workers change nothing there.
THEOREM RowsUncontested ==
    ASSUME NoReset \/ AlwaysReset
    PROVE  Spec => []UncontestedRows
<1>1. ExactInv => UncontestedRows
  <2> SUFFICES ASSUME ExactInv PROVE UncontestedRows
    OBVIOUS
  <2>1. Serving => SavedExact
    BY DEF ExactInv, Vouched
  <2> QED
    BY <2>1, ExactWhenServing DEF ExactInv, SyncInv
<1> QED
  BY <1>1, ExactInvariance, PTL

-----------------------------------------------------------------------------
(* One worker.                                                             *)

\* The checkpoints below k are done with, and those from k on are not saved.
Passed(k) ==
    /\ k \in Load .. cursor
    /\ \A w \in Worker : pc[w] # "idle" => k <= job[w]

\* The tables are those of checkpoints 0 .. k - 1 processed one by one, but for
\* what a checkpoint from k on has had a chance to touch.
ExactAt(k) ==
    \A id \in Id :
        (\A m \in k .. reached - 1 : ~Touches(m, id)) =>
            RowsOf(id) = { r \in RowsBelow[k] : r.id = id }

\* The one worker at work holds the checkpoint handed out last.
JobIsLast == \A w \in Worker : pc[w] # "idle" => job[w] = cursor - 1

Sequential ==
    /\ Load <= reached /\ ExactAt(Load)
    /\ Up => cursor <= reached /\ \A k \in Nat : Passed(k) => ExactAt(k)

SeqInv ==
    /\ SyncInv
    /\ phase = "revert_progress" => objects = {}
    /\ JobIsLast
    /\ \A w \in Worker, n \in Checkpoints, id \in Id :
         Touches(n, id) => AttemptExact(w, n, id)
    /\ Vouched => Sequential

-----------------------------------------------------------------------------
(* RowsBelow, one checkpoint at a time.                                    *)

LEMMA BelowMembers ==
    ASSUME NEW k \in 0 .. LastCheckpoint + 1, NEW r
    PROVE  r \in RowsBelow[k] <=>
             \E p \in 0 .. k - 1 :
                r \in RowsLeft(p) /\ \A m \in p + 1 .. k - 1 : ~Touches(m, r.id)
  BY DEF RowsBelow

\* A checkpoint leaves the rows it does not touch, and its own rows.
LEMMA BelowNext ==
    ASSUME NEW n \in Checkpoints, NEW id \in Id
    PROVE  /\ ~Touches(n, id) =>
                { r \in RowsBelow[n + 1] : r.id = id }
                  = { r \in RowsBelow[n] : r.id = id }
           /\ Touches(n, id) =>
                { r \in RowsBelow[n + 1] : r.id = id } = Final(n, id)
<1> USE SyncAssumption
<1>1. /\ n \in Nat /\ n \in 0 .. LastCheckpoint + 1
      /\ n + 1 \in 0 .. LastCheckpoint + 1
      /\ 0 .. (n + 1) - 1 = (0 .. n - 1) \cup {n}
      /\ n + 1 .. (n + 1) - 1 = {}
      /\ \A p \in 0 .. n - 1 : p + 1 .. (n + 1) - 1 = (p + 1 .. n - 1) \cup {n}
  BY DEF Checkpoints
<1>2. ASSUME NEW r, r.id = id
      PROVE  r \in RowsBelow[n + 1] <=>
               \/ r \in RowsLeft(n)
               \/ r \in RowsBelow[n] /\ ~Touches(n, id)
  <2>1. r \in RowsBelow[n + 1] <=>
          \E p \in (0 .. n - 1) \cup {n} :
             r \in RowsLeft(p) /\ \A m \in p + 1 .. (n + 1) - 1 : ~Touches(m, id)
    BY <1>1, <1>2, BelowMembers
  <2>2. r \in RowsBelow[n] <=>
          \E p \in 0 .. n - 1 :
             r \in RowsLeft(p) /\ \A m \in p + 1 .. n - 1 : ~Touches(m, id)
    BY <1>1, <1>2, BelowMembers
  <2>3. \A p \in 0 .. n - 1 :
          (\A m \in p + 1 .. (n + 1) - 1 : ~Touches(m, id)) <=>
             (\A m \in p + 1 .. n - 1 : ~Touches(m, id)) /\ ~Touches(n, id)
    BY <1>1
  <2>4. \A m \in n + 1 .. (n + 1) - 1 : ~Touches(m, id)
    BY <1>1
  <2> QED
    BY <2>1, <2>2, <2>3, <2>4
<1>3. ASSUME NEW r \in RowsLeft(n), r.id = id PROVE Touches(n, id)
  BY <1>3 DEF RowsLeft, Touches, Touched
<1> QED
  BY <1>2, <1>3 DEF Final

-----------------------------------------------------------------------------
(* Steps.                                                                  *)

\* The numbers these invariants compare.
LEMMA Numbers ==
    ASSUME CoreInv, [Next]_vars
    PROVE  /\ cursor \in Nat /\ cursor' \in Nat /\ reached \in Nat
           /\ reached' \in Nat /\ Load \in Nat /\ Load' \in Nat
           /\ finished \subseteq Nat
<1>1. TypeOK /\ TypeOK'
  BY TypeStep DEF CoreInv
<1>2. Load \in Nat /\ Load' \in Nat
  BY <1>1, LoadType, LoadStep, SyncAssumption
<1> QED
  BY <1>1, <1>2, SyncAssumption DEF TypeOK, Checkpoints

LEMMA Wider ==
    \A k, a, b \in Nat : b >= a => \A m \in k .. a - 1 : m \in k .. b - 1
  OBVIOUS

\* What moves the cursor, and the mark of what has been handed out.
LEMMA CursorKinds ==
    ASSUME CoreInv, [Next]_vars
    PROVE  \/ InitIndexer \/ Crash \/ RevertObjects
           \/ \E w \in Worker : TakeCheckpoint(w)
           \/ UNCHANGED <<cursor, reached>>
  BY DEF Next, ProcessStep, vars, Start, RevertProgress, ReceiveCheckpoint,
     StoreTimestamp, InsertObject, RejectObject, DeleteObjects,
     FinishCheckpoint, DatabaseFails, Retry, SaveProgress, SaveFails,
     poolVars, historyVars

\* Workers at work are in a process that is up, at checkpoints handed out.
LEMMA AtWork ==
    ASSUME SeqInv, NEW w \in Worker, pc[w] # "idle"
    PROVE  /\ Up /\ job[w] \in Checkpoints /\ job[w] \in Nat
           /\ job[w] = cursor - 1 /\ job[w] \notin finished
<1>1. CoreInv /\ JobIsLast /\ JobsAreOpen /\ DownIsIdle
  BY DEF SeqInv, SyncInv, CoreInv
<1> QED
  BY <1>1, HeldJob, SyncAssumption DEF JobIsLast, JobsAreOpen, DownIsIdle,
     Checkpoints

\* With one worker, a job is the checkpoint handed out last.
LEMMA LastStep ==
    ASSUME OneWorker, SeqInv, [Next]_vars
    PROVE  JobIsLast'
<1>0. CoreInv /\ JobIsLast /\ DownIsIdle /\ TypeOK
  BY DEF SeqInv, SyncInv, CoreInv
<1>1. CASE UNCHANGED <<phase, cursor, pc, job, row, finished, applied>>
  BY <1>0, <1>1 DEF JobIsLast
<1>2. ASSUME NEW reset \in ResetChoices, Start(reset) PROVE JobIsLast'
  BY <1>0, <1>2 DEF JobIsLast, Start, workerVars, poolVars
<1>3. CASE RevertObjects \/ RevertProgress \/ SaveFails
  BY <1>0, <1>3 DEF JobIsLast, RevertObjects, RevertProgress, SaveFails,
     workerVars, poolVars
<1>4. CASE InitIndexer
  BY <1>0, <1>4 DEF JobIsLast, InitIndexer, DownIsIdle, Up, workerVars
<1>5. CASE Crash
  BY <1>5 DEF JobIsLast, Crash, ForgetMemory
<1>6. ASSUME NEW w \in Worker, TakeCheckpoint(w) PROVE JobIsLast'
  <2>1. job'[w] = cursor /\ cursor' = cursor + 1 /\ cursor \in Nat
    BY <1>0, <1>6, Numbers DEF TypeOK, TakeCheckpoint
  <2>2. \A v \in Worker : v = w
    BY DEF OneWorker
  <2> QED
    BY <2>1, <2>2 DEF JobIsLast
<1>7. ASSUME NEW w \in Worker, LocalStep(w) PROVE JobIsLast'
  BY <1>0, <1>7 DEF JobIsLast, LocalStep
<1>8. ASSUME NEW w \in Worker, FinishCheckpoint(w) PROVE JobIsLast'
  <2>1. pc'[w] = "idle"
    BY <1>0, <1>8 DEF TypeOK, FinishCheckpoint
  <2>2. \A v \in Worker : v = w
    BY DEF OneWorker
  <2> QED
    BY <2>1, <2>2 DEF JobIsLast
<1> QED
  BY <1>0, <1>1, <1>2, <1>3, <1>4, <1>5, <1>6, <1>7, <1>8, StepKinds

\* The one worker brings each row it is past up to date.
LEMMA AttemptsStep ==
    ASSUME OneWorker, SeqInv, [Next]_vars, NEW w \in Worker,
           NEW n \in Checkpoints, NEW id \in Id, Touches(n, id)
    PROVE  AttemptExact(w, n, id)'
<1>0. CoreInv /\ TypeOK /\ DownIsIdle /\ AttemptExact(w, n, id)
  BY DEF SeqInv, SyncInv, CoreInv
<1>1. CASE OwnAction(w)
  <2>1. CASE job[w] = n
    BY <1>0, <1>1, <2>1, OwnStep DEF OwnAction
  <2>2. CASE job[w] # n
    <3>1. job'[w] # n
      BY <1>0, <1>1, <2>2, SyncAssumption DEF TypeOK, Checkpoints, OwnAction,
         ReceiveCheckpoint, StoreTimestamp, InsertObject, RejectObject,
         DeleteObjects, FinishCheckpoint, DatabaseFails, Retry
    <3> QED
      BY <3>1 DEF AttemptExact
  <2> QED
    BY <2>1, <2>2
<1>2. CASE pc'[w] \in {"idle", "receive"}
  BY <1>2 DEF AttemptExact
<1>3. CASE /\ ~OwnAction(w)
           /\ pc'[w] = pc[w] /\ job'[w] = job[w] /\ row'[w] = row[w]
  <2> SUFFICES ASSUME job[w] = n, pc[w] \in {"insert", "delete", "finish"}
               PROVE  AttemptExact(w, n, id)'
    BY <1>3 DEF AttemptExact
  <2>1. ~RevertObjects
    BY <1>0 DEF DownIsIdle, RevertObjects, Up
  <2>2. ~\E v \in Worker : InsertObject(v) \/ DeleteObjects(v)
    BY <1>3 DEF OwnAction, OneWorker
  <2>3. RowsOf(id)' = RowsOf(id)
    BY <1>0, <2>1, <2>2, TouchedTables
  <2> QED
    BY <1>0, <1>3, <2>3 DEF AttemptExact, Wrote, LastRow, Final, RowsLeft
<1> QED
  BY <1>0, <1>1, <1>2, <1>3, WorkerKinds

\* What is exact at k stays so: a worker touches what k leaves open.
LEMMA ExactKeeps ==
    ASSUME SeqInv, [Next]_vars, Vouched, ~RevertObjects,
           NEW k \in Nat, Up => Passed(k), ExactAt(k)
    PROVE  ExactAt(k)'
<1>0. /\ CoreInv /\ Sequential /\ reached \in Nat /\ reached' \in Nat
      /\ cursor \in Nat
  BY Numbers DEF SeqInv, SyncInv
<1>1. reached' >= reached
  <2>1. \A w \in Worker : TakeCheckpoint(w) => reached' >= reached
    BY <1>0, Numbers DEF TakeCheckpoint
  <2>2. InitIndexer \/ Crash => reached' = reached
    BY DEF InitIndexer, Crash, historyVars
  <2> QED
    BY <1>0, <2>1, <2>2, CursorKinds
<1>2. ASSUME NEW id \in Id, \A m \in k .. reached' - 1 : ~Touches(m, id)
      PROVE  RowsOf(id)' = { r \in RowsBelow[k] : r.id = id }
  <2>0. \A m \in k .. reached - 1 : m \in k .. reached' - 1
    BY <1>0, <1>1, Wider
  <2>1. \A m \in k .. reached - 1 : ~Touches(m, id)
    BY <1>2, <2>0
  <2>2. RowsOf(id) = { r \in RowsBelow[k] : r.id = id }
    BY <2>1 DEF ExactAt
  <2>3. ASSUME NEW w \in Worker, InsertObject(w) \/ DeleteObjects(w),
               Touches(job[w], id)
        PROVE  FALSE
    <3>1. pc[w] # "idle"
      BY <2>3 DEF InsertObject, DeleteObjects
    <3>2. Up /\ job[w] \in Nat /\ job[w] = cursor - 1
      BY <3>1, AtWork
    <3>3. k <= job[w] /\ cursor <= reached
      BY <1>0, <3>1, <3>2 DEF Passed, Sequential
    <3>4. job[w] \in k .. reached - 1
      BY <1>0, <3>2, <3>3
    <3> QED
      BY <2>1, <2>3, <3>4
  <2>4. RowsOf(id)' = RowsOf(id)
    BY <1>0, <2>3, TouchedTables
  <2> QED
    BY <2>2, <2>4
<1>3. RowsBelow' = RowsBelow
  BY DEF RowsBelow, RowsLeft, Touches, Touched
<1>4. \A m, id : Touches(m, id)' <=> Touches(m, id)
  BY DEF Touches, Touched
<1> QED
  BY <1>2, <1>3, <1>4 DEF ExactAt

\* When the one worker finishes a checkpoint, the tables are exact past it.
LEMMA ExactGrows ==
    ASSUME OneWorker, SeqInv, [Next]_vars, Vouched,
           NEW w \in Worker, FinishCheckpoint(w)
    PROVE  ExactAt(cursor)'
<1>0. CoreInv /\ Sequential /\ reached \in Nat /\ cursor \in Nat /\ Load \in Nat
  BY Numbers DEF SeqInv, SyncInv
<1> DEFINE n == job[w]
<1>1. pc[w] = "finish" /\ Up /\ n \in Checkpoints /\ n \in Nat /\ cursor = n + 1
  BY <1>0, AtWork DEF FinishCheckpoint
<1> HIDE DEF n
<1>2. UNCHANGED <<cursor, reached, objects>>
  BY DEF FinishCheckpoint, tableVars
<1>3. ExactAt(n)
  <2>1. n >= Load /\ \A v \in Worker : pc[v] # "idle" => n <= job[v]
    BY <1>0, <1>1 DEF CoreInv, JobsAreOpen, OneWorker, n
  <2>2. Passed(n)
    BY <1>0, <1>1, <2>1 DEF Passed
  <2> QED
    BY <1>0, <1>1, <2>2 DEF Sequential
<1>4. n < reached
  BY <1>0, <1>1 DEF Sequential
<1>5. ASSUME NEW id \in Id, \A m \in n + 1 .. reached - 1 : ~Touches(m, id)
      PROVE  RowsOf(id) = { r \in RowsBelow[n + 1] : r.id = id }
  <2>1. CASE Touches(n, id)
    <3>1. RowsOf(id) = Final(n, id)
      BY <1>1, <2>1 DEF SeqInv, AttemptExact, n
    <3> QED
      BY <1>1, <2>1, <3>1, BelowNext
  <2>2. CASE ~Touches(n, id)
    <3>1. \A m \in n .. reached - 1 : m = n \/ m \in n + 1 .. reached - 1
      BY <1>0, <1>1, <1>4
    <3>2. RowsOf(id) = { r \in RowsBelow[n] : r.id = id }
      BY <1>3, <1>5, <2>2, <3>1 DEF ExactAt
    <3> QED
      BY <1>1, <2>2, <3>2, BelowNext
  <2> QED
    BY <2>1, <2>2
<1>6. ExactAt(n + 1)
  BY <1>5 DEF ExactAt
<1>7. RowsBelow' = RowsBelow
  BY DEF RowsBelow, RowsLeft, Touches, Touched
<1>8. \A m, id : Touches(m, id)' <=> Touches(m, id)
  BY DEF Touches, Touched
<1> QED
  BY <1>1, <1>2, <1>6, <1>7, <1>8 DEF ExactAt, RowsOf

\* What is passed after a step was so before, but for what just got finished.
LEMMA PassedStep ==
    ASSUME OneWorker, SeqInv, [Next]_vars, Up, Up', NEW k \in Nat, Passed(k)'
    PROVE  \/ Passed(k)
           \/ k = cursor /\ cursor' = cursor /\ \E w \in Worker : FinishCheckpoint(w)
<1>0. /\ CoreInv /\ TypeOK /\ JobIsLast /\ cursor \in Nat /\ cursor' \in Nat
      /\ Load \in Nat /\ Load' \in Nat /\ Load' >= Load
      /\ k >= Load' /\ k <= cursor'
      /\ \A w \in Worker : pc'[w] # "idle" => k <= job'[w]
  BY Numbers, LoadStep DEF SeqInv, SyncInv, CoreInv, Passed
<1>1. k >= Load
  BY <1>0
<1>2. CASE UNCHANGED <<cursor, pc, job>>
  BY <1>0, <1>1, <1>2 DEF Passed
<1>3. ASSUME NEW w \in Worker, TakeCheckpoint(w) PROVE Passed(k)
  <2>1. pc[w] = "idle" /\ pc'[w] = "receive" /\ job'[w] = cursor
    BY <1>0, <1>3 DEF TypeOK, TakeCheckpoint
  <2>2. k <= cursor
    BY <1>0, <2>1
  <2> QED
    BY <1>0, <1>1, <2>1, <2>2 DEF Passed, OneWorker
<1>4. ASSUME NEW w \in Worker, LocalStep(w) PROVE Passed(k)
  BY <1>0, <1>1, <1>4 DEF Passed, LocalStep
<1>5. ASSUME NEW w \in Worker, FinishCheckpoint(w)
      PROVE  Passed(k) \/ (k = cursor /\ cursor' = cursor)
  <2>1. cursor' = cursor
    BY <1>5 DEF FinishCheckpoint
  <2>2. CASE k = cursor
    BY <2>1, <2>2
  <2>3. CASE k # cursor
    <3>1. k <= cursor - 1
      BY <1>0, <2>1, <2>3
    <3>2. \A v \in Worker : pc[v] # "idle" => k <= job[v]
      BY <1>0, <3>1 DEF JobIsLast
    <3> QED
      BY <1>0, <1>1, <2>1, <3>2 DEF Passed
  <2> QED
    BY <2>2, <2>3
<1>6. ~InitIndexer /\ ~Crash /\ ~RevertObjects /\ ~RevertProgress
      /\ ~\E reset \in ResetChoices : Start(reset)
  BY DEF InitIndexer, Crash, RevertObjects, RevertProgress, Start, Up
<1>7. SaveFails => UNCHANGED <<cursor, pc, job>>
  BY DEF SaveFails, workerVars, poolVars
<1> QED
  BY <1>0, <1>2, <1>3, <1>4, <1>5, <1>6, <1>7, StepKinds

\* A save covers checkpoints the worker is done with.
LEMMA SavedPassed ==
    ASSUME SeqInv, NEW n \in 1 .. LastCheckpoint + 1, SaveProgress(n)
    PROVE  Up /\ n \in Nat /\ Passed(n) /\ n <= cursor /\ Load' = n
<1>0. /\ CoreInv /\ TypeOK /\ JobsAreOpen /\ Load \in Nat /\ cursor \in Nat
      /\ n \in Nat
  <2>1. CoreInv /\ TypeOK /\ JobsAreOpen
    BY DEF SeqInv, SyncInv, CoreInv
  <2> QED
    BY <2>1, LoadType, SyncAssumption DEF TypeOK
<1>1. Up /\ n > Load /\ Load .. n - 1 \subseteq finished /\ Load' = n
  BY <1>0, SyncAssumption DEF SaveProgress, Contiguous, Up, Load
<1>2. n - 1 \in finished
  BY <1>0, <1>1
<1>3. n - 1 \in Nat /\ n - 1 <= cursor - 1
  BY <1>0, <1>1, <1>2 DEF JobsAreOpen
<1>4. ASSUME NEW w \in Worker, pc[w] # "idle" PROVE n <= job[w]
  <2>1. job[w] = cursor - 1 /\ job[w] \notin finished
    BY <1>4, AtWork
  <2>2. n - 1 # cursor - 1
    BY <1>2, <2>1
  <2> QED
    BY <1>0, <1>3, <2>1, <2>2
<1> QED
  BY <1>0, <1>1, <1>3, <1>4 DEF Passed

\* The tables a progress vouches for are those of a sequential run.
LEMMA SequentialStep ==
    ASSUME OneWorker, SeqInv, [Next]_vars, Vouched'
    PROVE  Sequential'
<1>0. /\ SyncInv /\ CoreInv /\ cursor \in Nat /\ cursor' \in Nat
      /\ reached \in Nat /\ reached' \in Nat /\ Load \in Nat /\ Load' \in Nat
  BY Numbers DEF SeqInv, SyncInv
<1>1. CASE RevertProgress /\ Load' = 0
  <2>1. objects' = {} /\ ~Up'
    BY <1>1 DEF RevertProgress, SeqInv, tableVars, Up
  <2>2. ASSUME NEW r PROVE r \notin RowsBelow[0]
    <3>1. 0 \in 0 .. LastCheckpoint + 1 /\ ~\E p \in 0 .. 0 - 1 : TRUE
      BY SyncAssumption
    <3> QED
      BY <3>1, BelowMembers
  <2>3. RowsBelow' = RowsBelow
    BY DEF RowsBelow, RowsLeft, Touches, Touched
  <2>4. ASSUME NEW id \in Id
        PROVE  RowsOf(id)' = { r \in RowsBelow'[0] : r.id = id }
    BY <2>1, <2>2, <2>3 DEF RowsOf
  <2>5. ExactAt(Load)'
    BY <1>1, <2>4 DEF ExactAt
  <2> QED
    BY <1>0, <1>1, <2>1, <2>5 DEF Sequential
<1>2. CASE Vouched /\ ~RevertObjects
  <2>0. Sequential
    BY <1>2 DEF SeqInv
  <2>1. Up => Passed(Load)
    BY <1>0 DEF Passed, CoreInv, JobsAreOpen
  <2>2. CASE InitIndexer
    <3>1. /\ ~Up /\ Load' = Load /\ cursor' = Load /\ reached' = reached
      BY <2>2 DEF InitIndexer, FirstFetched, Load, historyVars, Up
    <3>2. ExactAt(Load)'
      BY <1>0, <1>2, <2>0, <3>1, ExactKeeps DEF Sequential, ExactAt
    <3>3. ASSUME NEW k \in Nat, Passed(k)' PROVE k = Load'
      BY <1>0, <3>1, <3>3 DEF Passed
    <3> QED
      BY <2>0, <3>1, <3>2, <3>3 DEF Sequential
  <2>3. CASE ~InitIndexer
    <3>1. Up' => Up
      BY <1>0, <2>3, StepKinds DEF Up, Start, RevertObjects, RevertProgress,
         Crash, TakeCheckpoint, LocalStep, FinishCheckpoint, SaveFails
    <3>2. ASSUME Up', NEW k \in Nat, Passed(k)' PROVE ExactAt(k)'
      <4>1. CASE Passed(k)
        BY <1>2, <2>0, <3>1, <3>2, <4>1, ExactKeeps DEF Sequential
      <4>2. ASSUME NEW w \in Worker, FinishCheckpoint(w), k = cursor,
                   cursor' = cursor
            PROVE  ExactAt(k)'
        <5>1. ExactAt(cursor)'
          BY <1>2, <4>2, ExactGrows
        <5> QED
          BY <4>2, <5>1 DEF ExactAt
      <4> QED
        BY <3>1, <3>2, <4>1, <4>2, PassedStep
    <3>3. Up' => cursor' <= reached'
      <4>1. \A w \in Worker : TakeCheckpoint(w) => cursor' <= reached'
        BY <1>0 DEF TakeCheckpoint
      <4>2. Crash => ~Up'
        BY DEF Crash, Up
      <4> QED
        BY <1>0, <1>2, <2>0, <2>3, <3>1, <4>1, <4>2, CursorKinds DEF Sequential
    <3>4. Load' <= reached' /\ ExactAt(Load)'
      <4>1. ASSUME NEW n \in 1 .. LastCheckpoint + 1, SaveProgress(n)
            PROVE  Load' <= reached' /\ ExactAt(Load)'
        <5>1. Up /\ n \in Nat /\ Passed(n) /\ n <= cursor /\ Load' = n
          BY <4>1, SavedPassed
        <5>2. reached' = reached
          BY <4>1 DEF SaveProgress, historyVars
        <5>3. ExactAt(n)'
          BY <1>2, <2>0, <5>1, ExactKeeps DEF Sequential
        <5> QED
          BY <1>0, <2>0, <5>1, <5>2, <5>3 DEF Sequential, ExactAt
      <4>2. CASE Load' = Load
        <5>1. ExactAt(Load)'
          <6>1. ASSUME NEW k \in Nat, k = Load PROVE ExactAt(k)'
            BY <1>2, <2>0, <2>1, <6>1, ExactKeeps DEF Sequential
          <6> QED
            BY <1>0, <4>2, <6>1 DEF ExactAt
        <5>2. reached' >= reached
          <6>1. \A w \in Worker : TakeCheckpoint(w) => reached' >= reached
            BY <1>0 DEF TakeCheckpoint
          <6>2. Crash => reached' = reached
            BY DEF Crash, historyVars
          <6> QED
            BY <1>0, <1>2, <2>3, <6>1, <6>2, CursorKinds
        <5> QED
          BY <1>0, <2>0, <4>2, <5>1, <5>2 DEF Sequential
      <4>3. CASE RevertProgress
        BY <1>2, <4>3 DEF RevertProgress, Vouched, SeqInv, SyncInv,
           SavedAreApplied, Serving
      <4> QED
        BY <4>1, <4>2, <4>3 DEF Next, ProcessStep, vars, Start, RevertObjects,
           InitIndexer, Crash, TakeCheckpoint, ReceiveCheckpoint,
           StoreTimestamp, InsertObject, RejectObject, DeleteObjects,
           FinishCheckpoint, DatabaseFails, Retry, SaveFails, Load
    <3> QED
      BY <3>2, <3>3, <3>4 DEF Sequential
  <2> QED
    BY <2>2, <2>3
<1> QED
  BY <1>0, <1>1, <1>2, VouchedStep

-----------------------------------------------------------------------------
(* The timestamp.                                                          *)

\* The timestamp is of a checkpoint no later than the one handed out last, of the
\* very one whose rows are written, and of none that is older than one finished.
TimestampIsLatest ==
    \A n \in finished : /\ latest_timestamp # None
                        /\ latest_timestamp >= Timestamp[n]

ClockInv ==
    /\ latest_timestamp # None =>
         /\ Up /\ cursor - 1 \in Checkpoints
         /\ latest_timestamp <= Timestamp[cursor - 1]
    /\ \A w \in Worker : pc[w] \in {"insert", "delete", "finish"} =>
         latest_timestamp = Timestamp[job[w]]
    /\ TimestampIsLatest

\* The timestamp goes forward until the process ends.
ClockAdvances ==
    latest_timestamp # None /\ phase' # "down" =>
        latest_timestamp' # None /\ latest_timestamp' >= latest_timestamp

\* What moves the timestamp.
LEMMA ClockKinds ==
    ASSUME CoreInv, [Next]_vars
    PROVE  \/ Crash
           \/ \E w \in Worker : StoreTimestamp(w)
           \/ UNCHANGED latest_timestamp
  BY DEF Next, ProcessStep, vars, Start, RevertObjects, RevertProgress,
     InitIndexer, TakeCheckpoint, ReceiveCheckpoint, InsertObject,
     RejectObject, DeleteObjects, FinishCheckpoint, DatabaseFails, Retry,
     SaveProgress, SaveFails, globalVars

\* The timestamps of the chain are numbers, so none is None.
LEMMA TimestampType ==
    \A n \in Checkpoints : Timestamp[n] \in Nat /\ Timestamp[n] # None
  BY SyncAssumption

\* The timestamp is stored for the checkpoint handed out last.
LEMMA StoreKinds ==
    ASSUME SeqInv, ClockInv, MonotoneTimestamps,
           NEW w \in Worker, StoreTimestamp(w)
    PROVE  /\ job[w] = cursor - 1 /\ cursor - 1 \in Checkpoints /\ Up
           /\ latest_timestamp' = Timestamp[cursor - 1]
           /\ latest_timestamp # None => latest_timestamp' >= latest_timestamp
           /\ \A n \in finished : latest_timestamp' >= Timestamp[n]
<1>1. /\ job[w] = cursor - 1 /\ job[w] \in Checkpoints /\ Up
      /\ latest_timestamp' = Timestamp[cursor - 1]
  BY AtWork DEF StoreTimestamp, NewTimestamp
<1>2. latest_timestamp # None => latest_timestamp' >= latest_timestamp
  <2>1. latest_timestamp # None =>
          /\ latest_timestamp <= Timestamp[cursor - 1]
          /\ latest_timestamp \in Nat
    BY DEF ClockInv, SeqInv, SyncInv, CoreInv, TypeOK
  <2> QED
    BY <1>1, <2>1, TimestampType
<1>3. ASSUME NEW n \in finished PROVE latest_timestamp' >= Timestamp[n]
  <2>1. /\ n \in Checkpoints /\ n \in 0 .. cursor - 1 /\ cursor \in Nat
        /\ cursor - 1 \in Checkpoints
    BY <1>1, SyncAssumption DEF SeqInv, SyncInv, CoreInv, TypeOK, JobsAreOpen
  <2>2. n <= cursor - 1
    BY <2>1
  <2>3. Timestamp[n] <= Timestamp[cursor - 1]
    BY <2>1, <2>2 DEF MonotoneTimestamps
  <2> QED
    BY <1>1, <2>1, <2>3, TimestampType
<1> QED
  BY <1>1, <1>2, <1>3

\* Each step keeps the timestamp the latest one and takes it forward.
LEMMA ClockStep ==
    ASSUME OneWorker, MonotoneTimestamps, SeqInv, ClockInv, [Next]_vars
    PROVE  ClockInv' /\ ClockAdvances
<1>0. /\ CoreInv /\ TypeOK /\ TypeOK' /\ JobIsLast /\ DownIsIdle
      /\ cursor \in Nat /\ cursor' \in Nat
      /\ finished \subseteq Checkpoints
      /\ latest_timestamp \in Nat \cup {None}
  BY TypeStep, Numbers DEF SeqInv, SyncInv, CoreInv, TypeOK
<1>1. CASE Crash
  <2>1. /\ latest_timestamp' = None /\ finished' = {} /\ phase' = "down"
        /\ \A w \in Worker : pc'[w] = "idle"
    BY <1>1 DEF Crash, ForgetMemory
  <2> QED
    BY <2>1 DEF ClockInv, ClockAdvances, TimestampIsLatest
<1>2. ASSUME NEW w \in Worker, StoreTimestamp(w)
      PROVE  ClockInv' /\ ClockAdvances
  <2>1. /\ job[w] = cursor - 1 /\ cursor - 1 \in Checkpoints /\ Up
        /\ latest_timestamp' = Timestamp[cursor - 1]
        /\ latest_timestamp # None => latest_timestamp' >= latest_timestamp
        /\ \A n \in finished : latest_timestamp' >= Timestamp[n]
    BY <1>2, StoreKinds
  <2>2. UNCHANGED <<phase, cursor, job, finished>>
    BY <1>2 DEF StoreTimestamp, poolVars
  <2>3. \A v \in Worker : v = w
    BY DEF OneWorker
  <2>4. latest_timestamp' # None /\ latest_timestamp' <= Timestamp[cursor - 1]
    BY <2>1, TimestampType
  <2>5. TimestampIsLatest'
    BY <2>1, <2>2, <2>4 DEF TimestampIsLatest
  <2> QED
    BY <2>1, <2>2, <2>3, <2>4, <2>5 DEF ClockInv, ClockAdvances, Up
<1>3. CASE UNCHANGED latest_timestamp /\ ~Crash
           /\ ~\E w \in Worker : StoreTimestamp(w)
  <2>1. ClockAdvances
    BY <1>0, <1>3 DEF ClockAdvances
  <2>2. latest_timestamp' # None =>
          /\ Up' /\ cursor' - 1 \in Checkpoints
          /\ latest_timestamp' <= Timestamp[cursor' - 1]
    <3> SUFFICES ASSUME latest_timestamp # None
                 PROVE  /\ Up' /\ cursor' - 1 \in Checkpoints
                        /\ latest_timestamp' <= Timestamp[cursor' - 1]
      BY <1>3
    <3>1. Up /\ latest_timestamp \in Nat /\ cursor - 1 \in Checkpoints
          /\ latest_timestamp <= Timestamp[cursor - 1]
      BY <1>0 DEF ClockInv
    <3>2. Up'
      BY <1>0, <1>3, <3>1, StepKinds DEF Up, Start, RevertObjects,
         RevertProgress, InitIndexer, TakeCheckpoint, LocalStep,
         FinishCheckpoint, SaveFails
    <3>3. CASE cursor' = cursor
      BY <1>3, <3>1, <3>2, <3>3
    <3>4. ASSUME NEW w \in Worker, TakeCheckpoint(w)
          PROVE  /\ cursor' - 1 \in Checkpoints
                 /\ latest_timestamp <= Timestamp[cursor' - 1]
      <4>1. cursor' - 1 = cursor /\ cursor \in Checkpoints /\ cursor - 1 <= cursor
        BY <1>0, <3>4 DEF TakeCheckpoint
      <4>2. Timestamp[cursor - 1] <= Timestamp[cursor]
        BY <3>1, <4>1 DEF MonotoneTimestamps
      <4> QED
        BY <3>1, <4>1, <4>2, TimestampType
    <3>5. ~InitIndexer /\ ~RevertObjects
      BY <3>1 DEF InitIndexer, RevertObjects, Up
    <3> QED
      BY <1>0, <1>3, <3>2, <3>3, <3>4, <3>5, CursorKinds
  <2>3. ASSUME NEW w \in Worker, pc'[w] \in {"insert", "delete", "finish"}
        PROVE  latest_timestamp' = Timestamp[job'[w]]
    <3>1. CASE OwnAction(w)
      <4>1. /\ job'[w] = job[w]
            /\ pc[w] \in {"insert", "delete", "finish"}
        BY <1>0, <1>3, <2>3, <3>1 DEF TypeOK, OwnAction, ReceiveCheckpoint,
           InsertObject, RejectObject, DeleteObjects, FinishCheckpoint,
           DatabaseFails, Retry, OnError
      <4> QED
        BY <1>3, <4>1 DEF ClockInv
    <3>2. CASE pc'[w] = pc[w] /\ job'[w] = job[w]
      BY <1>3, <2>3, <3>2 DEF ClockInv
    <3> QED
      BY <1>0, <2>3, <3>1, <3>2, WorkerKinds
  <2>4. TimestampIsLatest'
    <3>1. ASSUME NEW w \in Worker, FinishCheckpoint(w)
          PROVE  TimestampIsLatest'
      <4>1. /\ finished' = finished \cup {job[w]} /\ job[w] \in Checkpoints
            /\ latest_timestamp = Timestamp[job[w]]
        BY <1>0, <3>1, HeldJob DEF FinishCheckpoint, ClockInv
      <4>2. latest_timestamp # None /\ latest_timestamp >= Timestamp[job[w]]
        BY <4>1, TimestampType
      <4> QED
        BY <1>3, <4>1, <4>2 DEF ClockInv, TimestampIsLatest
    <3>2. finished' \subseteq finished => TimestampIsLatest'
      BY <1>3 DEF ClockInv, TimestampIsLatest
    <3> QED
      BY <1>0, <3>1, <3>2, GaugeKinds
  <2> QED
    BY <2>1, <2>2, <2>3, <2>4 DEF ClockInv
<1> QED
  BY <1>0, <1>1, <1>2, <1>3, ClockKinds

-----------------------------------------------------------------------------
(* Theorems.                                                               *)

LEMMA SeqInit == Init => SeqInv
<1> SUFFICES ASSUME Init PROVE SeqInv
  OBVIOUS
<1>1. SyncInv
  BY InitInv
<1>2. /\ Load = 0 /\ reached = 0 /\ objects = {} /\ ~Up /\ None \notin Checkpoints
      /\ \A w \in Worker : pc[w] = "idle" /\ job[w] = None
  BY SyncAssumption DEF Init, Load, Up, Checkpoints
<1>3. ASSUME NEW r PROVE r \notin RowsBelow[0]
  <2>1. 0 \in 0 .. LastCheckpoint + 1 /\ ~\E p \in 0 .. 0 - 1 : TRUE
    BY SyncAssumption
  <2> QED
    BY <2>1, BelowMembers
<1>4. ExactAt(Load)
  BY <1>2, <1>3 DEF ExactAt, RowsOf
<1>5. Sequential
  BY <1>2, <1>4 DEF Sequential
<1> QED
  BY <1>1, <1>2, <1>5 DEF SeqInv, JobIsLast, AttemptExact

LEMMA SeqStep ==
    ASSUME OneWorker, SeqInv, [Next]_vars
    PROVE  SeqInv'
<1>0. SyncInv /\ CoreInv
  BY DEF SeqInv, SyncInv
<1>1. SyncInv'
  BY <1>0, NextInv
<1>2. phase' = "revert_progress" => objects' = {}
  <2>1. RevertObjects => objects' = {}
    BY DEF RevertObjects
  <2>2. phase' = "revert_progress" /\ ~RevertObjects => phase = "revert_progress"
    BY <1>0, StepKinds DEF Start, RevertProgress, InitIndexer, Crash,
       TakeCheckpoint, LocalStep, FinishCheckpoint, SaveFails, Up
  <2>3. phase = "revert_progress" /\ ~RevertObjects => UNCHANGED objects
    <3>1. phase = "revert_progress" => \A w \in Worker : pc[w] = "idle"
      BY <1>0 DEF CoreInv, DownIsIdle, Up
    <3> QED
      BY <1>0, <3>1, TableSteps DEF InsertObject, DeleteObjects
  <2> QED
    BY <2>1, <2>2, <2>3 DEF SeqInv
<1>3. ASSUME NEW w \in Worker, NEW n \in Checkpoints, NEW id \in Id,
             Touches(n, id)
      PROVE  AttemptExact(w, n, id)'
  BY <1>3, AttemptsStep
<1>4. \A m, id : Touches(m, id)' <=> Touches(m, id)
  BY DEF Touches, Touched
<1> QED
  BY <1>1, <1>2, <1>3, <1>4, LastStep, SequentialStep DEF SeqInv

\* With one worker the inductive invariant holds in every reachable state.
THEOREM SeqInvariance ==
    ASSUME OneWorker
    PROVE  Spec => []SeqInv
<1>1. SeqInv /\ [Next]_vars => SeqInv'
  BY SeqStep
<1> QED
  BY <1>1, SeqInit, PTL DEF Spec

\* With one worker, and --reset-db the same at every start, the tables are those
\* of checkpoints processed one by one, whatever fails, crashes and is replayed.
THEOREM TablesAreSequential ==
    ASSUME OneWorker, NoReset \/ AlwaysReset
    PROVE  Spec => []SequentialRows
<1>1. SeqInv => SequentialRows
  BY DEF SeqInv, Sequential, ExactAt, SequentialRows, Vouched
<1> QED
  BY <1>1, SeqInvariance, PTL
=============================================================================
