-------------------------- MODULE DurabilityProofs --------------------------
(***************************************************************************)
(* What power failures do to the rows, for all values of the constants.    *)
(* The steps of CheckpointSync preserve CoreInv by CheckpointSyncProofs    *)
(* and WorkExact by ExactRowsProofs; what is new here is the power         *)
(* failure, and arguments that do not fix the choice of --reset-db as      *)
(* NothingLost and RowsUncontested do.                                     *)
(***************************************************************************)
EXTENDS Durability, ExactRowsProofs

\* At the start the disk holds the empty tables.
LEMMA DurableInitInv == DurableInit => DurableInv
<1> SUFFICES ASSUME DurableInit PROVE DurableInv
  OBVIOUS
<1>1. CoreInv
  BY InitInv DEF DurableInit, SyncInv
<1>2. enable_wal \in BOOLEAN /\ suspect \in BOOLEAN
  BY WalAssumption DEF DurableInit
<1>3. DiskIsPaired /\ DiskIsCurrent
  BY DEF DurableInit, Init, DiskIsPaired, DiskIsCurrent, tableVars
<1>4. SavedUnlessSuspect
  BY DEF DurableInit, Init, SavedUnlessSuspect, Load
<1> QED
  BY <1>1, <1>2, <1>3, <1>4 DEF DurableInv

\* A reset that is half done is completed, or is suspect from then on.
LEMMA HalfResetEnds ==
    ASSUME CoreInv, SyncStep, ~RevertProgress, ~HalfReset', ~suspect'
    PROVE  ~HalfReset
<1>1. ASSUME HalfReset PROVE phase' = phase \/ phase' = "down"
  BY <1>1, StepKinds DEF HalfReset, SyncStep, Start, RevertObjects, InitIndexer,
     Crash, TakeCheckpoint, LocalStep, FinishCheckpoint, SaveFails, Up
<1> QED
  BY <1>1 DEF HalfReset, SyncStep

\* A step of CheckpointSync: a commit goes to the disk or stays in the log.
LEMMA SyncStepInv ==
    ASSUME DurableInv, SyncStep
    PROVE  DurableInv'
<1>1. /\ CoreInv /\ [Next]_vars
      /\ enable_wal' = enable_wal
  BY DEF DurableInv, SyncStep
<1>2. CoreInv'
  BY <1>1, CoreStep
<1>3. suspect' \in BOOLEAN
  BY DEF DurableInv, SyncStep
<1>4. disk' = disk \/ disk' = tableVars'
  BY DEF SyncStep, Commit
<1>5. DiskIsPaired'
  <2>1. CASE disk' = disk
    BY <2>1 DEF DurableInv, DiskIsPaired, HasExpiration, Condition
  <2>2. CASE disk' = tableVars'
    BY <1>2, <2>2 DEF CoreInv, TypeOK, PairedTables, DiskIsPaired, tableVars
  <2> QED
    BY <1>4, <2>1, <2>2
<1>6. DiskIsCurrent'
  BY <1>1 DEF DurableInv, DiskIsCurrent, Durable, SyncStep, Commit
<1>7. SavedUnlessSuspect'
  <2>1. CASE RevertObjects
    BY <2>1 DEF RevertObjects, SavedUnlessSuspect, HalfReset
  <2>2. CASE RevertProgress
    BY <2>2 DEF RevertProgress, DropProgress, Load, SavedUnlessSuspect
  <2>3. CASE ~RevertObjects /\ ~RevertProgress
    <3> SUFFICES ASSUME ~suspect', ~HalfReset'
                 PROVE  (0 .. Load - 1)' \subseteq applied'
      BY DEF SavedUnlessSuspect
    <3>1. ~HalfReset
      BY <1>1, <2>3, HalfResetEnds
    <3>2. ~suspect
      BY <3>1 DEF SyncStep, DurableInv
    <3>3. 0 .. Load - 1 \subseteq applied
      BY <3>1, <3>2 DEF DurableInv, SavedUnlessSuspect
    <3> QED
      BY <1>1, <2>3, <3>3, SavedGrows
  <2> QED
    BY <2>1, <2>2, <2>3
<1> QED
  BY <1>1, <1>2, <1>3, <1>5, <1>6, <1>7 DEF DurableInv

\* Synchronising the log changes no table.
LEMMA FlushInv ==
    ASSUME DurableInv, Flush
    PROVE  DurableInv'
<1>1. UNCHANGED <<vars, enable_wal, suspect>> /\ disk' = tableVars
  BY DEF Flush
<1>2. CoreInv'
  BY <1>1, CoreStep DEF DurableInv
<1>3. disk' = tableVars'
  BY <1>1 DEF vars, tableVars
<1>4. DiskIsPaired' /\ DiskIsCurrent'
  BY <1>2, <1>3
  DEF CoreInv, TypeOK, PairedTables, DiskIsPaired, DiskIsCurrent, tableVars
<1>5. SavedUnlessSuspect'
  BY <1>1 DEF DurableInv, SavedUnlessSuspect, HalfReset, Load, vars, historyVars
<1> QED
  BY <1>1, <1>2, <1>4, <1>5 DEF DurableInv

\* A power failure leaves no worker, paired tables and the saved progress; it
\* is suspect whenever the tables are not those of a moment before.
LEMMA PowerFailureInv ==
    ASSUME DurableInv, PowerFailure
    PROVE  DurableInv'
<1>1. /\ CoreInv /\ DiskIsPaired /\ TypeOK
      /\ disk' = disk /\ enable_wal' = enable_wal
      /\ objects' = disk[1] /\ expiration_unlock_conditions' = disk[2]
      /\ finished' = {} /\ phase' = "down"
      /\ \A w \in Worker : pc'[w] = "idle"
      /\ last_checkpoint_sync' = last_checkpoint_sync
      /\ Load' = Load
  BY DEF DurableInv, CoreInv, PowerFailure, ForgetMemory, Load
<1>2. TypeOK'
  <2>1. crashes' \in 0 .. MaxCrashes
    BY <1>1, SyncAssumption DEF PowerFailure, TypeOK
  <2>2. metrics' \in Metrics
    BY SyncAssumption
    DEF PowerFailure, ForgetMemory, NoMetrics, Metrics, Checkpoints
  <2>3. applied' \in SUBSET Checkpoints
    BY <1>1 DEF PowerFailure, TypeOK
  <2> QED
    BY <1>1, <2>1, <2>2, <2>3, SyncAssumption
    DEF PowerFailure, ForgetMemory, TypeOK, DiskIsPaired, Phases, Control
<1>3. DownIsIdle' /\ RowsInOrder' /\ FinishedAreSound' /\ FinishedInReach'
      /\ IndexedGauge'
  BY <1>1 DEF DownIsIdle, RowsInOrder, FinishedAreSound, FinishedInReach,
     IndexedGauge
<1>4. JobsAreOpen'
  BY <1>1 DEF JobsAreOpen, Up
<1>5. \A w \in Worker : PastRows(w)' = {}
  BY <1>1 DEF PastRows
<1>6. RowsAccepted'
  BY <1>1, <1>5 DEF RowsAccepted
<1>7. RowsPresent'
  <2>1. CASE disk = tableVars
    <3>1. objects' = objects /\ applied' = applied
      BY <1>1, <2>1 DEF PowerFailure, tableVars
    <3> QED
      BY <1>1, <1>5, <3>1 DEF CoreInv, RowsPresent, RowsOf, NeverRemoved
  <2>2. CASE disk # tableVars
    BY <1>5, <2>2 DEF PowerFailure, RowsPresent
  <2> QED
    BY <2>1, <2>2
<1>8. PairedTables'
  BY <1>1 DEF PairedTables, DiskIsPaired, HasExpiration, Condition
<1>9. PoisonNeverPassed'
  BY <1>1 DEF CoreInv, PoisonNeverPassed, Poisoned, HasExpiration
<1>10. CoreInv'
  BY <1>2, <1>3, <1>4, <1>6, <1>7, <1>8, <1>9 DEF CoreInv
<1>11. suspect' \in BOOLEAN
  BY DEF DurableInv, PowerFailure
<1>12. DiskIsPaired' /\ DiskIsCurrent'
  <2>1. DiskIsPaired'
    BY <1>1 DEF DiskIsPaired, HasExpiration, Condition
  <2>2. ASSUME Durable' PROVE disk' = tableVars'
    <3>1. disk = tableVars
      BY <1>1, <2>2 DEF DurableInv, DiskIsCurrent, Durable
    <3> QED
      BY <1>1, <3>1 DEF tableVars
  <2> QED
    BY <2>1, <2>2 DEF DiskIsCurrent
<1>13. SavedUnlessSuspect'
  <2> SUFFICES ASSUME ~suspect'
               PROVE  (0 .. Load - 1)' \subseteq applied'
    BY DEF SavedUnlessSuspect
  <2>1. ~suspect /\ ~HalfReset /\ (enable_wal => disk = tableVars)
    BY DEF PowerFailure
  <2>2. disk = tableVars
    BY <2>1 DEF DurableInv, DiskIsCurrent, Durable
  <2>3. applied' = applied
    BY <2>2 DEF PowerFailure
  <2> QED
    BY <1>1, <2>1, <2>3 DEF DurableInv, SavedUnlessSuspect
<1> QED
  BY <1>1, <1>10, <1>11, <1>12, <1>13 DEF DurableInv

\* Every step preserves the invariant.
LEMMA DurableStep == DurableInv /\ [DurableNext]_durableVars => DurableInv'
<1> SUFFICES ASSUME DurableInv, [DurableNext]_durableVars PROVE DurableInv'
  OBVIOUS
<1>1. CASE DurableNext
  BY <1>1, SyncStepInv, FlushInv, PowerFailureInv DEF DurableNext
<1>2. CASE UNCHANGED durableVars
  <2>1. CoreInv'
    BY <1>2, CoreStep DEF durableVars, DurableInv
  <2> QED
    BY <1>2, <2>1
    DEF durableVars, DurableInv, DiskIsPaired, DiskIsCurrent, Durable, tableVars,
        SavedUnlessSuspect, HalfReset, Load, vars, historyVars, HasExpiration,
        Condition
<1> QED
  BY <1>1, <1>2

-----------------------------------------------------------------------------
(* The rows of objects that one checkpoint alone touches.                  *)

DurableExact ==
    /\ DurableInv
    /\ WorkExact
    /\ ~suspect /\ ~HalfReset => SavedExact

LEMMA DurableExactInit == DurableInit => DurableExact
<1> SUFFICES ASSUME DurableInit PROVE DurableExact
  OBVIOUS
<1>1. WorkExact /\ Load = 0
  BY DEF DurableInit, Init, WorkExact, AttemptExact, Load
<1> QED
  BY <1>1, DurableInitInv, NothingSaved DEF DurableExact

\* A step of CheckpointSync keeps what it may vouch for: a complete reset leaves
\* nothing saved, and one that is cut in two is suspect.
LEMMA SyncStepExact ==
    ASSUME DurableExact, SyncStep
    PROVE  WorkExact' /\ (~suspect' /\ ~HalfReset' => SavedExact')
<1>1. CoreInv /\ WorkExact /\ [Next]_vars /\ suspect \in BOOLEAN
  BY DEF DurableExact, DurableInv, SyncStep
<1>2. WorkExact'
  BY <1>1, WorkStep
<1>3. ASSUME ~suspect', ~HalfReset' PROVE SavedExact'
  <2>1. CASE RevertObjects
    BY <1>3, <2>1 DEF RevertObjects, HalfReset
  <2>2. CASE RevertProgress
    <3>1. Load' = 0
      BY <2>2 DEF RevertProgress, DropProgress, Load
    <3> QED
      BY <3>1, NothingSaved
  <2>3. CASE ~RevertObjects /\ ~RevertProgress
    <3>1. ~HalfReset
      BY <1>1, <1>3, <2>3, HalfResetEnds
    <3>2. ~suspect
      BY <1>1, <1>3, <3>1 DEF SyncStep
    <3> QED
      BY <1>1, <2>3, <3>1, <3>2, SavedExactStep DEF DurableExact
  <2> QED
    BY <2>1, <2>2, <2>3
<1> QED
  BY <1>2, <1>3

\* A power failure that is not suspect leaves the rows where they were.
LEMMA PowerFailureExact ==
    ASSUME DurableExact, PowerFailure
    PROVE  WorkExact' /\ (~suspect' /\ ~HalfReset' => SavedExact')
<1>1. /\ finished' = {} /\ \A w \in Worker : pc'[w] = "idle"
      /\ Load' = Load /\ objects' = disk[1]
  BY DEF PowerFailure, ForgetMemory, Load
<1>2. WorkExact'
  BY <1>1 DEF WorkExact, AttemptExact
<1>3. ASSUME ~suspect' PROVE SavedExact'
  <2>1. ~suspect /\ ~HalfReset /\ (enable_wal => disk = tableVars)
    BY <1>3 DEF PowerFailure
  <2>2. disk = tableVars
    BY <2>1 DEF DurableExact, DurableInv, DiskIsCurrent, Durable
  <2>3. objects' = objects
    BY <1>1, <2>2 DEF tableVars
  <2>4. SavedExact
    BY <2>1 DEF DurableExact
  <2> QED
    BY <1>1, <2>3, <2>4
    DEF SavedExact, Sole, Final, RowsOf, RowsLeft, Touches, Touched
<1> QED
  BY <1>2, <1>3

LEMMA DurableExactStep ==
    DurableExact /\ [DurableNext]_durableVars => DurableExact'
<1> SUFFICES ASSUME DurableExact, [DurableNext]_durableVars PROVE DurableExact'
  OBVIOUS
<1>1. DurableInv'
  BY DurableStep DEF DurableExact
<1>2. CASE SyncStep
  BY <1>1, <1>2, SyncStepExact DEF DurableExact
<1>3. CASE PowerFailure
  BY <1>1, <1>3, PowerFailureExact DEF DurableExact
<1>4. CASE Flush \/ UNCHANGED durableVars
  <2>1. UNCHANGED <<vars, suspect>>
    BY <1>4 DEF Flush, durableVars
  <2>2. WorkExact'
    BY <2>1, WorkStep DEF DurableExact, DurableInv
  <2>3. SavedExact' = SavedExact /\ HalfReset' = HalfReset
    BY <2>1 DEF vars, tableVars, SavedExact, Sole, Final, RowsOf, RowsLeft,
       Touches, Touched, Load, HalfReset
  <2> QED
    BY <1>1, <2>1, <2>2, <2>3 DEF DurableExact
<1> QED
  BY <1>2, <1>3, <1>4 DEF DurableNext

-----------------------------------------------------------------------------
(* Theorems.                                                               *)

\* The inductive invariant holds in every reachable state: the tables a power
\* failure would leave are paired, and what is saved is applied unless a reset
\* was cut in two or a write-ahead log was lost.
THEOREM DurableInvariance == DurableSpec => []DurableInv
  BY DurableInitInv, DurableStep, PTL DEF DurableSpec

\* Outputs below the progress are lost to those two causes only, whatever the
\* chain, the workers and the order of crashes, resets and power failures.
THEOREM LossesHaveACause == DurableSpec => []LossHasACause
<1>1. DurableInv => LossHasACause
  <2> SUFFICES ASSUME DurableInv, ~suspect PROVE NoLostOutput
    BY DEF LossHasACause
  <2>1. Serving => 0 .. Load - 1 \subseteq applied
    BY DEF DurableInv, SavedUnlessSuspect, HalfReset, Serving
  <2> QED
    BY <2>1, SavedArePresent DEF DurableInv
<1> QED
  BY <1>1, DurableInvariance, PTL

\* The inductive invariant holds: what attempts have got to is exact, and what
\* is saved is unless it is in doubt.
THEOREM DurableExactInvariance == DurableSpec => []DurableExact
  BY DurableExactInit, DurableExactStep, PTL DEF DurableSpec

\* Those two causes aside, an object that one checkpoint alone touches has its
\* exact row below the progress: --reset-db may come and go between starts.
THEOREM RowsExactOrSuspect == DurableSpec => []ExactUnlessSuspect
<1>1. DurableExact => ExactUnlessSuspect
  <2> SUFFICES ASSUME DurableExact, ~suspect PROVE UncontestedRows
    BY DEF ExactUnlessSuspect
  <2>1. Serving => SavedExact
    BY DEF DurableExact, HalfReset, Serving
  <2> QED
    BY <2>1, ExactWhenServing DEF DurableExact, DurableInv
<1> QED
  BY <1>1, DurableExactInvariance, PTL

\* The two tables agree row by row, after a power failure too.
THEOREM PairedAfterPowerFailure == DurableSpec => []PairedTables
  BY DurableInvariance, PTL DEF DurableInv, CoreInv
=============================================================================
