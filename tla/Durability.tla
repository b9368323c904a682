----------------------------- MODULE Durability -----------------------------
(***************************************************************************)
(* What a power failure does to CheckpointSync. The progress store is      *)
(* always opened with SQLite's defaults, so a saved progress is on the     *)
(* disk when save returns. The objects database is too, unless             *)
(* --enable-wal is given: then synchronous = NORMAL leaves commits in the  *)
(* write-ahead log, and a power failure takes all those back that were not *)
(* synchronised yet.                                                       *)
(*                                                                         *)
(* A crash of the process alone (Crash) loses no commit in either mode.    *)
(***************************************************************************)
EXTENDS CheckpointSyncProps

CONSTANT WalChoices   \* values --enable-wal may take, the same at each start

ASSUME WalAssumption == WalChoices \in (SUBSET BOOLEAN) \ {{}}

VARIABLES
    enable_wal,  \* what the processes are started with; never changes
    disk,        \* the tables that a power failure leaves
    suspect      \* history: an unfinished reset or a lost commit is not repaired

durableVars == <<vars, enable_wal, disk, suspect>>

DurableInit ==
    /\ Init
    /\ enable_wal \in WalChoices
    /\ disk = tableVars
    /\ suspect = FALSE

\* A commit is on the disk when it returns, except with a write-ahead log.
BrokenDurable == FALSE
Durable == ~enable_wal

Commit == disk' = IF Durable /\ tableVars' # tableVars THEN tableVars' ELSE disk

\* A process that dies between the two reverts leaves a reset half done.
HalfReset == phase = "revert_progress"

SyncStep ==
    /\ Next
    /\ UNCHANGED enable_wal
    /\ Commit
    /\ suspect' = CASE HalfReset /\ phase' = "down" -> TRUE
                    [] HalfReset /\ phase' = "init" -> FALSE
                    [] OTHER -> suspect

\* SQLite synchronises the log now and then, to checkpoint it.
Flush ==
    /\ disk # tableVars
    /\ disk' = tableVars
    /\ UNCHANGED <<vars, enable_wal, suspect>>

\* The machine loses its power: memory, and what is only in the log, is gone.
PowerFailure ==
    /\ crashes < MaxCrashes
    /\ crashes' = crashes + 1
    /\ phase' = "down"
    /\ ForgetMemory
    /\ objects' = disk[1]
    /\ expiration_unlock_conditions' = disk[2]
    /\ applied' = IF disk = tableVars THEN applied ELSE {}
    /\ suspect' = (suspect \/ HalfReset \/ (enable_wal /\ disk # tableVars))
    /\ UNCHANGED <<last_checkpoint_sync, failures, reached, enable_wal, disk>>

DurableNext == SyncStep \/ Flush \/ PowerFailure

DurableSpec == DurableInit /\ [][DurableNext]_durableVars

-----------------------------------------------------------------------------
(* Properties.                                                             *)

\* An output below the stored progress is lost in two ways only: a reset that
\* ended between its two databases, or a power failure that took commits back
\* which only --enable-wal leaves in memory. In every other history of
\* attempts, crashes, resets and power failures the progress store vouches for
\* rows that are there (main.rs:96-97, 126-133, db.rs:80-82).
LossHasACause == ~suspect => NoLostOutput

\* And those two causes are the only ones to leave a row behind that is wrong:
\* otherwise an object that one checkpoint alone touches has the row which that
\* checkpoint leaves, through replays, failed attempts, resets of the databases
\* and power failures (worker.rs:75-121, main.rs:126-133, db.rs:80-82).
ExactUnlessSuspect == ~suspect => UncontestedRows

-----------------------------------------------------------------------------
(* The inductive invariant behind the theorem of DurabilityProofs.         *)

\* What a power failure leaves is what some prefix of the commits left.
DiskIsPaired ==
    LET objs  == disk[1]
        conds == disk[2]
    IN  /\ objs \in SUBSET StoredObject /\ conds \in SUBSET UnlockRow
        /\ \A o, p \in objs : o.id = p.id => o = p
        /\ \A o \in objs : HasExpiration(o)
        /\ conds = { Condition(o) : o \in objs }

\* With the defaults of SQLite nothing is in memory only.
DiskIsCurrent == Durable => disk = tableVars

\* Whatever is saved is applied, unless that is known to be in doubt.
SavedUnlessSuspect ==
    ~suspect /\ ~HalfReset => 0 .. Load - 1 \subseteq applied

DurableInv ==
    /\ CoreInv
    /\ enable_wal \in BOOLEAN
    /\ suspect \in BOOLEAN
    /\ DiskIsPaired
    /\ DiskIsCurrent
    /\ SavedUnlessSuspect
=============================================================================
