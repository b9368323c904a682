------------------------ MODULE ConnectionPoolProofs ------------------------
(***************************************************************************)
(* Proofs about ConnectionPool, for any number of tasks, threads and       *)
(* connections and programs of any length: who holds what follows from     *)
(* where everyone is (PoolInv), and from that nobody waits in a circle.    *)
(***************************************************************************)
EXTENDS ConnectionPool, FiniteSetTheorems, TLAPS

-----------------------------------------------------------------------------
(* Sets of tasks and programs.                                             *)

\* Threads and connections are counted over finite sets.
LEMMA FiniteHolders ==
  ASSUME NEW S \in SUBSET Task
  PROVE  IsFiniteSet(S) /\ Cardinality(S) \in Nat
BY FS_Subset, FS_CardinalityType, PoolAssumption

\* A task that gets its thread or connection adds at most one.
LEMMA OneMore ==
  ASSUME NEW S \in SUBSET Task, NEW t \in Task, NEW n \in Nat,
         Cardinality(S) < n
  PROVE  S \cup {t} \in SUBSET Task /\ Cardinality(S \cup {t}) <= n
BY FiniteHolders, FS_AddElement

\* A task that gives its thread or connection back adds none.
LEMMA OneLess ==
  ASSUME NEW S \in SUBSET Task, NEW t \in Task, NEW n \in Nat,
         Cardinality(S) <= n
  PROVE  S \ {t} \in SUBSET Task /\ Cardinality(S \ {t}) <= n
BY FiniteHolders, FS_RemoveElement

\* Programs are sequences of statements.
LEMMA ProgramsType ==
  ASSUME NEW t \in Task
  PROVE  Programs(t) \subseteq Seq(Statement)
<1>1. CheckpointPrograms \subseteq Seq(Statement)
  <2>1. Insertions \subseteq Seq(Statement)
    <3>1. SUFFICES ASSUME NEW n \in 0 .. MaxUpserts
                   PROVE  [i \in 1 .. n |-> "upsert"] \in Seq(Statement)
      BY DEF Insertions
    <3>2. n \in Nat
      BY PoolAssumption
    <3>3. QED
      BY <3>2 DEF Statement
  <2>2. <<"delete">> \in Seq(Statement)
    BY DEF Statement
  <2>3. QED
    BY <2>1, <2>2 DEF CheckpointPrograms
<1>2. RequestPrograms \subseteq Seq(Statement)
  BY DEF RequestPrograms, Statement
<1>3. QED
  BY <1>1, <1>2 DEF Programs

\* The configuration is made of positive numbers.
LEMMA ConfigType ==
  ASSUME config \in Configs
  PROVE  /\ config.threads \in Nat \ {0}
         /\ config.pool_size \in Nat \ {0}
BY PoolAssumption DEF Configs

-----------------------------------------------------------------------------
(* Steps that preserve the invariant.                                      *)

\* At the start nobody holds anything.
LEMMA InitInv == Init => PoolInv
<1> SUFFICES ASSUME Init PROVE PoolInv
  OBVIOUS
<1>1. /\ Cardinality(running) <= config.threads
      /\ Cardinality(pooled) <= config.pool_size
  BY FS_EmptySet, ConfigType DEF Init
<1>2. <<>> \in Seq(Statement)
  OBVIOUS
<1>3. TypeOK
  <2>1. todo \in [Task -> Seq(Statement)]
    BY <1>2 DEF Init
  <2>2. QED
    BY <1>1, <2>1 DEF Init, TypeOK, Places
<1>4. ThreadsAccounted /\ ConnectionsAccounted
  BY DEF Init, ThreadsAccounted, ConnectionsAccounted
<1>5. LocksAccounted /\ ProgramsGoOn
  BY PoolAssumption DEF Init, LocksAccounted, ProgramsGoOn
<1>6. QED
  BY <1>3, <1>4, <1>5 DEF PoolInv

\* A task that wakes up holds nothing yet.
LEMMA WakeInv ==
  ASSUME PoolInv, NEW t \in Task, NEW program \in Programs(t), Wake(t, program)
  PROVE  PoolInv'
<1> USE DEF PoolInv, Wake, Goto, lockVars
<1>1. TypeOK'
  BY ProgramsType DEF TypeOK, Places
<1>2. ThreadsAccounted' /\ ConnectionsAccounted'
  BY DEF TypeOK, ThreadsAccounted, ConnectionsAccounted
<1>3. LocksAccounted' /\ ProgramsGoOn'
  BY DEF TypeOK, LocksAccounted, ProgramsGoOn, Writes
<1>4. QED
  BY <1>1, <1>2, <1>3

\* Poll takes a thread only when one is free.
LEMMA PollInv ==
  ASSUME PoolInv, NEW t \in Task, Poll(t)
  PROVE  PoolInv'
<1> USE DEF PoolInv, Poll, Goto, lockVars
<1>1. Cardinality(running) < config.threads
  <2>1. Cardinality(running) \in Nat /\ config.threads \in Nat
    BY FiniteHolders, ConfigType DEF TypeOK
  <2>2. ~(Cardinality(running) >= config.threads)
    BY DEF Blocked
  <2>3. QED
    BY <2>1, <2>2
<1>2. TypeOK'
  BY <1>1, OneMore, ConfigType DEF TypeOK, Places
<1>3. ThreadsAccounted' /\ ConnectionsAccounted'
  BY DEF TypeOK, ThreadsAccounted, ConnectionsAccounted
<1>4. LocksAccounted' /\ ProgramsGoOn'
  BY DEF TypeOK, LocksAccounted, ProgramsGoOn, Writes
<1>5. QED
  BY <1>2, <1>3, <1>4

\* GetConnection takes a connection only when one is free.
LEMMA GetConnectionInv ==
  ASSUME PoolInv, NEW t \in Task, GetConnection(t)
  PROVE  PoolInv'
<1> USE DEF PoolInv, GetConnection, Goto, lockVars
<1>1. Cardinality(pooled) < config.pool_size
  <2>1. Cardinality(pooled) \in Nat /\ config.pool_size \in Nat
    BY FiniteHolders, ConfigType DEF TypeOK
  <2>2. ~(Cardinality(pooled) >= config.pool_size)
    BY DEF Blocked, PoolExhausted
  <2>3. QED
    BY <2>1, <2>2
<1>2. TypeOK'
  BY <1>1, OneMore, ConfigType DEF TypeOK, Places
<1>3. ThreadsAccounted' /\ ConnectionsAccounted'
  BY DEF TypeOK, ThreadsAccounted, ConnectionsAccounted
<1>4. LocksAccounted' /\ ProgramsGoOn'
  BY DEF TypeOK, LocksAccounted, ProgramsGoOn, Writes
<1>5. QED
  BY <1>2, <1>3, <1>4

\* Statements take their lock and give it back; a connection stays.
LEMMA StatementInv ==
  ASSUME PoolInv, NEW t \in Task,
         TakeLock(t) \/ EndRead(t) \/ BeginCommit(t) \/ EndCommit(t)
  PROVE  PoolInv'
<1> USE DEF PoolInv, Goto
<1>1. CASE TakeLock(t)
  <2>1. TypeOK'
    BY <1>1 DEF TakeLock, TypeOK, Places
  <2>2. ThreadsAccounted' /\ ConnectionsAccounted'
    BY <1>1 DEF TakeLock, TypeOK, ThreadsAccounted, ConnectionsAccounted
  <2>3. LocksAccounted' /\ ProgramsGoOn'
    BY <1>1, PoolAssumption
    DEF TakeLock, TypeOK, LocksAccounted, ProgramsGoOn, Writes, Blocked
  <2>4. QED
    BY <2>1, <2>2, <2>3
<1>2. CASE EndRead(t)
  <2>1. TypeOK'
    BY <1>2 DEF EndRead, TypeOK, Places, ProgramsGoOn
  <2>2. ThreadsAccounted' /\ ConnectionsAccounted'
    BY <1>2 DEF EndRead, TypeOK, ThreadsAccounted, ConnectionsAccounted
  <2>3. LocksAccounted' /\ ProgramsGoOn'
    BY <1>2 DEF EndRead, TypeOK, LocksAccounted, ProgramsGoOn, Writes
  <2>4. QED
    BY <2>1, <2>2, <2>3
<1>3. CASE BeginCommit(t)
  <2>1. TypeOK'
    BY <1>3 DEF BeginCommit, TypeOK, Places
  <2>2. ThreadsAccounted' /\ ConnectionsAccounted'
    BY <1>3 DEF BeginCommit, TypeOK, ThreadsAccounted, ConnectionsAccounted
  <2>3. LocksAccounted' /\ ProgramsGoOn'
    BY <1>3 DEF BeginCommit, TypeOK, LocksAccounted, ProgramsGoOn, Writes
  <2>4. QED
    BY <2>1, <2>2, <2>3
<1>4. CASE EndCommit(t)
  <2>1. TypeOK'
    <3>1. todo[t] \in Seq(Statement) /\ todo[t] # <<>>
      BY <1>4 DEF EndCommit, TypeOK, ProgramsGoOn
    <3>2. Tail(todo[t]) \in Seq(Statement)
      BY <3>1
    <3>3. QED
      BY <1>4, <3>2 DEF EndCommit, TypeOK, Places
  <2>2. ThreadsAccounted' /\ ConnectionsAccounted'
    BY <1>4 DEF EndCommit, TypeOK, ThreadsAccounted, ConnectionsAccounted
  <2>3. LocksAccounted' /\ ProgramsGoOn'
    BY <1>4, PoolAssumption
    DEF EndCommit, TypeOK, LocksAccounted, ProgramsGoOn, Writes
  <2>4. QED
    BY <2>1, <2>2, <2>3
<1>5. QED
  BY <1>1, <1>2, <1>3, <1>4

\* A task that leaves its connection holds no lock either.
LEMMA LeaveInv ==
  ASSUME PoolInv, NEW t \in Task,
         NotSyncedYet(t) \/ Continue(t) \/ Finish(t)
  PROVE  PoolInv'
<1> USE DEF PoolInv, NotSyncedYet, Continue, Finish, DropConnection, Goto,
            lockVars
<1>1. TypeOK'
  BY OneLess, ConfigType DEF TypeOK, Places
<1>2. ThreadsAccounted' /\ ConnectionsAccounted'
  BY DEF TypeOK, ThreadsAccounted, ConnectionsAccounted
<1>3. LocksAccounted' /\ ProgramsGoOn'
  BY DEF TypeOK, LocksAccounted, ProgramsGoOn, Writes
<1>4. QED
  BY <1>1, <1>2, <1>3

\* An error gives up everything at once.
LEMMA AbandonInv ==
  ASSUME PoolInv, NEW t \in Task, TimesOut(t) \/ StatementFails(t)
  PROVE  PoolInv'
<1> USE DEF PoolInv, Abandon, DropConnection, Goto
<1>1. /\ Abandon(t)
      /\ at[t] \in {"get", "begin", "run", "commit"}
  BY DEF TimesOut, StatementFails
<1>2. TypeOK'
  <2>1. <<>> \in Seq(Statement)
    OBVIOUS
  <2>2. todo' \in [Task -> Seq(Statement)]
    BY <1>1, <2>1 DEF TypeOK
  <2>3. pooled' \in SUBSET Task /\ Cardinality(pooled') <= config.pool_size
    BY <1>1, OneLess, ConfigType DEF TypeOK
  <2>4. QED
    BY <1>1, <2>2, <2>3 DEF TypeOK, Places
<1>3. ThreadsAccounted' /\ ConnectionsAccounted'
  BY <1>1 DEF TypeOK, ThreadsAccounted, ConnectionsAccounted
<1>4. LocksAccounted' /\ ProgramsGoOn'
  BY <1>1, PoolAssumption
  DEF TypeOK, LocksAccounted, ProgramsGoOn, Writes
<1>5. QED
  BY <1>2, <1>3, <1>4

\* The end of a poll gives the thread back.
LEMMA ReturnInv ==
  ASSUME PoolInv, NEW t \in Task, Return(t)
  PROVE  PoolInv'
<1> USE DEF PoolInv, Return, Goto, lockVars
<1>1. TypeOK'
  BY OneLess, ConfigType DEF TypeOK, Places
<1>2. ThreadsAccounted' /\ ConnectionsAccounted'
  BY DEF TypeOK, ThreadsAccounted, ConnectionsAccounted
<1>3. LocksAccounted' /\ ProgramsGoOn'
  BY DEF TypeOK, LocksAccounted, ProgramsGoOn, Writes
<1>4. QED
  BY <1>1, <1>2, <1>3

\* Every step preserves the invariant.
LEMMA NextInv == PoolInv /\ [Next]_vars => PoolInv'
<1> SUFFICES ASSUME PoolInv, [Next]_vars PROVE PoolInv'
  OBVIOUS
<1>1. CASE UNCHANGED vars
  BY <1>1 DEF vars, lockVars, PoolInv, TypeOK, ThreadsAccounted,
              ConnectionsAccounted, LocksAccounted, ProgramsGoOn, Writes
<1>2. CASE Next
  <2>1. PICK t \in Task : \/ \E program \in Programs(t) : Wake(t, program)
                          \/ Poll(t)
                          \/ Advance(t)
                          \/ StatementFails(t)
    BY <1>2 DEF Next
  <2>2. CASE \E program \in Programs(t) : Wake(t, program)
    BY <2>2, WakeInv
  <2>3. CASE Poll(t)
    BY <2>3, PollInv
  <2>4. CASE Advance(t)
    BY <2>4, GetConnectionInv, StatementInv, LeaveInv, AbandonInv, ReturnInv
    DEF Advance
  <2>5. CASE StatementFails(t)
    BY <2>5, AbandonInv
  <2>6. QED
    BY <2>1, <2>2, <2>3, <2>4, <2>5
<1>3. QED
  BY <1>1, <1>2

-----------------------------------------------------------------------------
(* Theorems.                                                               *)

\* The inductive invariant holds in every reachable state: threads,
\* connections and locks are where the places of the tasks say they are.
THEOREM Invariance == Spec => []PoolInv
BY InitInv, NextInv, PTL DEF Spec

\* Type correctness: threads and connections are never overdrawn.
THEOREM TypeCorrect == Spec => []TypeOK
<1>1. PoolInv => TypeOK
  BY DEF PoolInv
<1>2. QED
  BY <1>1, Invariance, PTL

\* If everyone under way had to wait, nobody would be in a statement, so no
\* lock would be held, so nobody would have a connection, nor then a thread.
LEMMA InvNobodyStuck == PoolInv => NobodyStuck
<1> SUFFICES ASSUME PoolInv,
                    \A t \in Task : at[t] # "parked" => Blocked(t)
             PROVE  \A t \in Task : at[t] = "parked"
  BY DEF NobodyStuck
<1>1. \A t \in Task : at[t] \notin {"run", "next", "done"}
  BY DEF Blocked
<1>2. readers = {}
  BY <1>1 DEF PoolInv, LocksAccounted
<1>3. \A t \in Task : at[t] # "commit"
  BY <1>2 DEF Blocked
<1>4. writer = None /\ ~pending
  BY <1>1, <1>3 DEF PoolInv, TypeOK, LocksAccounted
<1>5. \A t \in Task : at[t] # "begin"
  BY <1>4 DEF Blocked
<1>6. pooled = {}
  BY <1>1, <1>3, <1>5 DEF PoolInv, ConnectionsAccounted
<1>7. ~PoolExhausted
  BY <1>6, FS_EmptySet, ConfigType DEF PoolInv, TypeOK, PoolExhausted
<1>8. \A t \in Task : at[t] # "get"
  BY <1>7 DEF Blocked
<1>9. running = {}
  BY <1>1, <1>3, <1>5, <1>8
  DEF PoolInv, TypeOK, Places, ThreadsAccounted
<1>10. Cardinality(running) < config.threads
  BY <1>9, FS_EmptySet, ConfigType DEF PoolInv, TypeOK
<1>11. \A t \in Task : at[t] # "ready"
  <2>1. Cardinality(running) \in Nat /\ config.threads \in Nat
    BY FiniteHolders, ConfigType DEF PoolInv, TypeOK
  <2>2. ~(Cardinality(running) >= config.threads)
    BY <1>10, <2>1
  <2>3. QED
    BY <2>2 DEF Blocked
<1>12. QED
  BY <1>1, <1>3, <1>5, <1>8, <1>11 DEF PoolInv, TypeOK, Places

\* Whatever the numbers of tasks, threads and connections, and in both journal
\* modes, somebody under way needs to wait for nothing.
THEOREM NoCircularWait == Spec => []NobodyStuck
BY InvNobodyStuck, Invariance, PTL

\* A task that asks for a connection has a thread that no holder has.
LEMMA InvNeverShort == PoolInv => NeverShort
<1> SUFFICES ASSUME PoolInv, config.threads <= config.pool_size,
                    NEW t \in Task, at[t] = "get"
             PROVE  ~Blocked(t)
  BY DEF NeverShort
<1>1. t \in running /\ pooled \subseteq running \ {t}
  BY DEF PoolInv, ThreadsAccounted, ConnectionsAccounted
<1>2. IsFiniteSet(running) /\ IsFiniteSet(running \ {t})
  BY FiniteHolders DEF PoolInv, TypeOK
<1>3. Cardinality(running \ {t}) = Cardinality(running) - 1
  BY <1>1, <1>2, FS_RemoveElement
<1>4. Cardinality(pooled) <= Cardinality(running \ {t})
  BY <1>1, <1>2, FS_Subset
<1>5. /\ Cardinality(running) \in Nat
      /\ Cardinality(pooled) \in Nat
      /\ Cardinality(running) <= config.threads
  BY FiniteHolders DEF PoolInv, TypeOK
<1>6. ~PoolExhausted
  BY <1>3, <1>4, <1>5, ConfigType DEF PoolInv, TypeOK, PoolExhausted
<1>7. QED
  BY <1>6 DEF Blocked

\* A pool at least as large as the runtime never makes a task wait.
THEOREM PoolLargeEnough == Spec => []NeverShort
BY InvNeverShort, Invariance, PTL
=============================================================================
