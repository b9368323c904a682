--------------------------- MODULE RestApiProofs ----------------------------
(***************************************************************************)
(* What the handlers of module RestApi promise for all values of the       *)
(* constants. First for any number of workers and clients, any chain, any  *)
(* owners: the lists, and the counts of the health endpoint. Then with one *)
(* worker: an output that one process has treated as expired is the return *)
(* address's from then on.                                                 *)
(***************************************************************************)
EXTENDS RestApi, ExactRowsProofs, FiniteSetTheorems

\* Every row of the table was asked for by some checkpoint.
RowsFromChain ==
    \A o \in objects : \E m \in Checkpoints :
        \E i \in DOMAIN Upserts[m] : o = Upserts[m][i]

\* A handler at work is at a step of its endpoint, in a process that is up,
\* and the progress has not gone back since its request arrived.
HandlersInOrder ==
    \A c \in Client : stage[c] # "idle" =>
        /\ Up
        /\ covered[c] <= Load
        /\ stage[c] \in {"clock", "rows"} => query[c] \in ListQueries
        /\ stage[c] = "clock" => query[c].endpoint = "resolved"
        /\ stage[c] \in {"all", "basic", "nft"} => query[c].endpoint = "health"

ApiInv ==
    /\ SyncInv
    /\ IsFiniteSet(objects)
    /\ RowsFromChain
    /\ ApiTypeOK
    /\ HandlersInOrder
    /\ AnswersAgree
    /\ OnlyDecodableRows
    /\ NoReset \/ AlwaysReset => ListIsComplete

-----------------------------------------------------------------------------
(* The requests.                                                           *)

\* A request is one of the five routes.
LEMMA QueryKinds ==
    /\ \A q \in ListQueries : /\ q.endpoint \in {"list", "resolved"}
                              /\ q.address \in Address
                              /\ q.object_type \in ObjectType
    /\ \A q \in Queries : q \in ListQueries \/ q.endpoint = "health"
<1>1. ASSUME NEW q \in ListQueries
      PROVE  /\ q.endpoint \in {"list", "resolved"}
             /\ q.address \in Address
             /\ q.object_type \in ObjectType
  <2>1. PICK x \in Address : q \in BasicRoutes(x) \cup NftRoutes(x)
    BY DEF ListQueries
  <2> QED
    BY <2>1, ApiAssumption DEF BasicRoutes, NftRoutes, List, Resolved
<1>2. ASSUME NEW q \in Queries PROVE q \in ListQueries \/ q.endpoint = "health"
  BY <1>2 DEF Queries
<1> QED
  BY <1>1, <1>2

\* The statuses of requests that reach no handler.
LEMMA MisdirectedKinds ==
    \A r \in Misdirected : r.status \in {400, 403} /\ r.endpoint # "list"
                           /\ r.endpoint # "resolved"
  BY DEF Misdirected, MalformedPath, UnknownPath

-----------------------------------------------------------------------------
(* What handlers do to the rest of the program.                            *)

\* The only variable of CheckpointSync a handler ever changes.
FailureOnly ==
    /\ failures < MaxFailures
    /\ failures' = failures + 1
    /\ UNCHANGED <<phase, workerVars, poolVars, globalVars, tableVars,
                   last_checkpoint_sync, crashes, historyVars>>

\* A step of the composition is a step of CheckpointSync, or a failure.
LEMMA SyncBehind ==
    ASSUME [ApiNext]_apiVars
    PROVE  [Next]_vars \/ FailureOnly
<1>1. CASE Sync
  BY <1>1 DEF Sync, Next
<1>2. ASSUME NEW c \in Client, NEW q \in Queries, Request(c, q) \/ Refuse(c, q)
      PROVE  [Next]_vars \/ FailureOnly
  BY <1>2 DEF Request, Refuse, FailureOnly
<1>3. ASSUME NEW c \in Client, Handle(c)
      PROVE  [Next]_vars \/ FailureOnly
  BY <1>3 DEF Handle, LoadClock, NotSyncedYet, FetchStoredObjects, CountAll,
     CountBasic, CountNft, Count, StatementFails, FailureOnly
<1>4. ASSUME NEW c \in Client, NEW r \in Misdirected, Reject(c, r)
      PROVE  UNCHANGED vars
  BY <1>4 DEF Reject
<1>5. CASE UNCHANGED apiVars
  BY <1>5 DEF apiVars
<1> QED
  BY <1>1, <1>2, <1>3, <1>4, <1>5 DEF ApiNext

\* A failure leaves the invariant of CheckpointSync alone.
LEMMA FailureKeeps ==
    ASSUME SyncInv, FailureOnly
    PROVE  SyncInv'
<1>0. CoreInv /\ SavedAreApplied /\ Load' = Load
  BY DEF SyncInv, FailureOnly, Load
<1>1. TypeOK'
  BY <1>0, SyncAssumption DEF CoreInv, TypeOK, FailureOnly, workerVars, poolVars,
     globalVars, tableVars, historyVars
<1> USE DEF FailureOnly, workerVars, poolVars, globalVars, tableVars, historyVars
<1>2. DownIsIdle' /\ JobsAreOpen' /\ RowsInOrder'
  BY <1>0 DEF CoreInv, DownIsIdle, JobsAreOpen, RowsInOrder, Up
<1>3. \A w \in Worker : PastRows(w)' = PastRows(w)
  BY DEF PastRows
<1>4. RowsAccepted' /\ FinishedAreSound'
  BY <1>0, <1>3 DEF CoreInv, RowsAccepted, FinishedAreSound, HasExpiration,
     Poisoned
<1>5. RowsPresent'
  BY <1>0, <1>3 DEF CoreInv, RowsPresent, RowsOf, NeverRemoved
<1>6. PairedTables' /\ PoisonNeverPassed'
  BY <1>0 DEF CoreInv, PairedTables, PoisonNeverPassed, HasExpiration, Condition,
     Poisoned
<1>7. FinishedInReach' /\ IndexedGauge'
  BY <1>0 DEF CoreInv, FinishedInReach, IndexedGauge
<1>8. SavedAreApplied'
  BY <1>0 DEF SavedAreApplied, Vouched, NoReset, AlwaysReset, Serving
<1> QED
  BY <1>1, <1>2, <1>4, <1>5, <1>6, <1>7, <1>8 DEF SyncInv, CoreInv

LEMMA SyncInvStep ==
    ASSUME SyncInv, [ApiNext]_apiVars
    PROVE  SyncInv'
  BY SyncBehind, FailureKeeps, NextInv

\* Failures are only ever counted up.
LEMMA FailuresGrow ==
    ASSUME SyncInv, [ApiNext]_apiVars
    PROVE  failures' >= failures /\ failures \in Nat /\ failures' \in Nat
<1>1. TypeOK /\ TypeOK'
  BY SyncInvStep DEF SyncInv, CoreInv
<1>2. failures \in Nat /\ failures' \in Nat
  BY <1>1, SyncAssumption DEF TypeOK
<1>3. failures' = failures \/ failures' = failures + 1
  <2>1. CASE FailureOnly
    BY <2>1 DEF FailureOnly
  <2>2. CASE [Next]_vars
    BY <2>2 DEF Next, ProcessStep, vars, boundVars, Start, RevertObjects,
       RevertProgress, InitIndexer, Crash, TakeCheckpoint, ReceiveCheckpoint,
       StoreTimestamp, InsertObject, RejectObject, DeleteObjects,
       FinishCheckpoint, DatabaseFails, Retry, SaveProgress, SaveFails
  <2> QED
    BY <2>1, <2>2, SyncBehind
<1> QED
  BY <1>2, <1>3

\* A process that is up stays up, without going back on its progress, or ends
\* and takes its handlers along.
LEMMA UpStep ==
    ASSUME CoreInv, [Next]_vars, Up, phase' # "down"
    PROVE  Up' /\ Load' >= Load
<1>1. Load' >= Load
  BY LoadStep
<1>2. Up'
  <2>1. \/ phase' = phase \/ phase' \in {"running", "stalled"} \/ phase' = "down"
        \/ phase \in {"down", "revert_objects", "revert_progress", "init"}
    BY StepKinds DEF Start, RevertObjects, RevertProgress, InitIndexer, Crash,
       TakeCheckpoint, LocalStep, FinishCheckpoint, SaveFails
  <2> QED
    BY <2>1 DEF Up
<1> QED
  BY <1>1, <1>2

\* Rows get into the table from the chain alone, one at a time.
LEMMA ObjectsStep ==
    ASSUME SyncInv, [ApiNext]_apiVars
    PROVE  /\ RowsFromChain => RowsFromChain'
           /\ IsFiniteSet(objects) => IsFiniteSet(objects')
<1>0. CoreInv
  BY DEF SyncInv
<1>1. CASE UNCHANGED objects
  BY <1>1 DEF RowsFromChain
<1>2. CASE RevertObjects
  BY <1>2, FS_EmptySet DEF RevertObjects, RowsFromChain
<1>3. ASSUME NEW w \in Worker, InsertObject(w)
      PROVE  /\ RowsFromChain => RowsFromChain'
             /\ IsFiniteSet(objects) => IsFiniteSet(objects')
  <2> DEFINE obj  == Upserts[job[w]][row[w]]
             kept == {o \in objects : o.id # obj.id}
  <2>1. objects' = kept \cup {obj}
    BY <1>3 DEF InsertObject, UpsertObject
  <2>2. job[w] \in Checkpoints /\ row[w] \in DOMAIN Upserts[job[w]]
    BY <1>0, <1>3, CurrentRow DEF InsertObject
  <2>3. RowsFromChain => RowsFromChain'
    BY <2>1, <2>2 DEF RowsFromChain
  <2>4. IsFiniteSet(objects) => IsFiniteSet(kept)
    BY FS_Subset
  <2> HIDE DEF kept, obj
  <2> QED
    BY <2>1, <2>3, <2>4, FS_AddElement
<1>4. ASSUME NEW w \in Worker, DeleteObjects(w)
      PROVE  /\ RowsFromChain => RowsFromChain'
             /\ IsFiniteSet(objects) => IsFiniteSet(objects')
  <2>1. objects' \subseteq objects
    BY <1>4 DEF DeleteObjects, WithoutObjects
  <2> QED
    BY <2>1, FS_Subset DEF RowsFromChain
<1>5. FailureOnly => UNCHANGED objects
  BY DEF FailureOnly, tableVars
<1> QED
  BY <1>0, <1>1, <1>2, <1>3, <1>4, <1>5, TableSteps, SyncBehind

-----------------------------------------------------------------------------
(* What a list holds.                                                      *)

\* The join finds every object, with the condition in its contents.
LEMMA JoinedRows ==
    ASSUME CoreInv
    PROVE  Joined = { <<o, Condition(o)>> : o \in objects }
<1>0. PairedTables
  BY DEF CoreInv
<1>1. ASSUME NEW o \in objects PROVE <<o, Condition(o)>> \in Joined
  BY <1>0 DEF PairedTables, Joined, Condition
<1>2. ASSUME NEW j \in Joined PROVE \E o \in objects : j = <<o, Condition(o)>>
  <2>1. PICK o \in objects, k \in expiration_unlock_conditions :
          j = <<o, k>> /\ k.object_id = o.id
    BY DEF Joined
  <2>2. PICK p \in objects : k = Condition(p)
    BY <1>0 DEF PairedTables
  <2>3. p = o
    BY <1>0, <2>1, <2>2 DEF PairedTables, Condition
  <2> QED
    BY <2>1, <2>2, <2>3
<1> QED
  BY <1>1, <1>2

\* The condition a query looks at, by the expiration in the contents.
Selects(q, t, o) ==
    /\ o.object_type = q.object_type
    /\ IF q.endpoint = "resolved"
       THEN ResolvesTo(DecodeExpiration[o.contents], q.address, t)
       ELSE BelongsTo(DecodeExpiration[o.contents], q.address)

\* So a query selects objects by their own contents.
LEMMA FetchedRows ==
    ASSUME CoreInv, NEW q, NEW t
    PROVE  Fetched(q, t) = { o \in objects : Selects(q, t, o) }
<1>1. ASSUME NEW o \in objects
      PROVE  o \in Fetched(q, t) <=> Selects(q, t, o)
  <2>1. \A p \in objects : Condition(p).expiration = DecodeExpiration[p.contents]
    BY DEF Condition
  <2>2. ASSUME Selects(q, t, o) PROVE o \in Fetched(q, t)
    <3>1. <<o, Condition(o)>> \in Joined
      BY JoinedRows
    <3>2. <<o, Condition(o)>>[1] = o /\ <<o, Condition(o)>>[2] = Condition(o)
      OBVIOUS
    <3> QED
      BY <2>1, <2>2, <3>1, <3>2 DEF Fetched, Selects
  <2>3. ASSUME o \in Fetched(q, t) PROVE Selects(q, t, o)
    <3>1. PICK j \in Joined :
            /\ j[1] = o
            /\ IF q.endpoint = "resolved"
               THEN ResolvesTo(j[2].expiration, q.address, t)
               ELSE BelongsTo(j[2].expiration, q.address)
      BY <2>3 DEF Fetched
    <3>2. j[2] = Condition(o)
      BY <3>1, JoinedRows
    <3>3. j[2].expiration = DecodeExpiration[o.contents]
      BY <2>1, <3>2
    <3>4. o.object_type = q.object_type
      BY <2>3 DEF Fetched
    <3> QED
      BY <3>1, <3>3, <3>4 DEF Selects
  <2> QED
    BY <2>2, <2>3
<1>2. Fetched(q, t) \subseteq objects
  BY DEF Fetched
<1> QED
  BY <1>1, <1>2

\* No row of the table fails to decode, so no list does.
LEMMA ResponseIsList ==
    ASSUME CoreInv, NEW q \in ListQueries, NEW t
    PROVE  Response(q, Fetched(q, t))
             = [status  |-> 200,
                outputs |-> { Shown(q.object_type, o) : o \in Fetched(q, t) }]
<1>1. q.object_type \in {"Basic", "Nft"}
  BY QueryKinds, ApiAssumption
<1>2. ASSUME NEW o \in Fetched(q, t)
      PROVE  o.object_type = q.object_type /\ o.contents \notin Undecodable
  <2>1. o \in objects /\ o.object_type = q.object_type
    BY DEF Fetched
  <2>2. HasExpiration(o)
    BY <2>1 DEF CoreInv, PairedTables
  <2> QED
    BY <2>1, <2>2, ApiAssumption DEF HasExpiration
<1>3. CASE q.object_type = "Basic"
  <2>1. \A o \in Fetched(q, t) : IsBasicOutput(o)
    BY <1>2, <1>3 DEF IsBasicOutput
  <2> QED
    BY <1>3, <2>1 DEF Response, BasicOutputVec, BasicOutput
<1>4. CASE q.object_type = "Nft"
  <2>1. \A o \in Fetched(q, t) : IsNftOutput(o)
    BY <1>2, <1>4 DEF IsNftOutput
  <2>2. q.object_type # "Basic"
    BY <1>4
  <2> QED
    BY <1>4, <2>1, <2>2 DEF Response, NftOutputVec, NftOutput
<1> QED
  BY <1>1, <1>3, <1>4

\* What is shown of a row is an output.
LEMMA ShownType ==
    ASSUME TypeOK, NEW o \in objects, NEW type \in ObjectType
    PROVE  Shown(type, o) \in Outputs
<1>1. o \in StoredObject
  BY DEF TypeOK
<1>2. DecodeExpiration[o.contents] \in Expiration \cup {None}
  BY <1>1, SyncAssumption DEF StoredObject
<1> QED
  BY <1>1, <1>2 DEF Shown, Outputs, StoredObject

LEMMA ListTypes ==
    ASSUME CoreInv, NEW q \in ListQueries, NEW t
    PROVE  /\ { Shown(q.object_type, o) : o \in Fetched(q, t) } \subseteq Outputs
           /\ Expired(q, t) \subseteq Outputs
<1>0. TypeOK /\ q.object_type \in ObjectType
  BY QueryKinds DEF CoreInv
<1>1. { Shown(q.object_type, o) : o \in Fetched(q, t) } \subseteq Outputs
  BY <1>0, ShownType DEF Fetched
<1>2. \A j \in Joined : j[1] \in objects
  BY DEF Joined
<1>3. Expired(q, t) \subseteq Outputs
  BY <1>0, <1>2, ShownType DEF Expired
<1> QED
  BY <1>1, <1>3

-----------------------------------------------------------------------------
(* One handler at a time.                                                  *)

\* A handler moves no progress and does not end the process.
LEMMA HandlerStays ==
    ASSUME NEW c \in Client,
           \/ \E q \in Queries : Request(c, q) \/ Refuse(c, q)
           \/ \E r \in Misdirected : Reject(c, r)
           \/ Handle(c)
    PROVE  Load' = Load /\ Up' = Up
  BY DEF Request, Refuse, Reject, Handle, LoadClock, NotSyncedYet,
     FetchStoredObjects, CountAll, CountBasic, CountNft, Count, StatementFails,
     vars, Load, Up

\* The number of the rows of a finite table, or of one type of them.
LEMMA CountType ==
    ASSUME IsFiniteSet(objects)
    PROVE  /\ Cardinality(objects) \in Nat
           /\ \A type : CountOf(type) \in Nat
<1>1. \A type : IsFiniteSet({ o \in objects : o.object_type = type })
  BY FS_Subset
<1> QED
  BY <1>1, FS_CardinalityType DEF CountOf

\* Every answer is a reply.
LEMMA ReplyTypes ==
    /\ \A code \in {200, 400, 403, 500, 503} : Status(code) \in Replies
    /\ NoReply \in Replies
    /\ \A shown \in SUBSET Outputs :
         [status |-> 200, outputs |-> shown] \in Replies
  BY DEF Status, NoReply, Replies

\* The handlers keep their types.
LEMMA HandlerTypes ==
    ASSUME ApiInv, NEW c \in Client,
           \/ \E q \in Queries : Request(c, q) \/ Refuse(c, q)
           \/ \E r \in Misdirected : Reject(c, r)
           \/ Handle(c)
    PROVE  ApiTypeOK'
<1>0. /\ CoreInv /\ TypeOK /\ ApiTypeOK /\ HandlersInOrder
      /\ IsFiniteSet(objects) /\ Load \in 0 .. LastCheckpoint + 1
  BY LoadType DEF ApiInv, SyncInv, CoreInv
<1> USE DEF ApiTypeOK, Stages, Reply
<1>1. ASSUME NEW q \in Queries, Request(c, q) PROVE ApiTypeOK'
  <2>1. /\ q.endpoint \in {"list", "resolved", "health"}
        /\ FirstStage[q.endpoint] \in Stages
        /\ FirstStage[q.endpoint] = "rows" => q.endpoint # "resolved"
    BY QueryKinds DEF FirstStage
  <2>2. stage' \in [Client -> Stages] /\ query' \in [Client -> Queries \cup Misdirected \cup {NoQuery}]
    BY <1>0, <1>1, <2>1 DEF Request
  <2>3. /\ clock' \in [Client -> Nat \cup {None}]
        /\ counts' \in [Client -> Seq(Nat)]
        /\ covered' \in [Client -> 0 .. LastCheckpoint + 1]
        /\ changes' \in [Client -> Nat]
    BY <1>0, <1>1 DEF Request
  <2>4. reply' \in [Client -> Replies]
    BY <1>0, <1>1, ReplyTypes DEF Request
  <2>5. \A d \in Client : stage'[d] = "rows" =>
           query'[d].endpoint = "resolved" <=> clock'[d] # None
    BY <1>0, <1>1, <2>1 DEF Request
  <2> QED
    BY <1>0, <1>1, <2>2, <2>3, <2>4, <2>5 DEF Request
<1>2. ASSUME NEW q \in Queries, Refuse(c, q) PROVE ApiTypeOK'
  <2>1. query' \in [Client -> Queries \cup Misdirected \cup {NoQuery}]
    BY <1>0, <1>2 DEF Refuse
  <2>2. reply' \in [Client -> Replies]
    BY <1>0, <1>2, ReplyTypes DEF Refuse
  <2>3. \A d \in Client : stage'[d] = "rows" =>
           query'[d].endpoint = "resolved" <=> clock'[d] # None
    BY <1>0, <1>2 DEF Refuse
  <2> QED
    BY <1>0, <1>2, <2>1, <2>2, <2>3 DEF Refuse
<1>3. ASSUME NEW r \in Misdirected, Reject(c, r) PROVE ApiTypeOK'
  <2>1. query' \in [Client -> Queries \cup Misdirected \cup {NoQuery}]
    BY <1>0, <1>3 DEF Reject
  <2>2. reply' \in [Client -> Replies]
    <3>1. r.status \in {400, 403}
      BY MisdirectedKinds
    <3>2. Status(r.status) \in Replies
      BY <3>1, ReplyTypes
    <3> QED
      BY <1>0, <1>3, <3>2 DEF Reject
  <2>3. \A d \in Client : stage'[d] = "rows" =>
           query'[d].endpoint = "resolved" <=> clock'[d] # None
    BY <1>0, <1>3 DEF Reject
  <2> QED
    BY <1>0, <1>3, <2>1, <2>2, <2>3 DEF Reject
<1>4. CASE LoadClock(c)
  <2>1. query[c].endpoint = "resolved"
    BY <1>0, <1>4 DEF LoadClock, HandlersInOrder
  <2>2. latest_timestamp \in Nat /\ latest_timestamp # None
    BY <1>0, <1>4 DEF LoadClock, Synced, TypeOK
  <2>3. /\ stage' \in [Client -> Stages]
        /\ clock' \in [Client -> Nat \cup {None}]
        /\ \A d \in Client : stage'[d] = "rows" =>
             query'[d].endpoint = "resolved" <=> clock'[d] # None
    BY <1>0, <1>4, <2>1, <2>2 DEF LoadClock
  <2> QED
    BY <1>0, <1>4, <2>3 DEF LoadClock
<1>5. CASE NotSyncedYet(c) \/ StatementFails(c)
  <2>1. PICK code \in {500, 503} :
          reply' = [reply EXCEPT ![c] = Status(code)]
    BY <1>5 DEF NotSyncedYet, StatementFails
  <2>2. reply' \in [Client -> Replies]
    <3>1. Status(code) \in Replies
      BY ReplyTypes
    <3> QED
      BY <1>0, <2>1, <3>1
  <2>3. /\ stage' = [stage EXCEPT ![c] = "idle"]
        /\ UNCHANGED <<query, clock, counts, covered, changes, lapsed, told>>
    BY <1>5 DEF NotSyncedYet, StatementFails
  <2>4. /\ stage' \in [Client -> Stages]
        /\ \A d \in Client : stage'[d] = "rows" =>
             query'[d].endpoint = "resolved" <=> clock'[d] # None
    BY <1>0, <2>3
  <2> QED
    BY <1>0, <2>2, <2>3, <2>4
<1>6. CASE FetchStoredObjects(c)
  <2> DEFINE q == query[c]
             t == clock[c]
             shown == { Shown(q.object_type, o) : o \in Fetched(q, t) }
  <2>1. q \in ListQueries
    BY <1>0, <1>6 DEF FetchStoredObjects, HandlersInOrder
  <2>2. shown \subseteq Outputs /\ Expired(q, t) \subseteq Outputs
    BY <1>0, <2>1, ListTypes
  <2>3. reply' = [reply EXCEPT ![c] = [status |-> 200, outputs |-> shown]]
    BY <1>0, <1>6, <2>1, ResponseIsList DEF FetchStoredObjects
  <2> HIDE DEF shown
  <2>4. reply' \in [Client -> Replies]
    BY <1>0, <2>2, <2>3, ReplyTypes
  <2>5. PICK new \in SUBSET Outputs :
          /\ lapsed' = [lapsed EXCEPT ![c] = @ \cup new]
          /\ told' = [told EXCEPT ![c] = @ \cup new]
    BY <1>6, <2>2 DEF FetchStoredObjects
  <2>6. /\ lapsed' \in [Client -> SUBSET Outputs]
        /\ told' \in [Client -> SUBSET Outputs]
    BY <1>0, <2>5
  <2>7. /\ stage' = [stage EXCEPT ![c] = "idle"]
        /\ UNCHANGED <<query, clock, counts, covered, changes>>
    BY <1>6 DEF FetchStoredObjects
  <2>8. /\ stage' \in [Client -> Stages]
        /\ \A d \in Client : stage'[d] = "rows" =>
             query'[d].endpoint = "resolved" <=> clock'[d] # None
    BY <1>0, <2>7
  <2> QED
    BY <1>0, <2>4, <2>6, <2>7, <2>8
<1>7. CASE CountAll(c) \/ CountBasic(c) \/ CountNft(c)
  <2>1. PICK n \in Nat, to \in {"idle", "basic", "nft"} :
          \E from \in {"all", "basic", "nft"} : Count(c, from, to, n)
    BY <1>0, <1>7, CountType DEF CountAll, CountBasic, CountNft
  <2>2. /\ counts' = [counts EXCEPT ![c] = Append(@, n)]
        /\ stage' = [stage EXCEPT ![c] = to]
        /\ reply' = reply \/ reply' = [reply EXCEPT ![c] = Status(200)]
        /\ UNCHANGED <<query, clock, covered, changes, lapsed, told>>
    BY <2>1 DEF Count
  <2>3. counts' \in [Client -> Seq(Nat)]
    BY <1>0, <2>2
  <2>4. reply' \in [Client -> Replies]
    <3>1. Status(200) \in Replies
      BY ReplyTypes
    <3> QED
      BY <1>0, <2>2, <3>1
  <2>5. /\ stage' \in [Client -> Stages]
        /\ \A d \in Client : stage'[d] = "rows" =>
             query'[d].endpoint = "resolved" <=> clock'[d] # None
    BY <1>0, <2>2
  <2> QED
    BY <1>0, <2>2, <2>3, <2>4, <2>5
<1> QED
  BY <1>1, <1>2, <1>3, <1>4, <1>5, <1>6, <1>7 DEF Handle

\* So do the workers, beside them or when the process ends.
LEMMA ApiTypesStep ==
    ASSUME ApiInv, [ApiNext]_apiVars
    PROVE  ApiTypeOK'
<1>0. ApiTypeOK /\ SyncInv /\ IsFiniteSet(objects) /\ IsFiniteSet(objects')
  BY ObjectsStep DEF ApiInv
<1>1. CASE Sync /\ Disconnect
  <2>1. told' = told /\ 0 \in 0 .. LastCheckpoint + 1
    BY <1>1, SyncAssumption DEF Sync
  <2> QED
    BY <1>0, <1>1, <2>1, ReplyTypes DEF ApiTypeOK, Disconnect, Stages
<1>2. ASSUME Sync, ~Disconnect PROVE ApiTypeOK'
  <2>1. \A m, n \in Nat : Difference(m, n) \in Nat
    BY DEF Difference
  <2>2. Cardinality(objects) \in Nat /\ Cardinality(objects') \in Nat
    BY <1>0, FS_CardinalityType
  <2> DEFINE moved == Difference(Cardinality(objects'), Cardinality(objects))
  <2>3. moved \in Nat
    BY <2>1, <2>2
  <2>4. changes' = [c \in Client |-> IF stage[c] \in {"basic", "nft"}
                                    THEN changes[c] + moved ELSE changes[c]]
    BY <1>2 DEF Sync
  <2> HIDE DEF moved
  <2>5. changes' \in [Client -> Nat]
    BY <1>0, <2>3, <2>4 DEF ApiTypeOK
  <2> QED
    BY <1>0, <1>2, <2>5 DEF ApiTypeOK, Sync, requestVars
<1>3. CASE UNCHANGED apiVars
  BY <1>0, <1>3 DEF ApiTypeOK, apiVars, clientVars, requestVars
<1> QED
  BY <1>1, <1>2, <1>3, HandlerTypes DEF ApiNext, Sync

\* A handler at work keeps to its endpoint, and the process keeps up.
LEMMA OrderStep ==
    ASSUME ApiInv, [ApiNext]_apiVars
    PROVE  HandlersInOrder'
<1>0. /\ ApiTypeOK /\ HandlersInOrder /\ CoreInv
      /\ Load \in Nat /\ Load' \in Nat
  <2>1. CoreInv /\ CoreInv'
    BY SyncInvStep DEF ApiInv, SyncInv
  <2>2. Load \in 0 .. LastCheckpoint + 1
    BY <2>1, LoadType DEF CoreInv
  <2>3. Load' \in 0 .. LastCheckpoint + 1
    <3>1. FailureOnly => Load' = Load
      BY DEF FailureOnly, Load
    <3> QED
      BY <2>1, <2>2, <3>1, LoadStep, SyncBehind
  <2> QED
    BY <2>1, <2>2, <2>3, SyncAssumption DEF ApiInv
<1> USE DEF HandlersInOrder
<1>1. CASE Disconnect
  BY <1>1 DEF Disconnect
<1>2. ASSUME Sync, ~Disconnect PROVE HandlersInOrder'
  <2>1. /\ [Next]_vars /\ phase' # "down"
        /\ UNCHANGED <<stage, query, covered>>
    BY <1>2 DEF Sync, requestVars
  <2>2. Up => Up' /\ Load' >= Load
    BY <1>0, <2>1, UpStep
  <2>3. covered \in [Client -> Nat]
    BY <1>0, SyncAssumption DEF ApiTypeOK
  <2> QED
    BY <1>0, <2>1, <2>2, <2>3
<1>3. CASE UNCHANGED apiVars
  <2>1. Load' = Load /\ Up' = Up /\ UNCHANGED <<stage, query, covered>>
    BY <1>3 DEF apiVars, clientVars, requestVars, vars, Load, Up
  <2> QED
    BY <1>0, <2>1
<1>4. ASSUME NEW c \in Client, NEW q \in Queries, Request(c, q)
      PROVE  HandlersInOrder'
  <2>1. Load' = Load /\ Up' = Up
    BY <1>4, HandlerStays
  <2>2. /\ stage'[c] = FirstStage[q.endpoint] /\ query'[c] = q
        /\ covered'[c] = Load /\ Up
        /\ \A d \in Client \ {c} : /\ stage'[d] = stage[d]
                                   /\ query'[d] = query[d]
                                   /\ covered'[d] = covered[d]
    BY <1>0, <1>4 DEF Request, ApiTypeOK
  <2>3. \/ q \in ListQueries /\ q.endpoint = "list" /\ stage'[c] = "rows"
        \/ q \in ListQueries /\ q.endpoint = "resolved" /\ stage'[c] = "clock"
        \/ q.endpoint = "health" /\ stage'[c] = "all"
    BY <2>2, QueryKinds DEF FirstStage
  <2> QED
    BY <1>0, <2>1, <2>2, <2>3
<1>5. ASSUME NEW c \in Client,
             \/ \E q \in Queries : Refuse(c, q)
             \/ \E r \in Misdirected : Reject(c, r)
             \/ Handle(c)
      PROVE  HandlersInOrder'
  <2>1. Load' = Load /\ Up' = Up
    BY <1>5, HandlerStays
  <2>2. /\ covered' = covered
        /\ \A d \in Client \ {c} : stage'[d] = stage[d] /\ query'[d] = query[d]
    BY <1>0, <1>5 DEF Refuse, Reject, Handle, LoadClock, NotSyncedYet, Reply,
       FetchStoredObjects, CountAll, CountBasic, CountNft, Count,
       StatementFails, ApiTypeOK
  <2>3. \/ stage'[c] = "idle"
        \/ query'[c] = query[c] /\ stage[c] = "clock" /\ stage'[c] = "rows"
        \/ /\ query'[c] = query[c] /\ stage[c] \in {"all", "basic"}
           /\ stage'[c] \in {"basic", "nft"}
    BY <1>0, <1>5 DEF Refuse, Reject, Handle, LoadClock, NotSyncedYet, Reply,
       FetchStoredObjects, CountAll, CountBasic, CountNft, Count,
       StatementFails, ApiTypeOK
  <2> QED
    BY <1>0, <2>1, <2>2, <2>3
<1> QED
  BY <1>1, <1>2, <1>3, <1>4, <1>5 DEF ApiNext, Sync

-----------------------------------------------------------------------------
(* Answers.                                                                *)

\* What a step may do to the answer of a client.
LEMMA AnswerKinds ==
    ASSUME ApiInv, [ApiNext]_apiVars, NEW c \in Client
    PROVE  \/ /\ stage'[c] = stage[c] /\ query'[c] = query[c]
              /\ clock'[c] = clock[c] /\ covered'[c] = covered[c]
              /\ reply'[c] = reply[c]
           \/ stage'[c] # "idle" /\ reply'[c] \in {reply[c], NoReply}
           \/ reply'[c].status \notin {200, 500}
           \/ reply'[c].status = 500 /\ failures' = failures + 1
           \/ reply'[c].status = 200 /\ query'[c].endpoint = "health"
           \/ FetchStoredObjects(c)
<1>0. ApiTypeOK /\ HandlersInOrder
  BY DEF ApiInv
<1> DEFINE Kept(d) ==
              /\ stage'[d] = stage[d] /\ query'[d] = query[d]
              /\ clock'[d] = clock[d] /\ covered'[d] = covered[d]
              /\ reply'[d] = reply[d]
<1>1. None \notin {200, 500}
  BY SyncAssumption
<1>2. CASE Disconnect
  BY <1>1, <1>2 DEF Disconnect, NoReply
<1>3. CASE (Sync /\ ~Disconnect) \/ UNCHANGED apiVars
  BY <1>3 DEF Sync, apiVars, clientVars, requestVars
<1>4. ASSUME NEW d \in Client, d # c,
             \/ \E q \in Queries : Request(d, q) \/ Refuse(d, q)
             \/ \E r \in Misdirected : Reject(d, r)
             \/ Handle(d)
      PROVE  Kept(c)
  BY <1>0, <1>4 DEF Request, Refuse, Reject, Handle, LoadClock, NotSyncedYet,
     Reply, FetchStoredObjects, CountAll, CountBasic, CountNft, Count,
     StatementFails, ApiTypeOK
<1>5. ASSUME NEW q \in Queries, Request(c, q)
      PROVE  stage'[c] # "idle" /\ reply'[c] = NoReply
  <2>1. FirstStage[q.endpoint] # "idle"
    BY QueryKinds DEF FirstStage
  <2> QED
    BY <1>0, <1>5, <2>1 DEF Request, ApiTypeOK
<1>6. ASSUME \/ \E q \in Queries : Refuse(c, q)
             \/ \E r \in Misdirected : Reject(c, r)
             \/ NotSyncedYet(c)
      PROVE  reply'[c].status \notin {200, 500}
  <2>1. ASSUME NEW r \in Misdirected, Reject(c, r)
        PROVE  reply'[c].status = r.status
    BY <1>0, <2>1 DEF Reject, Status, ApiTypeOK
  <2>2. ASSUME (\E q \in Queries : Refuse(c, q)) \/ NotSyncedYet(c)
        PROVE  reply'[c].status = 503
    BY <1>0, <2>2 DEF Refuse, NotSyncedYet, Reply, Status, ApiTypeOK
  <2>3. \A r \in Misdirected : r.status \notin {200, 500}
    BY MisdirectedKinds
  <2> QED
    BY <1>6, <2>1, <2>2, <2>3
<1>7. ASSUME StatementFails(c)
      PROVE  \/ reply'[c].status \notin {200, 500}
             \/ reply'[c].status = 500 /\ failures' = failures + 1
  <2>1. CASE stage[c] = "all"
    BY <1>0, <1>7, <2>1 DEF StatementFails, Reply, Status, ApiTypeOK
  <2>2. CASE stage[c] # "all"
    BY <1>0, <1>7, <2>2 DEF StatementFails, Reply, Status, ApiTypeOK
  <2> QED
    BY <2>1, <2>2
<1>8. ASSUME LoadClock(c) \/ CountAll(c) \/ CountBasic(c)
      PROVE  stage'[c] # "idle" /\ reply'[c] = reply[c]
  BY <1>0, <1>8 DEF LoadClock, CountAll, CountBasic, Count, ApiTypeOK
<1>9. ASSUME CountNft(c)
      PROVE  reply'[c].status = 200 /\ query'[c].endpoint = "health"
  BY <1>0, <1>9 DEF CountNft, Count, Reply, Status, ApiTypeOK, HandlersInOrder
<1> QED
  BY <1>2, <1>3, <1>4, <1>5, <1>6, <1>7, <1>8, <1>9 DEF ApiNext, Handle, Sync

\* The only lists that do not come from the table are those of failures.
LEMMA DecodableStep ==
    ASSUME ApiInv, [ApiNext]_apiVars
    PROVE  OnlyDecodableRows'
<1> SUFFICES ASSUME NEW c \in Client, reply'[c].status = 500
             PROVE  failures' > 0
  BY DEF OnlyDecodableRows
<1>0. /\ SyncInv /\ CoreInv /\ ApiTypeOK /\ HandlersInOrder
      /\ OnlyDecodableRows
  BY DEF ApiInv, SyncInv
<1>1. failures' >= failures /\ failures \in Nat /\ failures' \in Nat
  BY <1>0, FailuresGrow
<1>2. CASE reply'[c] = reply[c]
  BY <1>0, <1>1, <1>2 DEF OnlyDecodableRows
<1>3. CASE failures' = failures + 1
  BY <1>1, <1>3
<1>4. NoReply.status # 500
  BY SyncAssumption DEF NoReply
<1>5. ~FetchStoredObjects(c)
  <2> SUFFICES ASSUME FetchStoredObjects(c) PROVE reply'[c].status = 200
    OBVIOUS
  <2>1. query[c] \in ListQueries
    BY <1>0 DEF FetchStoredObjects, HandlersInOrder
  <2>2. reply'[c] = Response(query[c], Fetched(query[c], clock[c]))
    BY <1>0 DEF FetchStoredObjects, Reply, ApiTypeOK
  <2> QED
    BY <1>0, <2>1, <2>2, ResponseIsList
<1> QED
  BY <1>2, <1>3, <1>4, <1>5, AnswerKinds

\* A resolved list shows what the clock of its request resolves.
LEMMA AgreeStep ==
    ASSUME ApiInv, [ApiNext]_apiVars
    PROVE  AnswersAgree'
<1> SUFFICES ASSUME NEW c \in Client, Answered(c, "resolved")',
                    NEW o \in reply'[c].outputs
             PROVE  ResolvesTo(o.expiration, query'[c].address, clock'[c])
  BY DEF AnswersAgree, ResolvesTo, Unexpired, Lapsed
<1>0. /\ CoreInv /\ ApiTypeOK /\ HandlersInOrder /\ AnswersAgree
      /\ stage'[c] = "idle" /\ query'[c].endpoint = "resolved"
      /\ reply'[c].status = 200
  BY DEF ApiInv, SyncInv, Answered
<1>1. CASE /\ stage'[c] = stage[c] /\ query'[c] = query[c]
           /\ clock'[c] = clock[c] /\ reply'[c] = reply[c]
  BY <1>0, <1>1 DEF AnswersAgree, Answered
<1>2. CASE FetchStoredObjects(c)
  <2>1. /\ query[c] \in ListQueries
        /\ query' = query /\ clock' = clock
        /\ reply'[c] = Response(query[c], Fetched(query[c], clock[c]))
    BY <1>0, <1>2 DEF FetchStoredObjects, HandlersInOrder, Reply, ApiTypeOK
  <2>2. PICK r \in Fetched(query[c], clock[c]) :
          o = Shown(query[c].object_type, r)
    BY <1>0, <2>1, ResponseIsList
  <2>3. Selects(query[c], clock[c], r)
    BY <1>0, <2>2, FetchedRows
  <2> QED
    BY <1>0, <2>1, <2>2, <2>3 DEF Selects, Shown
<1> QED
  BY <1>0, <1>1, <1>2, AnswerKinds

\* What the saved progress covers is in the tables, and what is in the tables
\* and concerns the address is in its list.
LEMMA CompleteStep ==
    ASSUME ApiInv, [ApiNext]_apiVars, NoReset \/ AlwaysReset
    PROVE  ListIsComplete'
<1> SUFFICES ASSUME NEW c \in Client, Answered(c, "list")',
                    NEW n \in 0 .. covered'[c] - 1, NEW id \in Id,
                    NEW i \in DOMAIN Upserts[n], Upserts[n][i].id = id,
                    NeverRemoved(id),
                    \A m \in Checkpoints : \A j \in DOMAIN Upserts[m] :
                      Upserts[m][j].id = id =>
                        /\ Upserts[m][j].object_type = query'[c].object_type
                        /\ HasExpiration(Upserts[m][j])
                        /\ BelongsTo(DecodeExpiration[Upserts[m][j].contents],
                                     query'[c].address)
             PROVE  \E o \in reply'[c].outputs : o.id = id
  BY DEF ListIsComplete, NeverRemoved, HasExpiration, BelongsTo
<1>0. /\ SyncInv /\ CoreInv /\ ApiTypeOK /\ HandlersInOrder /\ ListIsComplete
      /\ RowsFromChain /\ Load \in Nat
      /\ stage'[c] = "idle" /\ query'[c].endpoint = "list"
      /\ reply'[c].status = 200
  BY LoadType, SyncAssumption DEF ApiInv, SyncInv, CoreInv, Answered
<1>1. CASE /\ stage'[c] = stage[c] /\ query'[c] = query[c]
           /\ covered'[c] = covered[c] /\ reply'[c] = reply[c]
  BY <1>0, <1>1 DEF ListIsComplete, Answered, NeverRemoved
<1>2. CASE FetchStoredObjects(c)
  <2>1. /\ query[c] \in ListQueries /\ Up /\ covered[c] <= Load
        /\ query' = query /\ covered' = covered
        /\ reply'[c] = Response(query[c], Fetched(query[c], clock[c]))
    BY <1>0, <1>2 DEF FetchStoredObjects, HandlersInOrder, Reply, ApiTypeOK
  <2>2. n \in applied
    <3>1. 0 .. Load - 1 \subseteq applied
      BY <1>0, <2>1 DEF SyncInv, SavedAreApplied, Vouched, Up, Serving
    <3>2. covered[c] \in Nat
      BY <1>0, SyncAssumption DEF ApiTypeOK
    <3>3. n \in 0 .. Load - 1
      BY <1>0, <2>1, <3>2
    <3> QED
      BY <3>1, <3>3
  <2>3. PICK r \in objects : r.id = id
    BY <1>0, <2>2 DEF CoreInv, RowsPresent, RowsOf
  <2>4. Selects(query[c], clock[c], r)
    <3>1. /\ r.object_type = query[c].object_type
          /\ BelongsTo(DecodeExpiration[r.contents], query[c].address)
      BY <1>0, <2>1, <2>3 DEF RowsFromChain
    <3> QED
      BY <1>0, <2>1, <3>1 DEF Selects
  <2>5. r \in Fetched(query[c], clock[c])
    BY <1>0, <2>3, <2>4, FetchedRows
  <2>6. Shown(query[c].object_type, r) \in reply'[c].outputs
    BY <1>0, <2>1, <2>5, ResponseIsList
  <2> QED
    BY <2>3, <2>6 DEF Shown
<1> QED
  BY <1>0, <1>1, <1>2, AnswerKinds

-----------------------------------------------------------------------------
(* Theorems.                                                               *)

\* No table, no handler and no answer to begin with.
LEMMA ApiInitInv == ApiInit => ApiInv
<1> SUFFICES ASSUME ApiInit PROVE ApiInv
  OBVIOUS
<1>1. SyncInv /\ IsFiniteSet(objects) /\ RowsFromChain
  BY InitInv, FS_EmptySet DEF ApiInit, RowsFromChain, Init
<1>2. ApiTypeOK
  BY SyncAssumption, ReplyTypes DEF ApiInit, ApiTypeOK, Stages
<1>3. HandlersInOrder
  BY DEF ApiInit, HandlersInOrder
<1>4. \A c \in Client : reply[c].status = None /\ None \notin {200, 500}
  BY SyncAssumption DEF ApiInit, NoReply
<1>5. AnswersAgree /\ OnlyDecodableRows /\ ListIsComplete
  BY <1>4 DEF AnswersAgree, OnlyDecodableRows, ListIsComplete, Answered
<1> QED
  BY <1>1, <1>2, <1>3, <1>5 DEF ApiInv

\* Every step of workers and handlers preserves it.
LEMMA ApiStep == ApiInv /\ [ApiNext]_apiVars => ApiInv'
<1> SUFFICES ASSUME ApiInv, [ApiNext]_apiVars PROVE ApiInv'
  OBVIOUS
<1>1. SyncInv' /\ IsFiniteSet(objects') /\ RowsFromChain'
  BY SyncInvStep, ObjectsStep DEF ApiInv
<1>2. (NoReset \/ AlwaysReset => ListIsComplete)'
  BY CompleteStep DEF NoReset, AlwaysReset
<1> QED
  BY <1>1, <1>2, ApiTypesStep, OrderStep, AgreeStep, DecodableStep DEF ApiInv

\* The inductive invariant holds in every reachable state.
THEOREM ApiInvariance == ApiSpec => []ApiInv
  BY ApiInitInv, ApiStep, PTL DEF ApiSpec

\* Handlers keep their types beside any workers; a resolved list never gets to
\* its query without a timestamp.
THEOREM ApiTypeCorrect == ApiSpec => []ApiTypeOK
  BY ApiInvariance, PTL DEF ApiInv

\* No list ever fails on a row the workers committed.
THEOREM ListsDecode == ApiSpec => []OnlyDecodableRows
  BY ApiInvariance, PTL DEF ApiInv

\* The expiration shown is the one the output was selected by.
THEOREM ShownAsSelected == ApiSpec => []AnswersAgree
  BY ApiInvariance, PTL DEF ApiInv

\* If --reset-db is the same at every start, a list holds every output that the
\* progress covered when the request arrived and no checkpoint removes.
THEOREM ListsComplete ==
    ASSUME NoReset \/ AlwaysReset
    PROVE  ApiSpec => []ListIsComplete
<1>1. ApiInv => ListIsComplete
  BY DEF ApiInv
<1> QED
  BY <1>1, ApiInvariance, PTL

\* Beside any handlers the synchronisation still is an at-least-once log: their
\* requests, and the statements of theirs that fail, move neither the progress nor
\* what has been applied.
THEOREM HandlersKeepTheLog ==
    ASSUME NoReset
    PROVE  ApiSpec => ImplementsLog
<1>1. ApiInit => Log!Init
  BY LogInit DEF ApiInit
<1>2. ApiInv /\ [ApiNext]_apiVars => [Log!Next]_(Log!vars)
  <2>1. ASSUME FailureOnly PROVE UNCHANGED Log!vars
    BY <2>1 DEF FailureOnly, historyVars, Log!vars, Load
  <2> QED
    BY <2>1, SyncBehind, LogStep DEF ApiInv
<1> QED
  BY <1>1, <1>2, ApiInvariance, PTL DEF ApiSpec, ImplementsLog, Log!Spec

-----------------------------------------------------------------------------
(* The counts of the health endpoint.                                      *)

OfType(table, type) == { o \in table : o.object_type = type }

\* Between two counts the first ones are off by no more than the rows that came
\* and went.
CountsFollow ==
    \A c \in Client :
        /\ stage[c] = "all" => counts[c] = <<>>
        /\ stage[c] = "basic" =>
             /\ Len(counts[c]) = 1
             /\ Difference(counts[c][1], Cardinality(objects)) <= changes[c]
        /\ stage[c] = "nft" =>
             /\ Len(counts[c]) = 2
             /\ Difference(counts[c][1], counts[c][2] + CountOf("Nft"))
                  <= changes[c]

DriftInv == ApiInv /\ CountsFollow /\ HealthDriftBounded

\* Rows taken from a table take no more rows of one type than of all types.
LEMMA CountsShrink ==
    ASSUME NEW T, IsFiniteSet(T), NEW S \in SUBSET T, NEW type
    PROVE  /\ IsFiniteSet(S) /\ IsFiniteSet(OfType(S, type))
           /\ Cardinality(T) \in Nat /\ Cardinality(S) \in Nat
           /\ Cardinality(OfType(S, type)) \in Nat
           /\ Cardinality(OfType(T, type)) \in Nat
           /\ Cardinality(S) <= Cardinality(T)
           /\ Cardinality(OfType(S, type)) <= Cardinality(OfType(T, type))
           /\ Cardinality(OfType(T, type)) - Cardinality(OfType(S, type))
                <= Cardinality(T) - Cardinality(S)
<1> DEFINE A == OfType(S, type)
           B == OfType(T, type)
<1>1. A \subseteq B /\ B \subseteq T /\ S \cap B = A
  BY DEF OfType
<1>2. IsFiniteSet(S) /\ IsFiniteSet(B) /\ Cardinality(S) <= Cardinality(T)
  BY <1>1, FS_Subset
<1>3. IsFiniteSet(A) /\ Cardinality(A) <= Cardinality(B)
  BY <1>1, <1>2, FS_Subset
<1>4. /\ IsFiniteSet(S \cup B)
      /\ Cardinality(S \cup B) = Cardinality(S) + Cardinality(B) - Cardinality(A)
  BY <1>1, <1>2, FS_Union
<1>5. S \cup B \subseteq T
  BY <1>1
<1>6. Cardinality(S \cup B) <= Cardinality(T)
  BY <1>5, FS_Subset
<1>7. /\ Cardinality(T) \in Nat /\ Cardinality(S) \in Nat
      /\ Cardinality(A) \in Nat /\ Cardinality(B) \in Nat
  BY <1>2, <1>3, FS_CardinalityType
<1> HIDE DEF A, B
<1>8. Cardinality(B) - Cardinality(A) <= Cardinality(T) - Cardinality(S)
  BY <1>4, <1>6, <1>7
<1> QED
  BY <1>2, <1>3, <1>7, <1>8 DEF A, B

\* Every row is counted as basic or as nft.
LEMMA CountsAdd ==
    ASSUME ApiInv
    PROVE  Cardinality(objects) = CountOf("Basic") + CountOf("Nft")
<1> DEFINE B == OfType(objects, "Basic")
           N == OfType(objects, "Nft")
<1>1. IsFiniteSet(objects) /\ objects \in SUBSET StoredObject
  BY DEF ApiInv, SyncInv, CoreInv, TypeOK
<1>2. objects = B \cup N /\ B \cap N = {}
  BY <1>1, ApiAssumption DEF OfType, StoredObject
<1>3. IsFiniteSet(B) /\ IsFiniteSet(N)
  BY <1>1, <1>2, FS_Subset
<1>4. Cardinality(B) \in Nat /\ Cardinality(N) \in Nat
  BY <1>3, FS_CardinalityType
<1>5. CountOf("Basic") = Cardinality(B) /\ CountOf("Nft") = Cardinality(N)
  BY DEF CountOf, OfType
<1> HIDE DEF B, N
<1>6. Cardinality(objects) = Cardinality(B) + Cardinality(N) - Cardinality({})
  BY <1>2, <1>3, FS_Union
<1> QED
  BY <1>4, <1>5, <1>6, FS_EmptySet

\* A step changes the count of one type by no more than the size of the table.
LEMMA CountsStep ==
    ASSUME ApiInv, [ApiNext]_apiVars, TypesAreStable, NEW type
    PROVE  /\ CountOf(type) \in Nat /\ CountOf(type)' \in Nat
           /\ Cardinality(objects) \in Nat /\ Cardinality(objects') \in Nat
           /\ Difference(CountOf(type)', CountOf(type))
                <= Difference(Cardinality(objects'), Cardinality(objects))
<1> DEFINE Near(S, T) ==
              Difference(Cardinality(OfType(S, type)), Cardinality(OfType(T, type)))
                <= Difference(Cardinality(S), Cardinality(T))
<1>0. /\ IsFiniteSet(objects) /\ IsFiniteSet(objects') /\ CoreInv /\ RowsFromChain
  BY ObjectsStep DEF ApiInv, SyncInv
<1>1. ASSUME NEW S, NEW T, IsFiniteSet(S), IsFiniteSet(T),
             S \subseteq T \/ T \subseteq S
      PROVE  Near(S, T)
  <2> USE DEF Difference
  <2>1. CASE S \subseteq T
    BY <1>1, <2>1, CountsShrink
  <2>2. CASE T \subseteq S
    BY <1>1, <2>2, CountsShrink
  <2> QED
    BY <1>1, <2>1, <2>2
<1>2. ASSUME objects' \subseteq objects PROVE Near(objects', objects)
  BY <1>0, <1>1, <1>2
<1>3. ASSUME NEW w \in Worker, InsertObject(w)
      PROVE  Near(objects', objects)
  <2> DEFINE obj  == Upserts[job[w]][row[w]]
             kept == {o \in objects : o.id # obj.id}
  <2>1. objects' = kept \cup {obj}
    BY <1>3 DEF InsertObject, UpsertObject
  <2>2. job[w] \in Checkpoints /\ row[w] \in DOMAIN Upserts[job[w]]
    BY <1>0, <1>3, CurrentRow DEF InsertObject
  <2>3. CASE \A o \in objects : o.id # obj.id
    <3>1. objects \subseteq objects'
      BY <2>1, <2>3
    <3> QED
      BY <1>0, <1>1, <3>1
  <2>4. ASSUME NEW p \in objects, p.id = obj.id
        PROVE  Near(objects', objects)
    <3>1. kept = objects \ {p}
      BY <1>0, <2>4 DEF CoreInv, PairedTables
    <3>2. p.object_type = obj.object_type
      BY <1>0, <2>2, <2>4 DEF RowsFromChain, TypesAreStable
    <3>3. obj \notin kept /\ p \notin kept /\ objects = kept \cup {p}
      BY <2>4, <3>1
    <3>4. IsFiniteSet(kept) /\ IsFiniteSet(OfType(kept, type))
          /\ Cardinality(kept) \in Nat /\ Cardinality(OfType(kept, type)) \in Nat
      BY <1>0, CountsShrink
    <3>5. /\ Cardinality(objects') = Cardinality(kept) + 1
          /\ Cardinality(objects) = Cardinality(kept) + 1
      <4> HIDE DEF kept, obj
      <4> QED
        BY <2>1, <3>3, <3>4, FS_AddElement
    <3>6. Cardinality(OfType(objects', type)) = Cardinality(OfType(objects, type))
      <4>1. CASE obj.object_type # type
        <5>1. OfType(objects', type) = OfType(objects, type)
          BY <2>1, <3>2, <3>3, <4>1 DEF OfType
        <5> QED
          BY <5>1
      <4>2. CASE obj.object_type = type
        <5>1. /\ OfType(objects', type) = OfType(kept, type) \cup {obj}
              /\ OfType(objects, type) = OfType(kept, type) \cup {p}
              /\ obj \notin OfType(kept, type) /\ p \notin OfType(kept, type)
          BY <2>1, <3>2, <3>3, <4>2 DEF OfType
        <5>2. ASSUME NEW S, IsFiniteSet(S), NEW x, x \notin S
              PROVE  Cardinality(S \cup {x}) = Cardinality(S) + 1
          BY <5>2, FS_AddElement
        <5> HIDE DEF kept, obj
        <5> QED
          BY <3>4, <5>1, <5>2
      <4> QED
        BY <4>1, <4>2
    <3>7. Cardinality(OfType(objects, type)) \in Nat
      BY <1>0, CountsShrink
    <3> HIDE DEF kept, obj
    <3> QED
      BY <3>4, <3>5, <3>6, <3>7 DEF Difference
  <2> QED
    BY <2>3, <2>4
<1>4. Near(objects', objects)
  <2>1. \/ RevertObjects
        \/ \E w \in Worker : InsertObject(w) \/ DeleteObjects(w)
        \/ UNCHANGED objects
    BY <1>0, SyncBehind, TableSteps DEF FailureOnly, tableVars
  <2>2. RevertObjects \/ UNCHANGED objects => objects' \subseteq objects
    BY DEF RevertObjects
  <2>3. \A w \in Worker : DeleteObjects(w) => objects' \subseteq objects
    BY DEF DeleteObjects, WithoutObjects
  <2> QED
    BY <1>2, <1>3, <2>1, <2>2, <2>3
<1>5. CountOf(type) = Cardinality(OfType(objects, type))
      /\ CountOf(type)' = Cardinality(OfType(objects', type))
  BY DEF CountOf, OfType
<1>6. /\ Cardinality(objects) \in Nat /\ Cardinality(objects') \in Nat
      /\ Cardinality(OfType(objects, type)) \in Nat
      /\ Cardinality(OfType(objects', type)) \in Nat
  BY <1>0, CountsShrink
<1> QED
  BY <1>4, <1>5, <1>6

\* A drift that stays in its bound when both grow by no more than the same.
LEMMA DriftAdds ==
    ASSUME NEW k \in Nat, NEW m \in Nat, NEW n \in Nat, NEW bound \in Nat,
           NEW drift \in Nat, Difference(n, m) <= drift, Difference(k, m) <= bound
    PROVE  Difference(k, n) <= bound + drift
  BY DEF Difference

\* One more count.
LEMMA OneMore ==
    ASSUME NEW s \in Seq(Nat), NEW x \in Nat
    PROVE  /\ Len(s) = 1 => /\ Len(Append(s, x)) = 2
                            /\ Append(s, x)[1] = s[1]
                            /\ Append(s, x)[2] = x
           /\ Len(s) = 2 => /\ Append(s, x)[1] = s[1]
                            /\ Append(s, x)[2] = s[2]
                            /\ Append(s, x)[3] = x
OBVIOUS

\* What a step may do to the counts of a client.
LEMMA HealthKinds ==
    ASSUME ApiInv, [ApiNext]_apiVars, NEW c \in Client
    PROVE  \/ /\ stage'[c] = stage[c] /\ query'[c] = query[c]
              /\ counts'[c] = counts[c] /\ reply'[c] = reply[c]
              /\ \/ /\ changes'[c] = changes[c]
                    /\ objects' = objects \/ stage[c] \notin {"basic", "nft"}
                 \/ /\ stage[c] \in {"basic", "nft"}
                    /\ changes'[c] = changes[c] + Difference(Cardinality(objects'),
                                                             Cardinality(objects))
           \/ /\ stage'[c] \notin {"all", "basic", "nft"}
              /\ ~Answered(c, "health")'
           \/ stage'[c] = "all" /\ counts'[c] = <<>>
           \/ /\ CountAll(c) \/ CountBasic(c) \/ CountNft(c)
              /\ objects' = objects
<1>0. ApiTypeOK /\ HandlersInOrder
  BY DEF ApiInv
<1>1. None # 200
  BY SyncAssumption
<1> DEFINE Kept(d) ==
              /\ stage'[d] = stage[d] /\ query'[d] = query[d]
              /\ counts'[d] = counts[d] /\ reply'[d] = reply[d]
              /\ changes'[d] = changes[d] /\ objects' = objects
<1>2. CASE Crash /\ Disconnect
  BY <1>1, <1>2 DEF Disconnect, NoReply, Answered
<1>3. CASE Sync /\ ~(Crash /\ Disconnect)
  BY <1>0, <1>3 DEF Sync, requestVars, ApiTypeOK
<1>4. CASE UNCHANGED apiVars
  BY <1>4 DEF apiVars, vars, clientVars, requestVars, tableVars
<1>5. ASSUME NEW d \in Client, d # c,
             \/ \E q \in Queries : Request(d, q) \/ Refuse(d, q)
             \/ \E r \in Misdirected : Reject(d, r)
             \/ Handle(d)
      PROVE  Kept(c)
  BY <1>0, <1>5 DEF Request, Refuse, Reject, Handle, LoadClock, NotSyncedYet,
     Reply, FetchStoredObjects, CountAll, CountBasic, CountNft, Count,
     StatementFails, ApiTypeOK, vars, tableVars
<1>6. ASSUME NEW q \in Queries, Request(c, q)
      PROVE  \/ stage'[c] \notin {"all", "basic", "nft", "idle"}
             \/ stage'[c] = "all" /\ counts'[c] = <<>>
  <2>1. FirstStage[q.endpoint] \in {"rows", "clock", "all"}
    BY QueryKinds DEF FirstStage
  <2> QED
    BY <1>0, <1>6, <2>1 DEF Request, ApiTypeOK
<1>7. ASSUME \/ \E q \in Queries : Refuse(c, q)
             \/ \E r \in Misdirected : Reject(c, r)
             \/ NotSyncedYet(c)
             \/ StatementFails(c)
      PROVE  stage'[c] = "idle" /\ reply'[c].status # 200
  <2>1. ASSUME NEW r \in Misdirected, Reject(c, r)
        PROVE  stage'[c] = "idle" /\ reply'[c].status = r.status
    BY <1>0, <2>1 DEF Reject, Status, ApiTypeOK
  <2>2. ASSUME (\E q \in Queries : Refuse(c, q)) \/ NotSyncedYet(c)
        PROVE  stage'[c] = "idle" /\ reply'[c].status = 503
    BY <1>0, <2>2 DEF Refuse, NotSyncedYet, Reply, Status, ApiTypeOK
  <2>3. ASSUME StatementFails(c)
        PROVE  stage'[c] = "idle" /\ reply'[c].status \in {500, 503}
    BY <1>0, <2>3 DEF StatementFails, Reply, Status, ApiTypeOK
  <2>4. \A r \in Misdirected : r.status # 200
    BY MisdirectedKinds
  <2> QED
    BY <1>7, <2>1, <2>2, <2>3, <2>4
<1>8. ASSUME LoadClock(c)
      PROVE  stage'[c] = "rows"
  BY <1>0, <1>8 DEF LoadClock, ApiTypeOK
<1>9. ASSUME FetchStoredObjects(c)
      PROVE  stage'[c] = "idle" /\ query'[c].endpoint # "health"
  <2>1. query[c] \in ListQueries /\ query' = query
    BY <1>0, <1>9 DEF FetchStoredObjects, HandlersInOrder
  <2>2. stage'[c] = "idle"
    BY <1>0, <1>9 DEF FetchStoredObjects, Reply, ApiTypeOK
  <2> QED
    BY <2>1, <2>2, QueryKinds
<1>10. ASSUME CountAll(c) \/ CountBasic(c) \/ CountNft(c)
       PROVE  objects' = objects
  BY <1>10 DEF CountAll, CountBasic, CountNft, Count, vars, tableVars
<1>11. CASE \E d \in Client : \/ \E q \in Queries : Request(d, q) \/ Refuse(d, q)
                              \/ \E r \in Misdirected : Reject(d, r)
                              \/ Handle(d)
  <2>1. PICK d \in Client : \/ \E q \in Queries : Request(d, q) \/ Refuse(d, q)
                            \/ \E r \in Misdirected : Reject(d, r)
                            \/ Handle(d)
    BY <1>11
  <2>2. CASE d # c
    BY <1>5, <2>1, <2>2
  <2>3. CASE d = c
    BY <1>6, <1>7, <1>8, <1>9, <1>10, <2>1, <2>3 DEF Handle, Answered
  <2> QED
    BY <2>2, <2>3
<1> QED
  BY <1>2, <1>3, <1>4, <1>11 DEF ApiNext, Sync

\* Each count is taken within the drift of the ones before.
LEMMA DriftStep ==
    ASSUME ApiInv, CountsFollow, HealthDriftBounded, TypesAreStable,
           [ApiNext]_apiVars
    PROVE  CountsFollow' /\ HealthDriftBounded'
<1>0. /\ ApiTypeOK /\ HandlersInOrder /\ ApiTypeOK'
  BY ApiStep DEF ApiInv
<1>1. /\ CountOf("Nft") \in Nat /\ CountOf("Nft")' \in Nat
      /\ CountOf("Basic") \in Nat
      /\ Cardinality(objects) \in Nat /\ Cardinality(objects') \in Nat
      /\ Difference(CountOf("Nft")', CountOf("Nft"))
           <= Difference(Cardinality(objects'), Cardinality(objects))
      /\ Cardinality(objects) = CountOf("Basic") + CountOf("Nft")
  BY CountsStep, CountsAdd
<1> DEFINE Sound(c) ==
             /\ stage[c] = "all" => counts[c] = <<>>
             /\ stage[c] = "basic" =>
                  /\ Len(counts[c]) = 1
                  /\ Difference(counts[c][1], Cardinality(objects)) <= changes[c]
             /\ stage[c] = "nft" =>
                  /\ Len(counts[c]) = 2
                  /\ Difference(counts[c][1], counts[c][2] + CountOf("Nft"))
                       <= changes[c]
             /\ Answered(c, "health") =>
                  Difference(counts[c][1], counts[c][2] + counts[c][3])
                    <= changes[c]
<1> SUFFICES ASSUME NEW c \in Client PROVE Sound(c)'
  BY DEF CountsFollow, HealthDriftBounded
<1>2. Sound(c)
  BY DEF CountsFollow, HealthDriftBounded
<1>3. /\ counts[c] \in Seq(Nat) /\ counts'[c] \in Seq(Nat)
      /\ changes[c] \in Nat /\ changes'[c] \in Nat
  BY <1>0 DEF ApiTypeOK
<1>4. CASE /\ stage'[c] = stage[c] /\ query'[c] = query[c]
           /\ counts'[c] = counts[c] /\ reply'[c] = reply[c]
           /\ \/ /\ changes'[c] = changes[c]
                 /\ objects' = objects \/ stage[c] \notin {"basic", "nft"}
              \/ /\ stage[c] \in {"basic", "nft"}
                 /\ changes'[c] = changes[c] + Difference(Cardinality(objects'),
                                                          Cardinality(objects))
  <2>1. Answered(c, "health")' => Answered(c, "health")
    BY <1>4 DEF Answered
  <2>2. CASE /\ changes'[c] = changes[c]
             /\ objects' = objects \/ stage[c] \notin {"basic", "nft"}
    <3>1. CountOf("Nft")' = CountOf("Nft") \/ stage[c] \notin {"basic", "nft"}
      BY <2>2 DEF CountOf
    <3> QED
      BY <1>2, <1>4, <2>1, <2>2, <3>1
  <2>3. CASE /\ stage[c] \in {"basic", "nft"}
             /\ changes'[c] = changes[c] + Difference(Cardinality(objects'),
                                                      Cardinality(objects))
    <3> DEFINE drift == Difference(Cardinality(objects'), Cardinality(objects))
    <3>1. drift \in Nat
      BY <1>1 DEF Difference
    <3>2. \A i \in 1 .. Len(counts[c]) : counts[c][i] \in Nat
      BY <1>3
    <3>3. CASE stage[c] = "basic"
      <4>1. counts[c][1] \in Nat
        BY <1>2, <3>2, <3>3
      <4>2. Difference(counts[c][1], Cardinality(objects)) <= changes[c]
        BY <1>2, <3>3
      <4>3. drift <= drift
        BY <3>1
      <4> HIDE DEF Sound
      <4>4. Difference(counts[c][1], Cardinality(objects')) <= changes[c] + drift
        BY <1>1, <1>3, <3>1, <4>1, <4>2, <4>3, DriftAdds
      <4> USE DEF Sound
      <4> QED
        BY <1>2, <1>4, <2>3, <3>3, <4>4 DEF Answered
    <3>4. CASE stage[c] = "nft"
      <4>1. counts[c][1] \in Nat /\ counts[c][2] \in Nat
        BY <1>2, <3>2, <3>4
      <4>2. Difference(counts[c][2] + CountOf("Nft")', counts[c][2] + CountOf("Nft"))
              <= drift
        BY <1>1, <4>1 DEF Difference
      <4>3. /\ counts[c][2] + CountOf("Nft") \in Nat
            /\ counts[c][2] + CountOf("Nft")' \in Nat
        BY <1>1, <4>1
      <4>4. Difference(counts[c][1], counts[c][2] + CountOf("Nft")')
              <= changes[c] + drift
        BY <1>2, <1>3, <3>1, <3>4, <4>1, <4>2, <4>3, DriftAdds
      <4> QED
        BY <1>2, <1>4, <2>3, <3>4, <4>4 DEF Answered
    <3> QED
      BY <2>3, <3>3, <3>4
  <2> QED
    BY <1>4, <2>2, <2>3
<1>5. CASE stage'[c] \notin {"all", "basic", "nft"} /\ ~Answered(c, "health")'
  BY <1>5
<1>6. CASE stage'[c] = "all" /\ counts'[c] = <<>>
  BY <1>6 DEF Answered
<1>7. CASE CountAll(c) /\ objects' = objects
  <2>1. /\ stage[c] = "all" /\ stage'[c] = "basic"
        /\ counts'[c] = Append(counts[c], Cardinality(objects))
    BY <1>0, <1>7 DEF CountAll, Count, ApiTypeOK
  <2>2. Len(counts'[c]) = 1 /\ counts'[c][1] = Cardinality(objects')
    BY <1>1, <1>2, <1>3, <1>7, <2>1
  <2>3. Difference(Cardinality(objects'), Cardinality(objects')) = 0
    BY <1>1 DEF Difference
  <2>4. 0 <= changes'[c]
    BY <1>3
  <2> QED
    BY <2>1, <2>2, <2>3, <2>4 DEF Answered
<1>8. CASE CountBasic(c) /\ objects' = objects
  <2>1. /\ stage[c] = "basic" /\ stage'[c] = "nft" /\ changes' = changes
        /\ counts'[c] = Append(counts[c], CountOf("Basic"))
    BY <1>0, <1>8 DEF CountBasic, Count, ApiTypeOK
  <2>2. /\ Len(counts'[c]) = 2 /\ counts'[c][1] = counts[c][1]
        /\ counts'[c][2] = CountOf("Basic")
    <3>1. Len(counts[c]) = 1
      BY <1>2, <2>1
    <3> HIDE DEF Sound
    <3> QED
      BY <1>1, <1>3, <2>1, <3>1, OneMore
  <2>3. CountOf("Nft")' = CountOf("Nft")
    BY <1>8 DEF CountOf
  <2>4. Difference(counts[c][1], CountOf("Basic") + CountOf("Nft")) <= changes[c]
    BY <1>1, <1>2, <2>1
  <2>5. Difference(counts'[c][1], counts'[c][2] + CountOf("Nft")') <= changes'[c]
    BY <2>1, <2>2, <2>3, <2>4
  <2> QED
    BY <2>1, <2>2, <2>5 DEF Answered
<1>9. CASE CountNft(c) /\ objects' = objects
  <2>1. /\ stage[c] = "nft" /\ stage'[c] = "idle" /\ changes' = changes
        /\ counts'[c] = Append(counts[c], CountOf("Nft"))
    BY <1>0, <1>9 DEF CountNft, Count, Reply, ApiTypeOK
  <2>2. /\ counts'[c][1] = counts[c][1] /\ counts'[c][2] = counts[c][2]
        /\ counts'[c][3] = CountOf("Nft")
    <3>1. Len(counts[c]) = 2
      BY <1>2, <2>1
    <3>2. CountOf("Nft") \in Nat /\ counts[c] \in Seq(Nat)
      BY <1>1, <1>3
    <3> QED
      BY <2>1, <3>1, <3>2, OneMore
  <2> QED
    BY <1>2, <2>1, <2>2
<1> QED
  BY <1>4, <1>5, <1>6, <1>7, <1>8, <1>9, HealthKinds

\* The health counts never drift apart by more than the rows that workers added
\* and removed between them, whatever the workers did, as long as an object keeps
\* its type.
THEOREM DriftIsBounded ==
    ASSUME TypesAreStable
    PROVE  ApiSpec => []HealthDriftBounded
<1>1. ApiInit => DriftInv
  <2> SUFFICES ASSUME ApiInit PROVE DriftInv
    OBVIOUS
  <2>1. \A c \in Client : stage[c] = "idle" /\ reply[c].status = None
    BY DEF ApiInit, NoReply
  <2>2. None # 200
    BY SyncAssumption
  <2> QED
    BY <2>1, <2>2, ApiInitInv DEF DriftInv, CountsFollow, HealthDriftBounded,
       Answered
<1>2. DriftInv /\ [ApiNext]_apiVars => DriftInv'
  BY ApiStep, DriftStep DEF DriftInv
<1>3. DriftInv => HealthDriftBounded
  BY DEF DriftInv
<1> QED
  BY <1>1, <1>2, <1>3, PTL DEF ApiSpec

-----------------------------------------------------------------------------
(* Expiration, with one worker.                                            *)

\* The clock of a request is not ahead of the timestamp, and not behind what
\* its client has been told.
ClocksHold ==
    \A c \in Client :
        /\ clock[c] # None =>
             /\ latest_timestamp # None /\ clock[c] <= latest_timestamp
             /\ \A o \in lapsed[c] : Lapsed(o.expiration, clock[c])
        /\ Answered(c, "resolved") => clock[c] # None

LapsedHold ==
    \A c \in Client : \A o \in lapsed[c] :
        /\ o.expiration \in Expiration
        /\ latest_timestamp # None
        /\ Lapsed(o.expiration, latest_timestamp)

ExpiryInv ==
    /\ ApiInv
    /\ SeqInv
    /\ ClockInv
    /\ ClocksHold
    /\ LapsedHold

-----------------------------------------------------------------------------
(* Clocks.                                                                 *)

\* What is over stays over.
LEMMA LapsedLater ==
    ASSUME NEW x \in Expiration, NEW t \in Nat, NEW u \in Nat, t <= u,
           Lapsed(x, t)
    PROVE  Lapsed(x, u)
<1>1. UnixTime[x] \in Nat
  BY ApiAssumption
<1> QED
  BY <1>1 DEF Lapsed

\* An expiration is never both over and not.
LEMMA LapsedOrNot ==
    ASSUME NEW x \in Expiration, NEW t \in Nat
    PROVE  Lapsed(x, t) <=> ~Unexpired(x, t)
<1>1. UnixTime[x] \in Nat
  BY ApiAssumption
<1> QED
  BY <1>1 DEF Lapsed, Unexpired

\* An answer treats an output as expired by the clock of its request.
LEMMA ExpiredRows ==
    ASSUME CoreInv, NEW q, NEW t, NEW o \in Expired(q, t)
    PROVE  o.expiration \in Expiration /\ Lapsed(o.expiration, t)
<1>1. PICK j \in Joined : /\ o = Shown(q.object_type, j[1])
                          /\ Lapsed(j[2].expiration, t)
  BY DEF Expired
<1>2. PICK p \in objects : j = <<p, Condition(p)>>
  BY JoinedRows
<1>3. o.expiration = DecodeExpiration[p.contents]
  BY <1>1, <1>2 DEF Shown
<1>4. p \in StoredObject /\ HasExpiration(p)
  BY DEF CoreInv, TypeOK, PairedTables
<1>5. DecodeExpiration[p.contents] \in Expiration
  BY <1>4, SyncAssumption DEF StoredObject, HasExpiration
<1> QED
  BY <1>1, <1>2, <1>3, <1>5 DEF Condition

-----------------------------------------------------------------------------
(* Steps.                                                                  *)

\* A failure in a handler leaves the workers and their tables alone.
LEMMA FailureKeepsSeq ==
    ASSUME SeqInv, ClockInv, FailureOnly
    PROVE  SeqInv' /\ ClockInv' /\ ClockAdvances
<1> USE DEF FailureOnly, workerVars, poolVars, globalVars, tableVars, historyVars
<1>1. SyncInv'
  BY FailureKeeps DEF SeqInv
<1>2. Load' = Load /\ Up' = Up
  BY DEF Load, Up
<1>3. JobIsLast' /\ (phase = "revert_progress" => objects = {})'
  BY DEF SeqInv, JobIsLast
<1>4. \A w \in Worker, n \in Checkpoints, id \in Id :
        /\ AttemptExact(w, n, id)' <=> AttemptExact(w, n, id)
        /\ Touches(n, id)' <=> Touches(n, id)
  BY DEF AttemptExact, Wrote, LastRow, Final, RowsLeft, RowsOf, Touches, Touched
<1>5. RowsBelow' = RowsBelow
  BY DEF RowsBelow, RowsLeft, Touches, Touched
<1>6. \A k : ExactAt(k)' <=> ExactAt(k)
  BY <1>5 DEF ExactAt, RowsOf, Touches, Touched
<1>7. \A k : Passed(k)' <=> Passed(k)
  BY <1>2 DEF Passed
<1>8. Vouched' => Vouched
  BY DEF Vouched, NoReset, AlwaysReset, Serving
<1>9. ExactAt(Load)' <=> ExactAt(Load)
  BY <1>2, <1>5 DEF ExactAt, RowsOf, Touches, Touched
<1>10. Sequential => Sequential'
  BY <1>2, <1>6, <1>7, <1>9 DEF Sequential
<1>11. SeqInv'
  BY <1>1, <1>3, <1>4, <1>8, <1>10 DEF SeqInv
<1>12. ClockInv'
  BY <1>2 DEF ClockInv, TimestampIsLatest
<1>13. ClockAdvances
  BY DEF ClockAdvances, SeqInv, SyncInv, CoreInv, TypeOK
<1> QED
  BY <1>11, <1>12, <1>13

LEMMA BehindStep ==
    ASSUME OneWorker, MonotoneTimestamps, SeqInv, ClockInv, [ApiNext]_apiVars
    PROVE  SeqInv' /\ ClockInv' /\ ClockAdvances
  BY SyncBehind, FailureKeepsSeq, SeqStep, ClockStep

\* What a step may do to a clock and to what a client has been told.
LEMMA ClockOfKinds ==
    ASSUME ApiInv, [ApiNext]_apiVars, NEW c \in Client
    PROVE  \/ clock'[c] = None /\ lapsed'[c] = {}
           \/ /\ clock'[c] \in {clock[c], None} /\ lapsed'[c] = lapsed[c]
              /\ phase' # "down" \/ phase' = phase
           \/ LoadClock(c)
           \/ FetchStoredObjects(c)
<1>0. ApiTypeOK
  BY DEF ApiInv
<1> DEFINE Kept == /\ clock'[c] = clock[c] /\ lapsed'[c] = lapsed[c]
                   /\ phase' # "down" \/ phase' = phase
<1>1. CASE Sync
  BY <1>1 DEF Sync, Disconnect, requestVars
<1>2. CASE UNCHANGED apiVars
  BY <1>2 DEF apiVars, clientVars, requestVars, vars
<1>3. ASSUME NEW d \in Client, NEW q \in Queries, Request(d, q)
      PROVE  Kept \/ (/\ clock'[c] = None /\ lapsed'[c] = lapsed[c]
                      /\ phase' = phase)
  BY <1>0, <1>3 DEF Request, ApiTypeOK, vars
<1>4. ASSUME NEW d \in Client, \/ \E q \in Queries : Refuse(d, q)
                               \/ \E r \in Misdirected : Reject(d, r)
      PROVE  Kept
  BY <1>4 DEF Refuse, Reject, vars
<1>5. ASSUME NEW d \in Client, Handle(d),
             d # c \/ ~(LoadClock(d) \/ FetchStoredObjects(d))
      PROVE  Kept
  BY <1>0, <1>5 DEF Handle, LoadClock, NotSyncedYet, FetchStoredObjects,
     CountAll, CountBasic, CountNft, Count, StatementFails, ApiTypeOK, vars
<1> QED
  BY <1>1, <1>2, <1>3, <1>4, <1>5 DEF ApiNext

\* What is told expired is so by the clock of the request, and stays so.
LEMMA ExpiryStep ==
    ASSUME OneWorker, MonotoneTimestamps, ExpiryInv, [ApiNext]_apiVars
    PROVE  ClocksHold' /\ LapsedHold'
<1>0. /\ CoreInv /\ ApiTypeOK /\ HandlersInOrder /\ SeqInv /\ ClockInv
      /\ ClocksHold /\ LapsedHold /\ ClockAdvances
      /\ latest_timestamp \in Nat \cup {None}
      /\ latest_timestamp' \in Nat \cup {None}
  <2>1. TypeOK' /\ ClockAdvances
    BY BehindStep DEF ExpiryInv, SeqInv, SyncInv, CoreInv
  <2> QED
    BY <2>1 DEF ExpiryInv, ApiInv, SyncInv, CoreInv, TypeOK
<1>1. ASSUME NEW c \in Client
      PROVE  /\ clock'[c] # None =>
                  /\ latest_timestamp' # None /\ clock'[c] <= latest_timestamp'
                  /\ \A o \in lapsed'[c] : Lapsed(o.expiration, clock'[c])
             /\ \A o \in lapsed'[c] :
                  /\ o.expiration \in Expiration
                  /\ latest_timestamp' # None
                  /\ Lapsed(o.expiration, latest_timestamp')
  <2>0. clock[c] \in Nat \cup {None}
    BY <1>0 DEF ApiTypeOK
  <2>1. CASE clock'[c] = None /\ lapsed'[c] = {}
    BY <2>1
  <2>2. CASE /\ clock'[c] \in {clock[c], None} /\ lapsed'[c] = lapsed[c]
             /\ phase' # "down" \/ phase' = phase
    <3>1. latest_timestamp # None =>
            latest_timestamp' # None /\ latest_timestamp' >= latest_timestamp
      BY <1>0, <2>2 DEF ClockInv, ClockAdvances, Up
    <3>2. clock'[c] # None =>
            /\ latest_timestamp' # None /\ clock'[c] <= latest_timestamp'
            /\ \A o \in lapsed'[c] : Lapsed(o.expiration, clock'[c])
      BY <1>0, <2>0, <2>2, <3>1 DEF ClocksHold
    <3>3. ASSUME NEW o \in lapsed'[c]
          PROVE  /\ o.expiration \in Expiration
                 /\ latest_timestamp' # None
                 /\ Lapsed(o.expiration, latest_timestamp')
      BY <1>0, <2>2, <3>1, <3>3, LapsedLater DEF LapsedHold
    <3> QED
      BY <3>2, <3>3
  <2>3. CASE LoadClock(c)
    BY <1>0, <2>3 DEF LoadClock, Synced, LapsedHold, ApiTypeOK, vars, globalVars
  <2>4. CASE FetchStoredObjects(c)
    <3> DEFINE expired == IF /\ query[c].endpoint = "resolved"
                             /\ Response(query[c],
                                         Fetched(query[c], clock[c])).status = 200
                          THEN Expired(query[c], clock[c]) ELSE {}
    <3>1. /\ lapsed'[c] = lapsed[c] \cup expired
          /\ clock' = clock /\ latest_timestamp' = latest_timestamp
      BY <1>0, <2>4 DEF FetchStoredObjects, ApiTypeOK, vars, globalVars
    <3>2. ASSUME NEW o \in expired
          PROVE  /\ clock[c] # None /\ o.expiration \in Expiration
                 /\ Lapsed(o.expiration, clock[c])
      <4>1. query[c].endpoint = "resolved" /\ o \in Expired(query[c], clock[c])
        BY <3>2
      <4>2. clock[c] # None
        BY <1>0, <2>4, <4>1 DEF FetchStoredObjects, ApiTypeOK
      <4> QED
        BY <1>0, <4>1, <4>2, ExpiredRows
    <3> HIDE DEF expired
    <3>3. ASSUME NEW o \in expired
          PROVE  latest_timestamp # None /\ Lapsed(o.expiration, latest_timestamp)
      BY <1>0, <2>0, <3>2, LapsedLater DEF ClocksHold
    <3> QED
      BY <1>0, <3>1, <3>2, <3>3 DEF ClocksHold, LapsedHold
  <2> QED
    BY <2>1, <2>2, <2>3, <2>4, ClockOfKinds DEF ExpiryInv
<1>2. ASSUME NEW c \in Client, Answered(c, "resolved")'
      PROVE  clock'[c] # None
  <2>1. CASE /\ stage'[c] = stage[c] /\ query'[c] = query[c]
             /\ clock'[c] = clock[c] /\ reply'[c] = reply[c]
    BY <1>0, <1>2, <2>1 DEF ClocksHold, Answered
  <2>2. CASE FetchStoredObjects(c)
    BY <1>0, <1>2, <2>2 DEF FetchStoredObjects, ApiTypeOK, Answered
  <2> QED
    BY <1>2, <2>1, <2>2, AnswerKinds DEF Answered, ExpiryInv
<1>3. ClocksHold'
  BY <1>1, <1>2 DEF ClocksHold, Lapsed
<1>4. LapsedHold'
  BY <1>1 DEF LapsedHold, Lapsed
<1> QED
  BY <1>3, <1>4

\* What an answer has left to the return address, its next list holds.
LEMMA HandedStep ==
    ASSUME ExpiryInv, [ApiNext]_apiVars, NEW c \in Client,
           stage[c] = "rows", stage'[c] = "idle",
           query[c].endpoint = "resolved", reply'[c].status = 200,
           NEW o \in objects, Shown(o.object_type, o) \in lapsed[c],
           o.object_type = query[c].object_type,
           ReturnAddress[Shown(o.object_type, o).expiration] = query[c].address
    PROVE  Shown(o.object_type, o) \in reply'[c].outputs
<1>0. CoreInv /\ ApiTypeOK /\ HandlersInOrder /\ ClocksHold
  BY DEF ExpiryInv, ApiInv, SyncInv
<1>1. query[c] \in ListQueries /\ clock[c] # None
  BY <1>0 DEF HandlersInOrder, ApiTypeOK
<1>2. FetchStoredObjects(c)
  <2>1. query'[c] = query[c] \/ reply'[c].status # 200
    <3>1. None # 200
      BY SyncAssumption
    <3>2. ~\E q \in Queries : Request(c, q) \/ Refuse(c, q)
      BY DEF Request, Refuse
    <3>3. ~\E r \in Misdirected : Reject(c, r)
      BY DEF Reject
    <3>4. Disconnect => reply'[c].status = None
      BY DEF Disconnect, NoReply
    <3> QED
      BY <1>0, <3>1, <3>2, <3>3, <3>4 DEF ApiNext, Sync, Request, Refuse, Reject,
         Handle, LoadClock, NotSyncedYet, FetchStoredObjects, CountAll,
         CountBasic, CountNft, Count, StatementFails, apiVars, clientVars,
         requestVars, ApiTypeOK
  <2> QED
    BY <2>1, AnswerKinds DEF ExpiryInv
<1>3. reply'[c] = Response(query[c], Fetched(query[c], clock[c]))
  BY <1>0, <1>2 DEF FetchStoredObjects, Reply, ApiTypeOK
<1>4. Lapsed(DecodeExpiration[o.contents], clock[c])
  BY <1>0, <1>1 DEF ClocksHold, Shown
<1>5. Selects(query[c], clock[c], o)
  BY <1>4 DEF Selects, ResolvesTo, Shown
<1>6. o \in Fetched(query[c], clock[c])
  BY <1>0, <1>5, FetchedRows
<1> QED
  BY <1>0, <1>1, <1>3, <1>6, ResponseIsList

-----------------------------------------------------------------------------
(* Theorems.                                                               *)

LEMMA ExpiryInit == ApiInit => ExpiryInv
<1> SUFFICES ASSUME ApiInit PROVE ExpiryInv
  OBVIOUS
<1>1. Init
  BY DEF ApiInit
<1>2. SeqInv /\ ClockInv
  BY <1>1, SeqInit DEF Init, ClockInv, TimestampIsLatest
<1>3. ClocksHold /\ LapsedHold
  BY DEF ApiInit, ClocksHold, LapsedHold, Answered, NoQuery
<1> QED
  BY <1>2, <1>3, ApiInitInv DEF ExpiryInv

\* With one worker, and a chain whose timestamps do not go back, the inductive
\* invariant holds in every reachable state.
THEOREM ExpiryInvariance ==
    ASSUME OneWorker, MonotoneTimestamps
    PROVE  ApiSpec => []ExpiryInv
<1>1. ExpiryInv /\ [ApiNext]_apiVars => ExpiryInv'
  <2> SUFFICES ASSUME ExpiryInv, [ApiNext]_apiVars PROVE ExpiryInv'
    OBVIOUS
  <2>1. ApiInv'
    BY ApiStep DEF ExpiryInv
  <2>2. SeqInv' /\ ClockInv'
    BY BehindStep DEF ExpiryInv
  <2> QED
    BY <2>1, <2>2, ExpiryStep DEF ExpiryInv
<1> QED
  BY <1>1, ExpiryInit, PTL DEF ApiSpec

\* With one worker no answer of a process takes back what an earlier one told.
THEOREM ExpiredStaysExpired ==
    ASSUME OneWorker, MonotoneTimestamps
    PROVE  ApiSpec => []ExpiryHolds
<1>1. ExpiryInv => ExpiryHolds
  <2> SUFFICES ASSUME ExpiryInv, NEW c \in Client, GivenBack(c, lapsed[c])
               PROVE  FALSE
    BY DEF ExpiryHolds
  <2>1. PICK o \in reply[c].outputs \cap lapsed[c] :
          ReturnAddress[o.expiration] # query[c].address
    BY DEF GivenBack
  <2>2. Answered(c, "resolved")
    BY DEF GivenBack
  <2>3. /\ clock[c] # None /\ o.expiration \in Expiration
        /\ Lapsed(o.expiration, clock[c])
    BY <2>1, <2>2 DEF ExpiryInv, ClocksHold, LapsedHold
  <2>4. clock[c] \in Nat
    BY <2>3 DEF ExpiryInv, ApiInv, ApiTypeOK
  <2>5. ResolvesTo(o.expiration, query[c].address, clock[c])
    BY <2>1, <2>2 DEF ExpiryInv, ApiInv, AnswersAgree
  <2> QED
    BY <2>1, <2>3, <2>4, <2>5, LapsedOrNot DEF ResolvesTo
<1> QED
  BY <1>1, ExpiryInvariance, PTL

\* With one worker what an answer leaves to the return address, the next list
\* of the return address holds.
THEOREM NothingBetween ==
    ASSUME OneWorker, MonotoneTimestamps
    PROVE  ApiSpec => HandedOver
<1>1. ExpiryInv /\ [ApiNext]_apiVars =>
        [\A c \in Client :
           /\ stage[c] = "rows" /\ stage'[c] = "idle"
           /\ query[c].endpoint = "resolved" /\ reply'[c].status = 200
           => \A o \in objects :
                LET output == Shown(o.object_type, o) IN
                /\ output \in lapsed[c]
                /\ o.object_type = query[c].object_type
                /\ ReturnAddress[output.expiration] = query[c].address
                => output \in reply'[c].outputs]_apiVars
  BY HandedStep
<1> QED
  BY <1>1, ExpiryInvariance, PTL DEF ApiSpec, HandedOver
=============================================================================
