------------------------------ MODULE RestApi -------------------------------
(***************************************************************************)
(* The REST handlers that read what CheckpointSync writes: the lists of    *)
(* outputs of an address, the same lists with the expiration resolved      *)
(* against the timestamp of the latest checkpoint, and the health counts.  *)
(*                                                                         *)
(* A handler has no await point, but it reads shared state more than once: *)
(* the timestamp before the rows, the three health counts one after the    *)
(* other. One action for each read; the workers run in between.            *)
(*                                                                         *)
(* A list is one page here, large enough for the whole answer; module      *)
(* PageWalk is about pages.                                                *)
(***************************************************************************)
EXTENDS CheckpointSync

CONSTANTS
    Client,         \* each sends one request after another
    Endpoint,       \* bound: what clients ask for
    Address,        \* who may own outputs
    Owner,          \* expiration -> owner
    ReturnAddress,  \* expiration -> return_address
    UnixTime,       \* expiration -> unix_time, in seconds
    Undecodable     \* contents that are no output of their type

ASSUME ApiAssumption ==
    /\ Endpoint \subseteq {"list", "resolved", "health", "malformed", "unknown"}
    /\ ObjectType = {"Basic", "Nft"}
    /\ Owner \in [Expiration -> Address]
    /\ ReturnAddress \in [Expiration -> Address]
    /\ UnixTime \in [Expiration -> Nat]
    /\ \A k \in Undecodable : DecodeExpiration[k] = None

VARIABLES
    stage,     \* what each handler does next
    query,     \* the request it answers
    clock,     \* the timestamp it has loaded
    counts,    \* the counts it has made
    reply      \* its response, kept until the next request of the client

\* History; no guard of the program reads these.
VARIABLES
    covered,    \* the stored progress when the request arrived
    changes,    \* rows gained or lost by table objects since the first count
    lapsed,     \* outputs this process has treated as expired for the client
    told        \* the same over the lives of all processes

requestVars == <<stage, query, clock, counts, reply>>
clientVars  == <<requestVars, covered, changes, lapsed, told>>
apiVars     == <<vars, clientVars>>

Stages  == {"idle", "clock", "rows", "all", "basic", "nft"}
NoQuery == [endpoint |-> "none"]
NoReply == [status |-> None, outputs |-> {}]

\* What each route asks fetch_stored_objects for.
List(type, address) ==
    [endpoint |-> "list", address |-> address, object_type |-> type]
Resolved(type, address) ==
    [endpoint |-> "resolved", address |-> address, object_type |-> type]

BasicRoutes(address) == {List("Basic", address), Resolved("Basic", address)}
NftRoutes(address)   == {List("Nft", address), Resolved("Nft", address)}

ListQueries ==
    { q \in UNION { BasicRoutes(x) \cup NftRoutes(x) : x \in Address } :
        q.endpoint \in Endpoint }
Queries == ListQueries \cup [endpoint : Endpoint \cap {"health"}]

\* Requests that no handler gets to see, and how they are answered: a path that
\* is no address fails in the extractor, an unknown path goes to the fallback.
MalformedPath == [endpoint |-> "malformed", status |-> 400]
UnknownPath   == [endpoint |-> "unknown",   status |-> 403]
Misdirected   == { r \in {MalformedPath, UnknownPath} : r.endpoint \in Endpoint }

\* What a client sees of an output: its balance, tokens, deposit, timelock, tag,
\* metadata and sender are part of the contents no property tells apart.
Outputs == [type : ObjectType, id : Id, expiration : Expiration \cup {None}]
Replies == [status : {200, 400, 403, 500, 503, None}, outputs : SUBSET Outputs]

\* Every variable of the handlers holds a value of its type; in particular a
\* resolved list never gets to its query without a timestamp.
ApiTypeOK ==
    /\ stage \in [Client -> Stages]
    /\ query \in [Client -> Queries \cup Misdirected \cup {NoQuery}]
    /\ clock \in [Client -> Nat \cup {None}]
    /\ \A c \in Client : stage[c] = "rows" =>
         query[c].endpoint = "resolved" <=> clock[c] # None
    /\ counts \in [Client -> Seq(Nat)]
    /\ reply \in [Client -> Replies]
    /\ covered \in [Client -> 0 .. LastCheckpoint + 1]
    /\ changes \in [Client -> Nat]
    /\ lapsed \in [Client -> SUBSET Outputs]
    /\ told \in [Client -> SUBSET Outputs]

-----------------------------------------------------------------------------
(* The queries.                                                            *)

\* A row of the join of the two tables.
Joined == { j \in objects \X expiration_unlock_conditions :
              j[2].object_id = j[1].id }

\* `unix_time * 1000 <= timestamp`: seconds against milliseconds.
Lapsed(x, t) == UnixTime[x] * 1000 <= t

BelongsTo(x, address) == Owner[x] = address \/ ReturnAddress[x] = address

BrokenUnexpired(x, t) == UnixTime[x] * 1000 >= t
Unexpired(x, t) == UnixTime[x] * 1000 > t

\* Before expiration the owner's, from then on the return address's.
BrokenResolvesTo(x, address, t) ==
    /\ Owner[x] = address \/ ReturnAddress[x] = address
    /\ Unexpired(x, t)
ResolvesTo(x, address, t) ==
    \/ Owner[x] = address /\ Unexpired(x, t)
    \/ ReturnAddress[x] = address /\ Lapsed(x, t)

\* fetch_stored_objects: the rows the single SELECT of a list returns.
BrokenFetched(q, t) ==
    { o \in objects : /\ o.object_type = q.object_type
                      /\ \E j \in Joined : /\ j[1] = o
                                           /\ Owner[j[2].expiration] = q.address }
Fetched(q, t) ==
    { o \in objects :
        /\ o.object_type = q.object_type
        /\ \E j \in Joined :
             /\ j[1] = o
             /\ IF q.endpoint = "resolved"
                THEN ResolvesTo(j[2].expiration, q.address, t)
                ELSE BelongsTo(j[2].expiration, q.address) }

Status(code) == [status |-> code, outputs |-> {}]

\* try_from(stored_object): the row is of the type, and its contents are.
IsBasicOutput(o) == o.object_type = "Basic" /\ o.contents \notin Undecodable
IsNftOutput(o)   == o.object_type = "Nft" /\ o.contents \notin Undecodable

\* What is shown is read from the contents, not from the joined condition.
Shown(type, o) ==
    [type |-> type, id |-> o.id, expiration |-> DecodeExpiration[o.contents]]
BasicOutput(o) == Shown("Basic", o)
NftOutput(o)   == Shown("Nft", o)

\* One row that does not decode fails the whole response.
BasicOutputVec(rows) ==
    IF \A o \in rows : IsBasicOutput(o)
    THEN [status |-> 200, outputs |-> { BasicOutput(o) : o \in rows }]
    ELSE Status(500)
NftOutputVec(rows) ==
    IF \A o \in rows : IsNftOutput(o)
    THEN [status |-> 200, outputs |-> { NftOutput(o) : o \in rows }]
    ELSE Status(500)

Response(q, rows) ==
    IF q.object_type = "Basic" THEN BasicOutputVec(rows) ELSE NftOutputVec(rows)

\* The outputs an answer treats as expired: it lists them for the return address
\* and leaves them out for the owner.
Expired(q, t) ==
    { Shown(q.object_type, j[1]) :
        j \in { k \in Joined : /\ k[1].object_type = q.object_type
                               /\ BelongsTo(k[2].expiration, q.address)
                               /\ Lapsed(k[2].expiration, t) } }

CountOf(type) == Cardinality({ o \in objects : o.object_type = type })

-----------------------------------------------------------------------------
(* The handlers.                                                           *)

Reply(c, response) ==
    /\ stage' = [stage EXCEPT ![c] = "idle"]
    /\ reply' = [reply EXCEPT ![c] = response]

\* Only a resolved list needs the clock.
FirstStage == [list |-> "rows", resolved |-> "clock", health |-> "all"]

\* A request arrives and its handler gets a connection. The routes are served
\* from the end of the initialisation to the end of the process.
Request(c, q) ==
    /\ Up
    /\ stage[c] = "idle"
    /\ stage' = [stage EXCEPT ![c] = FirstStage[q.endpoint]]
    /\ query' = [query EXCEPT ![c] = q]
    /\ clock' = [clock EXCEPT ![c] = None]
    /\ counts' = [counts EXCEPT ![c] = <<>>]
    /\ reply' = [reply EXCEPT ![c] = NoReply]
    /\ covered' = [covered EXCEPT ![c] = Load]
    /\ changes' = [changes EXCEPT ![c] = 0]
    /\ UNCHANGED <<vars, lapsed, told>>

\* No connection within the timeout.
Refuse(c, q) ==
    /\ Up
    /\ stage[c] = "idle"
    /\ failures < MaxFailures
    /\ failures' = failures + 1
    /\ query' = [query EXCEPT ![c] = q]
    /\ reply' = [reply EXCEPT ![c] = Status(503)]
    /\ UNCHANGED <<phase, workerVars, poolVars, globalVars, tableVars,
                   last_checkpoint_sync, crashes, historyVars, stage, clock,
                   counts, covered, changes, lapsed, told>>

\* Such a request is answered at once, whatever the database is doing.
Reject(c, r) ==
    /\ Up
    /\ stage[c] = "idle"
    /\ query' = [query EXCEPT ![c] = r]
    /\ reply' = [reply EXCEPT ![c] = Status(r.status)]
    /\ UNCHANGED <<vars, stage, clock, counts, covered, changes, lapsed, told>>

\* OnceLock::get: until a checkpoint has been through in this process there is
\* no timestamp.
BrokenSynced == TRUE
Synced == latest_timestamp # None

\* The timestamp is read before the query runs.
LoadClock(c) ==
    /\ stage[c] = "clock"
    /\ Synced
    /\ clock' = [clock EXCEPT ![c] = latest_timestamp]
    /\ stage' = [stage EXCEPT ![c] = "rows"]
    /\ UNCHANGED <<vars, query, counts, reply, covered, changes, lapsed, told>>

NotSyncedYet(c) ==
    /\ stage[c] = "clock"
    /\ ~Synced
    /\ Reply(c, Status(503))
    /\ UNCHANGED <<vars, query, clock, counts, covered, changes, lapsed, told>>

FetchStoredObjects(c) ==
    LET response == Response(query[c], Fetched(query[c], clock[c]))
        expired  == IF query[c].endpoint = "resolved" /\ response.status = 200
                    THEN Expired(query[c], clock[c]) ELSE {}
    IN  /\ stage[c] = "rows"
        /\ Reply(c, response)
        /\ lapsed' = [lapsed EXCEPT ![c] = @ \cup expired]
        /\ told' = [told EXCEPT ![c] = @ \cup expired]
        /\ UNCHANGED <<vars, query, clock, counts, covered, changes>>

\* health: three statements on one connection, in no transaction.
Count(c, from, to, n) ==
    /\ stage[c] = from
    /\ counts' = [counts EXCEPT ![c] = Append(@, n)]
    /\ IF to = "idle" THEN Reply(c, Status(200))
                      ELSE /\ stage' = [stage EXCEPT ![c] = to]
                           /\ UNCHANGED reply
    /\ UNCHANGED <<vars, query, clock, covered, changes, lapsed, told>>

BrokenCountNft(c) == Count(c, "nft", "idle", CountOf("Basic"))
CountAll(c)   == Count(c, "all", "basic", Cardinality(objects))
CountBasic(c) == Count(c, "basic", "nft", CountOf("Basic"))
CountNft(c)   == Count(c, "nft", "idle", CountOf("Nft"))

\* A statement fails: 503 for the first health count, 500 for the others.
StatementFails(c) ==
    /\ stage[c] \in {"rows", "all", "basic", "nft"}
    /\ failures < MaxFailures
    /\ failures' = failures + 1
    /\ Reply(c, Status(IF stage[c] = "all" THEN 503 ELSE 500))
    /\ UNCHANGED <<phase, workerVars, poolVars, globalVars, tableVars,
                   last_checkpoint_sync, crashes, historyVars, query, clock,
                   counts, covered, changes, lapsed, told>>

Handle(c) ==
    \/ LoadClock(c)
    \/ NotSyncedYet(c)
    \/ FetchStoredObjects(c)
    \/ CountAll(c)
    \/ CountBasic(c)
    \/ CountNft(c)
    \/ StatementFails(c)

-----------------------------------------------------------------------------
(* Workers and handlers together.                                          *)

\* With the process go its handlers, its connections and what they were told.
Disconnect ==
    /\ stage' = [c \in Client |-> "idle"]
    /\ query' = [c \in Client |-> NoQuery]
    /\ clock' = [c \in Client |-> None]
    /\ counts' = [c \in Client |-> <<>>]
    /\ reply' = [c \in Client |-> NoReply]
    /\ covered' = [c \in Client |-> 0]
    /\ changes' = [c \in Client |-> 0]
    /\ lapsed' = [c \in Client |-> {}]

Difference(m, n) == IF m > n THEN m - n ELSE n - m

\* A step of CheckpointSync; it moves no handler.
Sync ==
    \/ /\ Crash
       /\ Disconnect
       /\ UNCHANGED told
    \/ /\ Next
       /\ phase' # "down"
       /\ changes' = [c \in Client |->
            IF stage[c] \in {"basic", "nft"}
            THEN changes[c]
                 + Difference(Cardinality(objects'), Cardinality(objects))
            ELSE changes[c]]
       /\ UNCHANGED <<requestVars, covered, lapsed, told>>

ApiInit ==
    /\ Init
    /\ stage = [c \in Client |-> "idle"]
    /\ query = [c \in Client |-> NoQuery]
    /\ clock = [c \in Client |-> None]
    /\ counts = [c \in Client |-> <<>>]
    /\ reply = [c \in Client |-> NoReply]
    /\ covered = [c \in Client |-> 0]
    /\ changes = [c \in Client |-> 0]
    /\ lapsed = [c \in Client |-> {}]
    /\ told = [c \in Client |-> {}]

ApiNext ==
    \/ Sync
    \/ \E c \in Client : \/ \E q \in Queries : Request(c, q) \/ Refuse(c, q)
                         \/ \E r \in Misdirected : Reject(c, r)
                         \/ Handle(c)

ApiSpec == ApiInit /\ [][ApiNext]_apiVars

-----------------------------------------------------------------------------
(* Properties.                                                             *)

Answered(c, endpoint) ==
    /\ stage[c] = "idle"
    /\ query[c].endpoint = endpoint
    /\ reply[c].status = 200

\* An output that no checkpoint removes, whose versions all concern the address
\* and are of the type asked for, is in the list from the moment on that the
\* stored progress covers it: no row is hidden by a cascade, a rollback or a
\* missing condition to join with (v1/mod.rs:37-71).
ListIsComplete ==
    \A c \in Client : Answered(c, "list") =>
        \A n \in 0 .. covered[c] - 1, id \in Id :
            (/\ \E i \in DOMAIN Upserts[n] : Upserts[n][i].id = id
             /\ \A m \in Checkpoints : id \notin Removals[m]
             /\ \A m \in Checkpoints : \A i \in DOMAIN Upserts[m] :
                  Upserts[m][i].id = id =>
                     /\ Upserts[m][i].object_type = query[c].object_type
                     /\ HasExpiration(Upserts[m][i])
                     /\ BelongsTo(DecodeExpiration[Upserts[m][i].contents],
                                  query[c].address))
            => \E o \in reply[c].outputs : o.id = id

\* A list never fails on what the workers wrote: contents that do not decode
\* never get a committed row, so a 500 is always a statement that failed
\* (worker.rs:78-96 against basic.rs:99-113).
OnlyDecodableRows ==
    \A c \in Client : reply[c].status = 500 => failures > 0

\* What one process has told a client of expiration it does not take back: an
\* output it has treated as expired is not listed for its owner later on
\* (v1/mod.rs:43-64). Only with one worker: the timestamps of several come in
\* any order (worker.rs:157-159).
GivenBack(c, outputs) ==
    /\ Answered(c, "resolved")
    /\ \E o \in reply[c].outputs \cap outputs :
         ReturnAddress[o.expiration] # query[c].address

ExpiryHolds == \A c \in Client : ~GivenBack(c, lapsed[c])

\* "After expiration objects become accessible to the return_address": the same
\* over restarts of the process.
ExpiryIsFinal == \A c \in Client : ~GivenBack(c, told[c])

\* And it goes to the return address: an output that an answer left out of its
\* owner's list is in the next list of its return address, as long as it is in
\* the table. No output falls between the two lists (v1/mod.rs:54-64).
HandedOver ==
    [][\A c \in Client :
         /\ stage[c] = "rows" /\ stage'[c] = "idle"
         /\ query[c].endpoint = "resolved" /\ reply'[c].status = 200
         => \A o \in objects :
              LET output == Shown(o.object_type, o) IN
              /\ output \in lapsed[c]
              /\ o.object_type = query[c].object_type
              /\ ReturnAddress[output.expiration] = query[c].address
              => output \in reply'[c].outputs]_apiVars

\* A row is selected by the condition in one table and shown by the contents in
\* the other, and the two tell the client the same: by the expiration it shows,
\* an output of a resolved list is the address's at the clock of the request
\* (v1/mod.rs:52-64 against 184-188 and 216-220).
AnswersAgree ==
    \A c \in Client : Answered(c, "resolved") =>
        \A o \in reply[c].outputs :
            ResolvesTo(o.expiration, query[c].address, clock[c])

\* The health counts are three statements in no transaction, so they need not
\* add up; they drift apart by no more than the rows that workers added and
\* removed while they were taken (health.rs:34-55).
HealthDriftBounded ==
    \A c \in Client : Answered(c, "health") =>
        Difference(counts[c][1], counts[c][2] + counts[c][3]) <= changes[c]
=============================================================================
