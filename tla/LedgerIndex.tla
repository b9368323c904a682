---------------------------- MODULE LedgerIndex ----------------------------
(***************************************************************************)
(* The index against the ledger it follows. Transactions change objects,   *)
(* checkpoints seal them, and the index applies each sealed checkpoint in  *)
(* order with CheckpointFilter. Concurrency and failures are the subject   *)
(* of CheckpointSync; here the question is whether the filter keeps the    *)
(* rows that the ledger calls for.                                         *)
(***************************************************************************)
EXTENDS CheckpointFilter, FiniteSets

CONSTANTS
    Package,        \* packages a transaction may name
    CallsAreDirect, \* whether an object changes only in a transaction that
                    \* names its package, never through another package's code
    MaxVersion,     \* bound: versions of an object
    MaxBatch,       \* bound: transactions in a checkpoint
    MaxChanged,     \* bound: objects a transaction writes or removes
    Unborn, Gone    \* an object that does not exist yet, or no longer

Id == DOMAIN Static
Contents == 1 .. MaxVersion

ASSUME LedgerAssumption ==
    /\ PackageId \in Package
    /\ IsFiniteSet(Id)
    /\ \A id \in Id : /\ Static[id].package \in Package
                      /\ Static[id].shared \in BOOLEAN
    /\ CallsAreDirect \in BOOLEAN
    /\ MaxVersion \in Nat \ {0}
    /\ MaxBatch \in Nat \ {0}
    /\ MaxChanged \in Nat
    /\ Unborn \notin Contents /\ Gone \notin Contents /\ Unborn # Gone

VARIABLES
    live,      \* the present contents of each object of the ledger
    batch,     \* transactions executed since the last checkpoint
    height,    \* whether a checkpoint has been sealed: genesis comes first
    table      \* the rows of table objects, as of the last checkpoint

vars == <<live, batch, height, table>>

Row == [id : Id, object_type : {"Basic", "Nft"}, contents : Contents]

\* In particular the table has one row for an id.
TypeOK ==
    /\ live \in [Id -> Contents \cup {Unborn, Gone}]
    /\ Len(batch) \in 0 .. MaxBatch
    /\ height \in BOOLEAN
    /\ table \in SUBSET Row
    /\ \A r, q \in table : r.id = q.id => r = q

Init ==
    /\ live = [id \in Id |-> Unborn]
    /\ batch = <<>>
    /\ height = FALSE
    /\ table = {}

-----------------------------------------------------------------------------

Exists(id)    == live[id] \in Contents
CanChange(id) == live[id] = Unborn \/ (Exists(id) /\ live[id] < MaxVersion)
NextVersion(id) == IF live[id] = Unborn THEN 1 ELSE live[id] + 1

\* Genesis writes the objects of every package, whatever its inputs say.
Genesis(created) ==
    /\ ~height
    /\ batch = <<>>
    /\ live' = [id \in Id |-> IF id \in created THEN 1 ELSE live[id]]
    /\ batch' = << [genesis  |-> TRUE, packages |-> {}, valid |-> TRUE,
                    outputs  |-> [i \in 1 .. Cardinality(created) |->
                                    [id |-> SetToSeq(created)[i],
                                     contents |-> 1]],
                    removed  |-> {}] >>
    /\ UNCHANGED <<height, table>>

\* A transaction writes some objects and removes others; an id is never used
\* again once its object is gone.
Execute(packages, written, removed) ==
    /\ height
    /\ Len(batch) < MaxBatch
    /\ written \cap removed = {}
    /\ \A id \in written : CanChange(id)
    /\ \A id \in removed : Exists(id)
    /\ CallsAreDirect =>
         \A id \in written \cup removed : Static[id].package \in packages
    /\ live' = [id \in Id |-> CASE id \in written -> NextVersion(id)
                                [] id \in removed -> Gone
                                [] OTHER          -> live[id]]
    /\ batch' = Append(batch,
                   [genesis  |-> FALSE, packages |-> packages, valid |-> TRUE,
                    outputs  |-> [i \in 1 .. Cardinality(written) |->
                                    LET id == SetToSeq(written)[i]
                                    IN  [id |-> id,
                                         contents |-> NextVersion(id)]],
                    removed  |-> removed])
    /\ UNCHANGED <<height, table>>

\* A checkpoint seals the batch, and the index applies it.
Checkpoint ==
    /\ batch # <<>>
    /\ table' = ApplyCheckpoint(table, batch)
    /\ batch' = <<>>
    /\ height' = TRUE
    /\ UNCHANGED live

Next ==
    \/ \E created \in SUBSET Id : Genesis(created)
    \/ \E packages \in (SUBSET Package) \ {{}}, written, removed \in SUBSET Id :
          /\ Cardinality(written \cup removed) \in 1 .. MaxChanged
          /\ Execute(packages, written, removed)
    \/ Checkpoint

Spec == Init /\ [][Next]_vars

-----------------------------------------------------------------------------
(* Properties, read when no transaction waits for its checkpoint.          *)

Synced == batch = <<>>

\* The outputs of the configured package that the index owes its readers.
Owed ==
    { [id |-> id, object_type |-> Kinds[Static[id].kind], contents |-> live[id]]
      : id \in { i \in Id : /\ Exists(i)
                            /\ Static[i].package = PackageId
                            /\ Static[i].shared
                            /\ IsOutputType(i) } }

OfPackage(rows) == { r \in rows : Static[r.id].package = PackageId }

\* Whatever one checkpoint does to an object in several transactions (created
\* and consumed, changed and consumed, changed twice), the rows of the
\* configured package are its living shared outputs at their last version:
\* all insertions before all deletions is an order that gets this right
\* (worker.rs:136-167).
PackageRowsExact == Synced => OfPackage(table) = Owed

\* "Store data only related to the following package ids": no row belongs to
\* another package (worker.rs:36, the --package-id option).
OnlyConfiguredPackage == \A r \in table : Static[r.id].package = PackageId
=============================================================================
