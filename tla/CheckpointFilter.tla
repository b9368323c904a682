-------------------------- MODULE CheckpointFilter --------------------------
(***************************************************************************)
(* What process_checkpoint keeps of a checkpoint: the first half of the    *)
(* function, which reads the transactions and touches no database. The     *)
(* second half runs all insertions, then all deletions, whatever the order *)
(* of the transactions they came from.                                     *)
(***************************************************************************)
EXTENDS SequencesExt

CONSTANTS
    PackageId,   \* --package-id, the package whose outputs are indexed
    Static       \* id -> what never changes of an object: package, kind, shared

\* A transaction, as far as the worker looks at it:
\*   genesis  - is_genesis_tx()
\*   packages - the MovePackage entries of input_objects()
\*   valid    - input_objects() returns Ok
\*   outputs  - output_objects, in order: an id and its contents
\*   removed  - ids of removed_objects_pre_version()

\* tx_touches_stardust_objects(tx)?: genesis is accepted before the inputs are
\* looked at, so only the inputs of other transactions can be refused.
TouchesStardust(tx) == tx.genesis \/ PackageId \in tx.packages
InputsRefused(tx)   == ~tx.genesis /\ ~tx.valid

\* ObjectType::try_from: the module and struct name decide, the package of the
\* type is not compared.
Kinds == [basic_output |-> "Basic", nft_output |-> "Nft"]
IsOutputType(id) == Static[id].kind \in DOMAIN Kinds

\* The `filter` and `filter_map` over output_objects: shared outputs only.
Indexable(out) == Static[out.id].shared /\ IsOutputType(out.id)

ToStoredObject(out) ==
    [id          |-> out.id,
     object_type |-> Kinds[Static[out.id].kind],
     contents    |-> out.contents]

\* One checkpoint is refused as a whole when one of its transactions is.
Refused(txs) == \E i \in DOMAIN txs : InputsRefused(txs[i])

RowsOf(tx) ==
    FlattenSeq([i \in DOMAIN tx.outputs |->
        IF Indexable(tx.outputs[i]) THEN << ToStoredObject(tx.outputs[i]) >>
                                    ELSE <<>>])

CreatedObjects(txs) ==
    FlattenSeq([i \in DOMAIN txs |->
        IF TouchesStardust(txs[i]) THEN RowsOf(txs[i]) ELSE <<>>])

DeletedAddresses(txs) ==
    UNION { {id \in txs[i].removed : Static[id].shared} :
            i \in {j \in DOMAIN txs : TouchesStardust(txs[j])} }

\* The two database phases that follow, when no statement fails.
BrokenUpsertRow(table, r) == table \cup {r}
UpsertRow(table, r) == {o \in table : o.id # r.id} \cup {r}

Insert(table, rows) == FoldLeft(UpsertRow, table, rows)
Delete(table, ids)  == {o \in table : o.id \notin ids}

BrokenApplyCheckpoint(table, txs) ==
    Insert(Delete(table, DeletedAddresses(txs)), CreatedObjects(txs))
ApplyCheckpoint(table, txs) ==
    IF Refused(txs)
    THEN table
    ELSE Delete(Insert(table, CreatedObjects(txs)), DeletedAddresses(txs))
=============================================================================
