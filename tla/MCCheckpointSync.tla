-------------------------- MODULE MCCheckpointSync --------------------------
(***************************************************************************)
(* A chain for CheckpointSync, written as transactions and turned into     *)
(* rows by CheckpointFilter:                                               *)
(*   0  genesis creates the basic output a and the nft output b;           *)
(*   1  a transaction changes a and another creates the nft output d;      *)
(*   2  a is consumed, a new basic output c appears;                       *)
(*   3  b changes; what happens to c and d involves another package only.  *)
(* The "custom" package is less strict: its genesis creates a, b and one   *)
(* more basic output e, checkpoint 1 changes a and consumes b, checkpoint  *)
(* 2 creates c and leaves e no expiration, and 3 is another package's.     *)
(***************************************************************************)
EXTENDS CheckpointSyncProps, TLC

CONSTANTS a, b, c, d, e, x1, x2, CustomPackage

MCId == {a, b, c, d, e}

MCObjectType == {"Basic", "Nft"}

\* Contents are an id with a version; the second one of e has no expiration.
MCContents == {a, b, c, d, e} \X {1, 2}

MCExpiration == {x1, x2}

MCDecodeExpiration ==
    [k \in MCContents |->
        IF k = <<e, 2>> THEN None ELSE IF k[2] = 1 THEN x1 ELSE x2]

Kind(id) == IF id \in {b, d} THEN "nft_output" ELSE "basic_output"

Filter == INSTANCE CheckpointFilter
            WITH PackageId <- "stardust",
                 Static <- [id \in MCId |-> [shared |-> TRUE, kind |-> Kind(id)]]

Tx(genesis, packages, outputs, removed) ==
    [genesis |-> genesis, packages |-> packages, valid |-> TRUE,
     removed |-> removed,
     outputs |-> [i \in DOMAIN outputs |->
                    [id |-> outputs[i][1], contents |-> outputs[i]]]]

Call(outputs, removed) == Tx(FALSE, {"stardust"}, outputs, removed)

Chain ==
    << <<Tx(TRUE, {}, IF CustomPackage THEN <<<<a, 1>>, <<b, 1>>, <<e, 1>>>>
                                       ELSE <<<<a, 1>>, <<b, 1>>>>, {})>>,
       IF CustomPackage THEN <<Call(<<<<a, 2>>>>, {b})>>
                        ELSE <<Call(<<<<a, 2>>>>, {}), Call(<<<<d, 1>>>>, {})>>,
       IF CustomPackage THEN <<Call(<<<<c, 1>>, <<e, 2>>>>, {})>>
                        ELSE <<Call(<<<<c, 1>>>>, {a})>>,
       IF CustomPackage
       THEN <<Tx(FALSE, {"other"}, <<<<c, 2>>>>, {b})>>
       ELSE <<Tx(FALSE, {"other"}, <<<<c, 2>>>>, {d}), Call(<<<<b, 2>>>>, {})>> >>

\* What the filter makes of the chain, as constants that TLC computes once.
Created == LET of(n) == Filter!CreatedObjects(Chain[n])
           IN  <<of(1), of(2), of(3), of(4)>>
Deleted == LET of(n) == Filter!DeletedAddresses(Chain[n])
           IN  <<of(1), of(2), of(3), of(4)>>

MCUpserts    == [n \in Checkpoints |-> Created[n + 1]]
MCRemovals   == [n \in Checkpoints |-> Deleted[n + 1]]
MCUnreadable == {n \in Checkpoints : Filter!Refused(Chain[n + 1])}
MCTimestamp  == [n \in Checkpoints |-> 1000 * n]

ASSUME ChainAssumption == TypesAreStable /\ MonotoneTimestamps

Symmetry == Permutations(Worker)
=============================================================================
