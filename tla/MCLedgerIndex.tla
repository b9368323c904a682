--------------------------- MODULE MCLedgerIndex ----------------------------
(***************************************************************************)
(* Four objects for LedgerIndex: two outputs of the configured package, an *)
(* output of another package with the same names, and an owned object.     *)
(***************************************************************************)
EXTENDS LedgerIndex, TLC

CONSTANTS s, t, o, u

MCStatic ==
    s :> [package |-> "stardust", kind |-> "basic_output", shared |-> TRUE]
    @@ t :> [package |-> "stardust", kind |-> "nft_output", shared |-> TRUE]
    @@ o :> [package |-> "other", kind |-> "basic_output", shared |-> TRUE]
    @@ u :> [package |-> "stardust", kind |-> "basic_output", shared |-> FALSE]

MCPackage == {"stardust", "other"}
=============================================================================
