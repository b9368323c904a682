---------------------------- MODULE MCDurability ----------------------------
(***************************************************************************)
(* The chain of MCCheckpointSync behind Durability.                        *)
(***************************************************************************)
EXTENDS MCCheckpointSync, Durability
=============================================================================
