----------------------------- MODULE MCRestApi ------------------------------
(***************************************************************************)
(* The chain of MCCheckpointSync behind RestApi. Expiration x1 is over at  *)
(* the very timestamp of checkpoint 1, x2 at that of checkpoint 2; their   *)
(* owners and return addresses are crossed. The second version of e does   *)
(* not even decode.                                                        *)
(***************************************************************************)
EXTENDS MCCheckpointSync, RestApi

CONSTANTS alice, bob

MCAddress       == {alice, bob}
MCOwner         == x1 :> alice @@ x2 :> bob
MCReturnAddress == x1 :> bob   @@ x2 :> alice
MCUnixTime      == x1 :> 1     @@ x2 :> 2
MCUndecodable   == {<<e, 2>>}
=============================================================================
