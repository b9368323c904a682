------------------------------ MODULE SyncLog -------------------------------
(***************************************************************************)
(* What checkpoint synchronisation promises, with no workers, tables or    *)
(* crashes in sight: checkpoints are applied in any order inside a window  *)
(* that starts at the recorded progress, nothing below the progress is     *)
(* ever applied again, and the progress moves only over applied ones.      *)
(***************************************************************************)
EXTENDS Naturals

CONSTANTS
    LastCheckpoint,   \* the highest checkpoint there is
    Window            \* how far past the progress a checkpoint may be applied

VARIABLES
    applied,    \* checkpoints whose effects are in the index
    recorded    \* the checkpoint a restart begins with

vars == <<applied, recorded>>

Init == applied = {} /\ recorded = 0

Apply(n) ==
    /\ n >= recorded
    /\ n < recorded + Window
    /\ applied' = applied \cup {n}
    /\ UNCHANGED recorded

Record(n) ==
    /\ n > recorded
    /\ 0 .. n - 1 \subseteq applied
    /\ recorded' = n
    /\ UNCHANGED applied

Next == \/ \E n \in 0 .. LastCheckpoint : Apply(n)
        \/ \E n \in 1 .. LastCheckpoint + 1 : Record(n)

Spec == Init /\ [][Next]_vars
=============================================================================
