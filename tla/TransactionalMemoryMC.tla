-------------------------- MODULE TransactionalMemoryMC --------------------------
(* Instances of TransactionalMemory for TLC. *)
EXTENDS TransactionalMemory

CONSTANTS x, y

(* x and y share a bit of the filter. *)
OneBit == [v \in Vars |-> 0]

HoldsFirst == (x :> 1) @@ (y :> 2)
=============================================================================
