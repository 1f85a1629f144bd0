------------------------------ MODULE FastRwMutexMC ------------------------------
(* Instances of FastRwMutex for TLC. *)
EXTENDS FastRwMutex

CONSTANTS r1, r2, w1, w2
=============================================================================
