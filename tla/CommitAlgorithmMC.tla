-------------------------- MODULE CommitAlgorithmMC --------------------------
(* Instances of CommitAlgorithm for TLC. *)
EXTENDS CommitAlgorithm

(* Every thread's functions may do anything. *)
AnyCalls == [t \in Threads |-> {"read", "untracked", "write"} \X Vars]
=============================================================================
