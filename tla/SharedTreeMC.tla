----------------------------- MODULE SharedTreeMC -----------------------------
(* Instances of SharedTree for TLC. *)
EXTENDS SharedTree

CONSTANTS t1, t2

Ascending(n) == [i \in 1 .. n |-> i]

(* A tree whose red nodes are on both sides, and one that grew to the      *)
(* right.                                                                  *)
Trees == {Ascending(3), Ascending(8), <<5, 2, 7, 1, 3, 6, 8, 4>>}

(* Both threads do all there is to do, at different ends of the tree. *)
ManyCalls ==
    t1 :> ({<<"clear", 0>>, <<"emplace", 2>>} \cup {"erase"} \X {1, 2, 7})
    @@ t2 :> ({<<"find", 2>>} \cup {"emplace"} \X {2, 4} \cup {"erase"} \X {2, 6})

AnyCalls == [t \in Threads |-> {"emplace", "erase"} \X Keys]
=============================================================================
