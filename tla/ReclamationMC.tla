----------------------------- MODULE ReclamationMC -----------------------------
(* Instances of Reclamation for TLC. *)
EXTENDS Reclamation

CONSTANTS t1, t2, x, y

(* One thread replaces without reading, the other does both. *)
BlindWriter ==
    [t \in Threads |-> (IF t = t1 THEN {"write"} ELSE {"read", "write"}) \X Vars]

AnyAccess == [t \in Threads |-> {"read", "write"} \X Vars]
=============================================================================
