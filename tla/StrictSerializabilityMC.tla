----------------------- MODULE StrictSerializabilityMC -----------------------
(* Instances of StrictSerializability for TLC. *)
EXTENDS StrictSerializability, TLC

CONSTANTS t1, t2, t3, x, y

(* t1 and t3 may each overwrite what the other reads, t3 looks at both     *)
(* variables, and t2 replaces one of them without looking.                 *)
CrossingCalls ==
    t1 :> {<<"read", x>>, <<"write", y>>}
    @@ t2 :> {<<"write", x>>}
    @@ t3 :> {<<"read", x>>, <<"read", y>>, <<"write", x>>}
=============================================================================
