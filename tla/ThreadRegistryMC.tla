---------------------------- MODULE ThreadRegistryMC ----------------------------
(* Instances of ThreadRegistry for TLC. *)
EXTENDS ThreadRegistry, TLC

CONSTANTS t1, t2, t3

(* Two wait, two have sections, one does both. *)
OneForTwo == (t1 :> 0) @@ (t2 :> 1) @@ (t3 :> 1)
TwoForOne == (t1 :> 1) @@ (t2 :> 1) @@ (t3 :> 0)
=============================================================================
