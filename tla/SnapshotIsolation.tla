-------------------------- MODULE SnapshotIsolation --------------------------
(***************************************************************************)
(* What a transaction of lockfree-stm is promised, free of locks, clocks   *)
(* and versions: an attempt reads the memory as it was at one instant, and *)
(* an attempt that commits replaces, in one step, only variables nobody    *)
(* replaced since that instant.  CommitAlgorithm implements this module.   *)
(* That committed transactions are moreover serializable is stated, over   *)
(* their order, in StrictSerializability.                                  *)
(***************************************************************************)
EXTENDS Naturals

CONSTANTS Threads, Vars, Nobody

VARIABLES memory,    \* Vars -> storage, as every later attempt will see it
          status,    \* what each thread is doing: idle, live, committed
          snapshot,  \* the memory each live attempt reads from
          seen,      \* what each live attempt has read: pairs <<var, storage>>
          writes,    \* the variables each live attempt means to replace
          done       \* number of transactions each thread has completed

vars == <<memory, status, snapshot, seen, writes, done>>

Initial == <<Nobody, 0>>

Fresh(t) == <<t, done[t]>>

Init ==
    /\ memory = [v \in Vars |-> Initial]
    /\ status = [t \in Threads |-> "idle"]
    /\ snapshot = [t \in Threads |-> memory]
    /\ seen = [t \in Threads |-> {}]
    /\ writes = [t \in Threads |-> {}]
    /\ done = [t \in Threads |-> 0]

Begin(t) ==
    /\ status[t] = "idle"
    /\ status' = [status EXCEPT ![t] = "live"]
    /\ snapshot' = [snapshot EXCEPT ![t] = memory]
    /\ UNCHANGED <<memory, seen, writes, done>>

Read(t, v) ==
    /\ status[t] = "live"
    /\ seen' = [seen EXCEPT ![t] = @ \cup {<<v, snapshot[t][v]>>}]
    /\ UNCHANGED <<memory, status, snapshot, writes, done>>

Write(t, v) ==
    /\ status[t] = "live"
    /\ writes' = [writes EXCEPT ![t] = @ \cup {v}]
    /\ UNCHANGED <<memory, status, snapshot, seen, done>>

Commit(t) ==
    /\ status[t] = "live"
    /\ \A v \in writes[t] : memory[v] = snapshot[t][v]
    /\ memory' = [v \in Vars |-> IF v \in writes[t] THEN Fresh(t) ELSE memory[v]]
    /\ status' = [status EXCEPT ![t] = "committed"]
    /\ UNCHANGED <<snapshot, seen, writes, done>>

Leave(t) ==
    /\ status' = [status EXCEPT ![t] = "idle"]
    /\ seen' = [seen EXCEPT ![t] = {}]
    /\ writes' = [writes EXCEPT ![t] = {}]
    /\ snapshot' = [snapshot EXCEPT ![t] = [v \in Vars |-> Initial]]
    /\ UNCHANGED memory

(* A transaction ends: it has committed, wrote nothing, or gave up on an   *)
(* exception.                                                              *)
Finish(t) ==
    /\ status[t] # "idle"
    /\ Leave(t)
    /\ done' = [done EXCEPT ![t] = @ + 1]

(* An attempt fails and its transaction starts over. *)
Fail(t) ==
    /\ status[t] = "live"
    /\ Leave(t)
    /\ UNCHANGED done

Next ==
    \E t \in Threads :
        \/ Begin(t) \/ Commit(t) \/ Finish(t) \/ Fail(t)
        \/ \E v \in Vars : Read(t, v) \/ Write(t, v)

Spec == Init /\ [][Next]_vars
=============================================================================
