------------------------ MODULE StrictSerializability ------------------------
(***************************************************************************)
(* CommitAlgorithm with a history of its transactions in one total order.  *)
(* A transaction that writes takes its place in the order when its last    *)
(* lock is acquired, any other when it loads the clock: both are instants  *)
(* of the transaction's own execution, so the order respects real time.    *)
(*                                                                         *)
(* The place is not that of the version: reads are validated before the    *)
(* clock is bumped, so of two commits the one that comes first in the      *)
(* order may get the greater version.                                      *)
(***************************************************************************)
EXTENDS CommitAlgorithm, SequencesExt

VARIABLES
    serial,  \* the order: records of who read and wrote which storage
    born     \* how many of them come before the attempt of each thread

histVars == <<vars, serial, born>>

(* What a commit vouches for: the reads it validates, those of variables   *)
(* it locks, and the storage it takes for the one it replaces.             *)
Entry(t) ==
    [tx |-> Fresh(t),
     reads |-> {r \in seen[t] : r[1] \in read_set[t] \cup write_set[t]}
               \cup {<<v, displaced[t][v]>> : v \in write_set[t] \ AtomicVars},
     writes |-> write_set[t]]

(* A transaction that changes nothing: it vouches for all it has read.     *)
Observer(t) == [tx |-> Fresh(t), reads |-> seen[t], writes |-> {}]

Moved(t, from, to) == pc[t] = from /\ pc'[t] = to

Record ==
    \/ \E t \in Threads :
           /\ Moved(t, "top", "run")
           /\ born' = [born EXCEPT ![t] = Len(serial)]
           /\ UNCHANGED serial
    \/ \E t \in Threads :
           /\ Moved(t, "lock", "validate")
           /\ serial' = Append(serial, Entry(t))
           /\ UNCHANGED born
    \/ \E t \in Threads :
           /\ Moved(t, "unlock", "top")
           /\ \A i \in DOMAIN serial : serial[i].tx # Fresh(t)
           /\ UNCHANGED <<serial, born>>
    \/ \E t \in Threads : \E i \in DOMAIN serial :
           /\ Moved(t, "unlock", "top")
           /\ serial[i].tx = Fresh(t)
           /\ serial' = RemoveAt(serial, i)
           /\ born' = [u \in Threads |-> IF born[u] >= i THEN born[u] - 1 ELSE born[u]]
    \/ \E t \in Threads :
           /\ Moved(t, "run", "idle")
           /\ serial' = InsertAt(serial, born[t] + 1, Observer(t))
           /\ born' = [u \in Threads |-> IF born[u] > born[t] THEN born[u] + 1 ELSE born[u]]
    \/ /\ \A t \in Threads :
              <<pc[t], pc'[t]>> \notin {<<"top", "run">>, <<"lock", "validate">>,
                                        <<"unlock", "top">>, <<"run", "idle">>}
       /\ UNCHANGED <<serial, born>>

HistInit ==
    /\ Init
    /\ serial = <<>>
    /\ born = [t \in Threads |-> 0]

HistSpec == HistInit /\ [][Next /\ Record]_histVars
-----------------------------------------------------------------------------
Decided(e) ==
    \/ done[e.tx[1]] > e.tx[2]
    \/ pc[e.tx[1]] \in {"write", "publish"}

(* The memory that the first n transactions of the order leave, those that *)
(* may still fail left out.                                                *)
After(n) ==
    [v \in Vars |->
        LET W == {i \in 1 .. n : v \in serial[i].writes /\ Decided(serial[i])}
        IN  IF W = {} THEN Initial ELSE serial[Max(W)].tx]

(* Strict serializability: run one after the other in the order, the       *)
(* transactions that completed read just what they have read, free what    *)
(* they have replaced, and leave the memory as it is.  An attempt that is  *)
(* still running, or gives up on an exception, reads from its place in the *)
(* same order.                                                             *)
StrictlySerializable ==
    /\ \A i \in 1 .. Len(serial) : Decided(serial[i]) =>
           \A r \in serial[i].reads : r[2] = After(i - 1)[r[1]]
    /\ \A t \in Threads : \A r \in seen[t] :
           Status(t) = "live" => r[2] = After(born[t])[r[1]]
    /\ Memory = After(Len(serial))
=============================================================================
