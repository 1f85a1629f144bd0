----------------------------- MODULE ThreadRegistry -----------------------------
(***************************************************************************)
(* The list of thread_synchronization_nodes that a grace period walks, and *)
(* the threads that enter it, walk it and leave it.  A thread that waits   *)
(* for an epoch holds the mutex of its own node shared, and nothing else;  *)
(* one that changes the list holds the list's mutex and that of every node *)
(* in it.                                                                  *)
(*                                                                         *)
(* A mutex is the one of FastRwMutex: a writer claims it over the readers  *)
(* there are and then waits for them, and a claim turns new readers away.  *)
(* What a thread does inside of its sections is Reclamation's.             *)
(***************************************************************************)
EXTENDS Naturals, FiniteSets, SequencesExt

CONSTANTS
    Threads,
    MaxEpoch,     \* bound: sections begin and waits are for epochs up to it
    MaxSections,  \* bound: the sections of each thread
    MaxWaits      \* bound: the waits of each thread

ASSUME RegistryAssumption ==
    /\ IsFiniteSet(Threads)
    /\ MaxEpoch \in Nat
    /\ MaxSections \in [Threads -> Nat]
    /\ MaxWaits \in [Threads -> Nat]

off_state == MaxEpoch + 1

Epochs == 0 .. MaxEpoch

VARIABLES
    at,        \* where each thread is
    nodes,     \* global_synchronization_list: the threads whose nodes are in it
    keeper,    \* who holds the mutex of the list
    claim,     \* who has claimed the mutex of each node
    shared,    \* the owner of the node holds its mutex shared
    position,  \* of a loop over the list
    active,    \* thread_synchronization_node::active
    sections,  \* the sections each thread has begun
    waits,     \* the waits each thread has begun
    epoch,     \* the epoch it waits for
    result,    \* the earliest later epoch it has seen
    running    \* history: the sections that ran when its wait began

locks == <<keeper, claim, shared>>
epochs == <<active, sections>>
waiting == <<waits, epoch, result, running>>
vars == <<at, nodes, locks, position, epochs, waiting>>

Init ==
    /\ at = [t \in Threads |-> "unborn"]
    /\ nodes = <<>>
    /\ keeper = {}
    /\ claim = [t \in Threads |-> {}]
    /\ shared = [t \in Threads |-> FALSE]
    /\ position = [t \in Threads |-> 0]
    /\ active = [t \in Threads |-> off_state]
    /\ sections = [t \in Threads |-> 0]
    /\ waits = [t \in Threads |-> 0]
    /\ epoch = [t \in Threads |-> 0]
    /\ result = [t \in Threads |-> off_state]
    /\ running = [t \in Threads |-> {}]

Move(t, from, to) == at[t] = from /\ at' = [at EXCEPT ![t] = to]

From(t, i) == position' = [position EXCEPT ![t] = i]

AtEnd(t) == position[t] > Len(nodes)

Node(t) == nodes[position[t]]
-----------------------------------------------------------------------------
(* The constructor and the destructor of a node *)

(* The constructor locks the mutex of its own node, which is not in the    *)
(* list yet, the destructor leaves that to lock_all.                       *)
Construct(t) ==
    /\ Move(t, "unborn", "registering")
    /\ claim' = [claim EXCEPT ![t] = {t}]
    /\ UNCHANGED <<nodes, keeper, shared, position, epochs, waiting>>

Destroy(t) ==
    /\ Move(t, "out", "exiting")
    /\ UNCHANGED <<nodes, locks, position, epochs, waiting>>

Locking == [registering |-> "joining", exiting |-> "parting"]

(* lock_all: the mutex of the list, ... *)
LockList(t) ==
    /\ keeper = {}
    /\ keeper' = {t}
    /\ \E goal \in DOMAIN Locking : Move(t, goal, Locking[goal])
    /\ From(t, 1)
    /\ UNCHANGED <<nodes, claim, shared, epochs, waiting>>

(* Mutant: only the first node is locked. *)
ClaimFirst(t) ==
    /\ at[t] \in {"joining", "parting"} /\ ~AtEnd(t)
    /\ claim[Node(t)] = {}
    /\ claim' = [claim EXCEPT ![nodes[1]] = {t}]
    /\ position' = [position EXCEPT ![t] = Len(nodes) + 1]
    /\ UNCHANGED <<at, nodes, keeper, shared, epochs, waiting>>

(* ... and of one node after the other: claimed, ... *)
ClaimNode(t) ==
    /\ at[t] \in {"joining", "parting"} /\ ~AtEnd(t)
    /\ claim[Node(t)] = {}
    /\ claim' = [claim EXCEPT ![Node(t)] = {t}]
    /\ UNCHANGED <<at, nodes, keeper, shared, position, epochs, waiting>>

(* ... and locked when its owner does not hold it shared. *)
NodeLocked(t) ==
    /\ at[t] \in {"joining", "parting"} /\ ~AtEnd(t)
    /\ claim[Node(t)] = {t} /\ ~shared[Node(t)]
    /\ From(t, position[t] + 1)
    /\ UNCHANGED <<at, nodes, locks, epochs, waiting>>

(* Mutant: what is erased is the last one. *)
DropLast(s, t) == Front(s)

(* unordered_erase: the last element takes the place. *)
Without(s, t) ==
    LET i == CHOOSE k \in DOMAIN s : s[k] = t
    IN  Front([s EXCEPT ![i] = Last(s)])

Change(t) ==
    /\ \/ Move(t, "joining", "joined") /\ nodes' = Append(nodes, t)
       \/ Move(t, "parting", "parted") /\ nodes' = Without(nodes, t)
    /\ AtEnd(t)
    /\ From(t, 1)
    /\ UNCHANGED <<locks, epochs, waiting>>

(* Mutant: unlock_all spares the node that lock_all has not locked. *)
UnlockOthers(t) ==
    /\ at[t] \in {"joined", "parted"} /\ ~AtEnd(t)
    /\ claim' = [claim EXCEPT ![Node(t)] = IF Node(t) = t THEN @ ELSE {}]
    /\ From(t, position[t] + 1)
    /\ UNCHANGED <<at, nodes, keeper, shared, epochs, waiting>>

(* unlock_all: the list is not the one that was locked.  The node that     *)
(* joined is in it, ...                                                    *)
UnlockNode(t) ==
    /\ at[t] \in {"joined", "parted"} /\ ~AtEnd(t)
    /\ claim' = [claim EXCEPT ![Node(t)] = {}]
    /\ From(t, position[t] + 1)
    /\ UNCHANGED <<at, nodes, keeper, shared, epochs, waiting>>

UnlockList(t) ==
    /\ Move(t, "joined", "out") \/ Move(t, "parted", "unlocking")
    /\ AtEnd(t)
    /\ keeper' = {}
    /\ From(t, 0)
    /\ UNCHANGED <<nodes, claim, shared, epochs, waiting>>

(* ... and the destructor unlocks the node that has left it. *)
UnlockOwn(t) ==
    /\ Move(t, "unlocking", "gone")
    /\ claim' = [claim EXCEPT ![t] = {}]
    /\ UNCHANGED <<nodes, keeper, shared, position, epochs, waiting>>
-----------------------------------------------------------------------------
(* Sections *)

(* The epoch is a reading of the clock that may have become old. *)
AccessLock(t) ==
    /\ sections[t] < MaxSections[t]
    /\ Move(t, "out", "inside")
    /\ \E e \in Epochs : active' = [active EXCEPT ![t] = e]
    /\ sections' = [sections EXCEPT ![t] = @ + 1]
    /\ UNCHANGED <<nodes, locks, position, waiting>>

AccessUnlock(t) ==
    /\ Move(t, "inside", "out")
    /\ active' = [active EXCEPT ![t] = off_state]
    /\ UNCHANGED <<nodes, locks, position, sections, waiting>>
-----------------------------------------------------------------------------
(* Waiting for an epoch *)

(* Mutant: the epoch may be that of a queue that has none. *)
SynchronizeOff(t) ==
    /\ waits[t] < MaxWaits[t]
    /\ Move(t, "out", "waiting")
    /\ waits' = [waits EXCEPT ![t] = @ + 1]
    /\ epoch' = [epoch EXCEPT ![t] = off_state]
    /\ result' = [result EXCEPT ![t] = off_state]
    /\ UNCHANGED <<nodes, locks, position, epochs, running>>

Synchronize(t) ==
    /\ waits[t] < MaxWaits[t]
    /\ Move(t, "out", "waiting")
    /\ waits' = [waits EXCEPT ![t] = @ + 1]
    /\ \E e \in Epochs : epoch' = [epoch EXCEPT ![t] = e]
    /\ result' = [result EXCEPT ![t] = off_state]
    /\ running' = [running EXCEPT ![t] = {<<u, sections[u]>> : u \in {v \in Threads : at[v] = "inside"}}]
    /\ UNCHANGED <<nodes, locks, position, epochs>>

LockShared(t) ==
    /\ claim[t] = {}
    /\ Move(t, "waiting", "walking")
    /\ shared' = [shared EXCEPT ![t] = TRUE]
    /\ From(t, 1)
    /\ UNCHANGED <<nodes, keeper, claim, epochs, waiting>>

(* Mutant: who is in the epoch itself counts as later. *)
VisitEarlier(t) ==
    /\ at[t] = "walking" /\ ~AtEnd(t)
    /\ IF active[Node(t)] < epoch[t]
       THEN /\ Move(t, "walking", "slow")
            /\ UNCHANGED <<position, result>>
       ELSE /\ UNCHANGED at
            /\ result' = [result EXCEPT ![t] = IF active[Node(t)] < @ THEN active[Node(t)] ELSE @]
            /\ From(t, position[t] + 1)
    /\ UNCHANGED <<nodes, locks, epochs, waits, epoch, running>>

(* wait_min_epoch: an epoch that is later counts for the result, ... *)
Visit(t) ==
    /\ at[t] = "walking" /\ ~AtEnd(t)
    /\ IF active[Node(t)] <= epoch[t]
       THEN /\ Move(t, "walking", "slow")
            /\ UNCHANGED <<position, result>>
       ELSE /\ UNCHANGED at
            /\ result' = [result EXCEPT ![t] = IF active[Node(t)] < @ THEN active[Node(t)] ELSE @]
            /\ From(t, position[t] + 1)
    /\ UNCHANGED <<nodes, locks, epochs, waits, epoch, running>>

(* ... and one that is not is waited for. *)
WaitOnEpoch(t) ==
    /\ Move(t, "slow", "walking")
    /\ ~(active[Node(t)] <= epoch[t])
    /\ From(t, position[t] + 1)
    /\ UNCHANGED <<nodes, locks, epochs, waiting>>

UnlockShared(t) ==
    /\ Move(t, "walking", "synchronized")
    /\ AtEnd(t)
    /\ shared' = [shared EXCEPT ![t] = FALSE]
    /\ From(t, 0)
    /\ UNCHANGED <<nodes, keeper, claim, epochs, waiting>>

(* What the wait was for is reclaimed. *)
Return(t) ==
    /\ Move(t, "synchronized", "out")
    /\ running' = [running EXCEPT ![t] = {}]
    /\ result' = [result EXCEPT ![t] = off_state]
    /\ epoch' = [epoch EXCEPT ![t] = 0]
    /\ UNCHANGED <<nodes, locks, position, epochs, waits>>
-----------------------------------------------------------------------------
(* What a thread that is not at rest does next. *)
Step(t) ==
    \/ LockList(t) \/ ClaimNode(t) \/ NodeLocked(t) \/ Change(t)
    \/ UnlockNode(t) \/ UnlockList(t) \/ UnlockOwn(t)
    \/ AccessUnlock(t)
    \/ LockShared(t) \/ Visit(t) \/ WaitOnEpoch(t) \/ UnlockShared(t) \/ Return(t)

Gone == \A t \in Threads : at[t] = "gone"

Next ==
    \/ \E t \in Threads : Construct(t) \/ Destroy(t) \/ AccessLock(t) \/ Synchronize(t) \/ Step(t)
    \/ Gone /\ UNCHANGED vars

Spec == Init /\ [][Next]_vars

(* Threads are scheduled and sections end. *)
FairSpec == Spec /\ \A t \in Threads : WF_vars(Step(t))
-----------------------------------------------------------------------------
(* What holds *)

(* Type invariant. *)
TypeOK ==
    /\ at \in [Threads -> {"unborn", "registering", "joining", "joined", "out", "inside",
                           "waiting", "walking", "slow", "synchronized",
                           "exiting", "parting", "parted", "unlocking", "gone"}]
    /\ nodes \in Seq(Threads)
    /\ keeper \subseteq Threads
    /\ claim \in [Threads -> SUBSET Threads]
    /\ shared \in [Threads -> BOOLEAN]
    /\ position \in [Threads -> 0 .. Cardinality(Threads) + 1]
    /\ active \in [Threads -> Epochs \cup {off_state}]
    /\ epoch \in [Threads -> Epochs] /\ result \in [Threads -> Epochs \cup {off_state}]
    /\ \A t \in Threads : sections[t] \in 0 .. MaxSections[t] /\ waits[t] \in 0 .. MaxWaits[t]

(* The section that was the n-th of u goes on. *)
Goes(u, n) == at[u] = "inside" /\ sections[u] = n

(* What synchronize_min_epoch promises, whoever enters or leaves the list  *)
(* meanwhile: of the sections that ran when it was called, those in the    *)
(* epoch or before it have ended, and so have those before its result,     *)
(* which reclaim_all_possible relies on.                                   *)
GracePeriod ==
    \A t \in Threads : at[t] = "synchronized" =>
        \A s \in running[t] :
            Goes(s[1], s[2]) => active[s[1]] > epoch[t] /\ active[s[1]] >= result[t]

(* A node is destroyed when nobody can reach it any more: no list holds    *)
(* it, and no lock, walk or wait is at it.                                 *)
NodesOutliveTheirUse ==
    \A t \in Threads : at[t] = "gone" =>
        /\ \A i \in DOMAIN nodes : nodes[i] # t
        /\ claim[t] = {} /\ ~shared[t] /\ active[t] = off_state

(* A list that is walked does not change: emplace_back moves the vector    *)
(* and unordered_erase moves its last element.                             *)
WalksAreUndisturbed ==
    [][nodes' # nodes => \A t \in Threads : at[t] \notin {"walking", "slow"}]_vars

AtRest(t) == at[t] \in {"unborn", "out", "gone"}

(* Registering, exiting and waiting end: neither the writers that wait for *)
(* each other and for a reader nor the readers that wait for a writer and  *)
(* for each other's sections wait in a circle.                             *)
EverythingEnds == \A t \in Threads : ~AtRest(t) ~> AtRest(t)
=============================================================================
