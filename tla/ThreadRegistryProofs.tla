-------------------------- MODULE ThreadRegistryProofs --------------------------
(***************************************************************************)
(* The list of nodes and the walks over it, for any finite set of threads  *)
(* and any bounds.                                                         *)
(***************************************************************************)
EXTENDS ThreadRegistry, FiniteSetTheorems, TLAPS

Places == {"unborn", "registering", "joining", "joined", "out", "inside",
           "waiting", "walking", "slow", "synchronized",
           "exiting", "parting", "parted", "unlocking", "gone"}

Keeping == {"joining", "joined", "parting", "parted"}
Listed == {"joined", "out", "inside", "waiting", "walking", "slow", "synchronized",
           "exiting", "parting"}
Walking == {"walking", "slow"}

Types ==
    /\ at \in [Threads -> Places]
    /\ nodes \in Seq(Threads)
    /\ keeper \in SUBSET Threads
    /\ claim \in [Threads -> SUBSET Threads]
    /\ shared \in [Threads -> BOOLEAN]
    /\ position \in [Threads -> Nat]
    /\ active \in [Threads -> Epochs \cup {off_state}]
    /\ sections \in [Threads -> Nat]
    /\ waits \in [Threads -> Nat]
    /\ epoch \in [Threads -> Epochs]
    /\ result \in [Threads -> Epochs \cup {off_state}]
    /\ running \in [Threads -> SUBSET (Threads \X Nat)]

Bounds == \A t \in Threads : sections[t] <= MaxSections[t] /\ waits[t] <= MaxWaits[t]

(* The list holds the nodes of the threads that are registered, once. *)
List ==
    /\ \A i, j \in DOMAIN nodes : nodes[i] = nodes[j] => i = j
    /\ \A i \in DOMAIN nodes : at[nodes[i]] \in Listed
    /\ \A t \in Threads : at[t] \in Listed => \E i \in DOMAIN nodes : nodes[i] = t

(* What each place says of the locks and of the loop of t. *)
Local(t) ==
    /\ t \in keeper <=> at[t] \in Keeping
    /\ shared[t] <=> at[t] \in Walking
    /\ at[t] = "inside" \/ active[t] = off_state
    /\ at[t] \in {"unborn", "gone"} => claim[t] = {}
    /\ at[t] \in Keeping \cup Walking => position[t] >= 1 /\ position[t] <= Len(nodes) + 1
    /\ at[t] = "slow" => position[t] <= Len(nodes)
    /\ at[t] \notin Keeping \cup Walking => position[t] = 0

(* There is one keeper of the list, and no walk goes on at a node that it  *)
(* has locked.                                                             *)
Locked ==
    /\ \A t, u \in keeper : t = u
    /\ \A t \in Threads : at[t] \in {"joining", "parting"} =>
           \A i \in DOMAIN nodes : i < position[t] =>
               claim[nodes[i]] = {t} /\ ~shared[nodes[i]]

(* A section of running[t] that goes on is later than what t waits for. *)
Later(t, u) ==
    \A n \in Nat : <<u, n>> \in running[t] /\ Goes(u, n) =>
        active[u] > epoch[t] /\ active[u] >= result[t]

(* What t knows of the nodes before its position. *)
Walked(t) ==
    /\ \A s \in running[t] : s[2] <= sections[s[1]]
    /\ at[t] \in Walking => \A i \in DOMAIN nodes : i < position[t] => Later(t, nodes[i])
    /\ at[t] = "slow" =>
           \A n \in Nat : <<Node(t), n>> \in running[t] /\ Goes(Node(t), n) =>
               active[Node(t)] <= epoch[t]
    /\ at[t] = "synchronized" => \A u \in Threads : Later(t, u)

RegistryInv ==
    /\ Types /\ Bounds /\ List /\ Locked
    /\ \A t \in Threads : Local(t) /\ Walked(t)
-----------------------------------------------------------------------------
(* Lists *)

(* unordered_erase: the last element takes the place of the erased one. *)
LEMMA WithoutIs ==
    ASSUME NEW s \in Seq(Threads), \A i, j \in DOMAIN s : s[i] = s[j] => i = j,
           NEW k \in DOMAIN s
    PROVE  /\ Without(s, s[k]) \in Seq(Threads)
           /\ DOMAIN Without(s, s[k]) = 1 .. (Len(s) - 1)
           /\ Len(Without(s, s[k])) = Len(s) - 1
           /\ \A j \in 1 .. (Len(s) - 1) :
                  Without(s, s[k])[j] = IF j = k THEN s[Len(s)] ELSE s[j]
<1> DEFINE i == CHOOSE m \in DOMAIN s : s[m] = s[k]
           r == [s EXCEPT ![k] = s[Len(s)]]
<1>1. i = k
  BY DEF i
<1>2. s \in [1 .. Len(s) -> Threads] /\ Len(s) \in Nat \ {0} /\ k \in 1 .. Len(s)
  OBVIOUS
<1>3. r \in [1 .. Len(s) -> Threads]
  BY <1>2
<1>4. r \in Seq(Threads) /\ Len(r) = Len(s)
  BY <1>2, <1>3
<1>5. \A j \in 1 .. Len(s) : r[j] = IF j = k THEN s[Len(s)] ELSE s[j]
  BY <1>2
<1>6. Without(s, s[k]) = SubSeq(r, 1, Len(s) - 1)
  <2>1. Without(s, s[k]) = Front(r)
    BY <1>1 DEF Without, Last
  <2> QED BY <1>4, <2>1 DEF Front
<1> HIDE DEF r, i
<1>7. /\ SubSeq(r, 1, Len(s) - 1) \in Seq(Threads)
      /\ DOMAIN SubSeq(r, 1, Len(s) - 1) = 1 .. (Len(s) - 1)
      /\ Len(SubSeq(r, 1, Len(s) - 1)) = Len(s) - 1
      /\ \A j \in 1 .. (Len(s) - 1) : SubSeq(r, 1, Len(s) - 1)[j] = r[j]
  BY <1>2, <1>4
<1> QED BY <1>2, <1>5, <1>6, <1>7

LEMMA AppendIs ==
    ASSUME NEW s \in Seq(Threads), NEW t \in Threads
    PROVE  /\ Append(s, t) \in Seq(Threads)
           /\ DOMAIN Append(s, t) = DOMAIN s \cup {Len(s) + 1}
           /\ Len(Append(s, t)) = Len(s) + 1 /\ Len(s) + 1 \notin DOMAIN s
           /\ Append(s, t)[Len(s) + 1] = t
           /\ \A i \in DOMAIN s : Append(s, t)[i] = s[i]
OBVIOUS

(* A list without repetitions has at most one node of each thread. *)
LEMMA NodesAreFew ==
    ASSUME Types, List
    PROVE  Len(nodes) <= Cardinality(Threads) /\ Cardinality(Threads) \in Nat
<1>1. nodes \in Seq(Threads) /\ Len(nodes) \in Nat /\ DOMAIN nodes = 1 .. Len(nodes)
  BY DEF Types
<1>2. nodes \in Injection(1 .. Len(nodes), Threads)
  BY <1>1 DEF Injection, IsInjective, List
<1>3. Cardinality(1 .. Len(nodes)) <= Cardinality(Threads)
  BY <1>2, RegistryAssumption, FS_Injection
<1>4. Cardinality(1 .. Len(nodes)) = Len(nodes)
  BY <1>1, FS_Interval
<1>5. Cardinality(Threads) \in Nat
  BY RegistryAssumption, FS_CardinalityType
<1> QED BY <1>3, <1>4, <1>5

(* The node a loop is at is that of a registered thread. *)
LEMMA NodeIs ==
    ASSUME Types, List, NEW t \in Threads, position[t] >= 1, ~AtEnd(t)
    PROVE  /\ position[t] \in DOMAIN nodes /\ Node(t) \in Threads /\ Node(t) = nodes[position[t]]
           /\ at[Node(t)] \in Listed
<1>1. position[t] \in 1 .. Len(nodes)
  BY DEF Types, AtEnd
<1> QED BY <1>1 DEF Types, List, Node
-----------------------------------------------------------------------------
(* Steps *)

Acts(t) == Construct(t) \/ Destroy(t) \/ AccessLock(t) \/ Synchronize(t) \/ Step(t)

(* What a step of one thread leaves alone of another. *)
Same(u) ==
    /\ at'[u] = at[u] /\ shared'[u] = shared[u] /\ position'[u] = position[u]
    /\ active'[u] = active[u] /\ sections'[u] = sections[u] /\ waits'[u] = waits[u]
    /\ epoch'[u] = epoch[u] /\ result'[u] = result[u] /\ running'[u] = running[u]

LEMMA Frame ==
    ASSUME Types, NEW t \in Threads, Acts(t), NEW u \in Threads, u # t
    PROVE  Same(u)
<1> USE DEF Acts, Construct, Destroy, AccessLock, Synchronize, Step, LockList, ClaimNode,
        NodeLocked, Change, UnlockNode, UnlockList, UnlockOwn, AccessUnlock, LockShared, Visit,
        WaitOnEpoch, UnlockShared, Return, Types, locks, epochs, waiting
<1>1. at'[u] = at[u]
  BY DEF Move
<1>2. shared'[u] = shared[u]
  OBVIOUS
<1>3. position'[u] = position[u]
  BY DEF From
<1>4. active'[u] = active[u] /\ sections'[u] = sections[u]
  OBVIOUS
<1>5. waits'[u] = waits[u] /\ epoch'[u] = epoch[u]
  OBVIOUS
<1>6. result'[u] = result[u] /\ running'[u] = running[u]
  OBVIOUS
<1> QED BY <1>1, <1>2, <1>3, <1>4, <1>5, <1>6 DEF Same

(* What a step does to what is not its own. *)
LEMMA Elsewhere ==
    ASSUME Types, NEW t \in Threads, Acts(t)
    PROVE  /\ nodes' = nodes \/ Change(t)
           /\ \/ keeper' = keeper
              \/ keeper = {} /\ keeper' = {t} /\ LockList(t)
              \/ keeper' = {} /\ UnlockList(t)
           /\ \/ claim' = claim
              \/ claim' = [claim EXCEPT ![t] = {t}] /\ Construct(t)
              \/ claim' = [claim EXCEPT ![t] = {}] /\ UnlockOwn(t)
              \/ claim' = [claim EXCEPT ![Node(t)] = {t}] /\ ClaimNode(t)
              \/ claim' = [claim EXCEPT ![Node(t)] = {}] /\ UnlockNode(t)
<1>1. nodes' = nodes \/ Change(t)
  BY DEF Acts, Construct, Destroy, AccessLock, Synchronize, Step, LockList, ClaimNode,
     NodeLocked, UnlockNode, UnlockList, UnlockOwn, AccessUnlock, LockShared, Visit,
     WaitOnEpoch, UnlockShared, Return
<1>2. \/ keeper' = keeper
      \/ keeper = {} /\ keeper' = {t} /\ LockList(t)
      \/ keeper' = {} /\ UnlockList(t)
  BY DEF Acts, Construct, Destroy, AccessLock, Synchronize, Step, LockList, ClaimNode,
     NodeLocked, Change, UnlockNode, UnlockList, UnlockOwn, AccessUnlock, LockShared, Visit,
     WaitOnEpoch, UnlockShared, Return, locks
<1>3. \/ claim' = claim
      \/ claim' = [claim EXCEPT ![t] = {t}] /\ Construct(t)
      \/ claim' = [claim EXCEPT ![t] = {}] /\ UnlockOwn(t)
      \/ claim' = [claim EXCEPT ![Node(t)] = {t}] /\ ClaimNode(t)
      \/ claim' = [claim EXCEPT ![Node(t)] = {}] /\ UnlockNode(t)
  BY DEF Acts, Construct, Destroy, AccessLock, Synchronize, Step, LockList, ClaimNode,
     NodeLocked, Change, UnlockNode, UnlockList, UnlockOwn, AccessUnlock, LockShared, Visit,
     WaitOnEpoch, UnlockShared, Return, locks
<1> QED BY <1>1, <1>2, <1>3

(* Nobody walks the list while it changes. *)
LEMMA NobodyWalks ==
    ASSUME RegistryInv, NEW t \in Threads, Change(t), NEW u \in Threads
    PROVE  at[u] \notin Walking
<1> SUFFICES ASSUME at[u] \in Walking
             PROVE  FALSE
  OBVIOUS
<1>1. PICK i \in DOMAIN nodes : nodes[i] = u
  BY DEF RegistryInv, List, Walking, Listed
<1>2. i < position[t]
  BY DEF Change, AtEnd, RegistryInv, Types
<1>3. at[t] \in {"joining", "parting"}
  BY DEF Change, Move
<1>4. ~shared[u]
  BY <1>1, <1>2, <1>3 DEF RegistryInv, Locked
<1> QED BY <1>4 DEF RegistryInv, Local

(* The list before and after a change. *)
LEMMA ChangeIs ==
    ASSUME RegistryInv, NEW t \in Threads, Change(t)
    PROVE  /\ nodes' \in Seq(Threads)
           /\ \/ /\ at[t] = "joining" /\ at'[t] = "joined" /\ nodes' = Append(nodes, t)
              \/ /\ at[t] = "parting" /\ at'[t] = "parted"
                 /\ \E k \in DOMAIN nodes :
                       /\ nodes[k] = t /\ Len(nodes') = Len(nodes) - 1
                       /\ DOMAIN nodes' = 1 .. (Len(nodes) - 1)
                       /\ \A j \in 1 .. (Len(nodes) - 1) :
                              nodes'[j] = IF j = k THEN nodes[Len(nodes)] ELSE nodes[j]
           /\ position'[t] = 1
           /\ UNCHANGED <<keeper, claim, shared, active, sections, waits, epoch, result, running>>
<1>1. Types /\ List
  BY DEF RegistryInv
<1>2. /\ position'[t] = 1
      /\ UNCHANGED <<keeper, claim, shared, active, sections, waits, epoch, result, running>>
  BY <1>1 DEF Change, From, Types, locks, epochs, waiting
<1>3. CASE Move(t, "joining", "joined") /\ nodes' = Append(nodes, t)
  <2>1. nodes' \in Seq(Threads)
    BY <1>1, <1>3, AppendIs DEF Types
  <2> QED BY <1>1, <1>2, <1>3, <2>1 DEF Move, Types
<1>4. CASE Move(t, "parting", "parted") /\ nodes' = Without(nodes, t)
  <2>1. PICK k \in DOMAIN nodes : nodes[k] = t
    BY <1>1, <1>4 DEF Move, List, Listed
  <2>2. /\ Without(nodes, t) \in Seq(Threads) /\ Len(Without(nodes, t)) = Len(nodes) - 1
        /\ DOMAIN Without(nodes, t) = 1 .. (Len(nodes) - 1)
        /\ \A j \in 1 .. (Len(nodes) - 1) :
               Without(nodes, t)[j] = IF j = k THEN nodes[Len(nodes)] ELSE nodes[j]
    <3>1. nodes \in Seq(Threads) /\ \A i, j \in DOMAIN nodes : nodes[i] = nodes[j] => i = j
      BY <1>1 DEF Types, List
    <3>2. /\ Without(nodes, nodes[k]) \in Seq(Threads)
          /\ Len(Without(nodes, nodes[k])) = Len(nodes) - 1
          /\ DOMAIN Without(nodes, nodes[k]) = 1 .. (Len(nodes) - 1)
          /\ \A j \in 1 .. (Len(nodes) - 1) :
                 Without(nodes, nodes[k])[j] = IF j = k THEN nodes[Len(nodes)] ELSE nodes[j]
      BY <3>1, WithoutIs
    <3> QED BY <2>1, <3>2
  <2>3. at[t] = "parting" /\ at'[t] = "parted"
    BY <1>1, <1>4 DEF Move, Types
  <2> QED BY <1>2, <1>4, <2>1, <2>2, <2>3
<1> QED BY <1>3, <1>4 DEF Change

LEMMA TypesInit == Init => Types
<1> SUFFICES ASSUME Init
             PROVE  Types
  OBVIOUS
<1>1. 0 \in Epochs /\ off_state \in Epochs \cup {off_state}
  BY RegistryAssumption DEF Epochs
<1>2. <<>> \in Seq(Threads)
  OBVIOUS
<1> QED BY <1>1, <1>2 DEF Init, Types, Places

LEMMA TypesStep ==
    ASSUME RegistryInv, NEW t \in Threads, Acts(t)
    PROVE  Types'
<1>1. Types /\ List /\ Local(t)
  BY DEF RegistryInv
<1>2. nodes' \in Seq(Threads)
  BY <1>1, Elsewhere, ChangeIs DEF Types
<1>3. at' \in [Threads -> Places]
  <2>1. \A from, to \in Places : Move(t, from, to) => at' \in [Threads -> Places]
    BY <1>1 DEF Move, Types
  <2> QED BY <1>1, <2>1 DEF Places, Acts, Construct, Destroy, AccessLock, Synchronize, Step, LockList,
       Locking, ClaimNode, NodeLocked, Change, UnlockNode, UnlockList, UnlockOwn, AccessUnlock,
       LockShared, Visit, WaitOnEpoch, UnlockShared, Return, Types
<1>4. keeper' \in SUBSET Threads /\ claim' \in [Threads -> SUBSET Threads]
  <2>1. keeper \in SUBSET Threads /\ claim \in [Threads -> SUBSET Threads] /\ {t} \in SUBSET Threads
        /\ {} \in SUBSET Threads
    BY <1>1 DEF Types
  <2>2. \/ claim' = claim
        \/ \E x, S : claim' = [claim EXCEPT ![x] = S] /\ S \in SUBSET Threads
    BY <1>1, <2>1, Elsewhere
  <2>3. claim' \in [Threads -> SUBSET Threads]
    BY <2>1, <2>2
  <2> QED BY <1>1, <2>1, <2>3, Elsewhere
<1>5. shared' \in [Threads -> BOOLEAN]
  BY <1>1 DEF Types, Acts, Construct, Destroy, AccessLock, Synchronize, Step, LockList,
     ClaimNode, NodeLocked, Change, UnlockNode, UnlockList, UnlockOwn, AccessUnlock, LockShared,
     Visit, WaitOnEpoch, UnlockShared, Return, locks
<1>6. position' \in [Threads -> Nat]
  <2>1. position' = position \/ \E i \in Nat : position' = [position EXCEPT ![t] = i]
    <3>1. position[t] + 1 \in Nat
      BY <1>1 DEF Types
    <3> QED BY <3>1 DEF Acts, Construct, Destroy, AccessLock, Synchronize, Step, LockList,
         ClaimNode, NodeLocked, Change, UnlockNode, UnlockList, UnlockOwn, AccessUnlock, LockShared,
         Visit, WaitOnEpoch, UnlockShared, Return, From
  <2> QED BY <1>1, <2>1 DEF Types
<1>7. active' \in [Threads -> Epochs \cup {off_state}] /\ sections' \in [Threads -> Nat]
  <2>1. active' = active \/ \E e \in Epochs \cup {off_state} : active' = [active EXCEPT ![t] = e]
    BY DEF Acts, Construct, Destroy, AccessLock, Synchronize, Step, LockList,
       ClaimNode, NodeLocked, Change, UnlockNode, UnlockList, UnlockOwn, AccessUnlock, LockShared,
       Visit, WaitOnEpoch, UnlockShared, Return, epochs
  <2>2. sections' = sections \/ sections' = [sections EXCEPT ![t] = @ + 1]
    BY DEF Acts, Construct, Destroy, AccessLock, Synchronize, Step, LockList,
       ClaimNode, NodeLocked, Change, UnlockNode, UnlockList, UnlockOwn, AccessUnlock, LockShared,
       Visit, WaitOnEpoch, UnlockShared, Return, epochs
  <2>3. active' \in [Threads -> Epochs \cup {off_state}]
    BY <1>1, <2>1 DEF Types
  <2>4. sections \in [Threads -> Nat] /\ sections[t] + 1 \in Nat
    BY <1>1 DEF Types
  <2>5. sections' \in [Threads -> Nat]
    BY <2>2, <2>4
  <2> QED BY <2>3, <2>5
<1>8. waits' \in [Threads -> Nat] /\ epoch' \in [Threads -> Epochs]
  <2>1. 0 \in Epochs
    BY RegistryAssumption DEF Epochs
  <2>2. waits' = waits \/ waits' = [waits EXCEPT ![t] = @ + 1]
    BY DEF Acts, Construct, Destroy, AccessLock, Synchronize, Step, LockList,
       ClaimNode, NodeLocked, Change, UnlockNode, UnlockList, UnlockOwn, AccessUnlock, LockShared,
       Visit, WaitOnEpoch, UnlockShared, Return, waiting
  <2>3. epoch' = epoch \/ \E e \in Epochs : epoch' = [epoch EXCEPT ![t] = e]
    BY <2>1 DEF Acts, Construct, Destroy, AccessLock, Synchronize, Step, LockList,
       ClaimNode, NodeLocked, Change, UnlockNode, UnlockList, UnlockOwn, AccessUnlock, LockShared,
       Visit, WaitOnEpoch, UnlockShared, Return, waiting
  <2>4. waits \in [Threads -> Nat] /\ waits[t] + 1 \in Nat
    BY <1>1 DEF Types
  <2>5. waits' \in [Threads -> Nat]
    BY <2>2, <2>4
  <2> QED BY <1>1, <2>3, <2>5 DEF Types
<1>9. result' \in [Threads -> Epochs \cup {off_state}]
  <2>1. at[t] = "walking" /\ ~AtEnd(t) => active[Node(t)] \in Epochs \cup {off_state}
    <3>1. at[t] = "walking" => position[t] >= 1
      BY <1>1 DEF Local, Walking
    <3> QED BY <1>1, <3>1, NodeIs DEF Types
  <2> QED BY <1>1, <2>1 DEF Types, Acts, Construct, Destroy, AccessLock, Synchronize, Step, LockList,
       ClaimNode, NodeLocked, Change, UnlockNode, UnlockList, UnlockOwn, AccessUnlock, LockShared,
       Visit, WaitOnEpoch, UnlockShared, Return, waiting
<1>10. running' \in [Threads -> SUBSET (Threads \X Nat)]
  <2>1. {<<u, sections[u]>> : u \in {v \in Threads : at[v] = "inside"}} \in SUBSET (Threads \X Nat)
    BY <1>1 DEF Types
  <2> QED BY <1>1, <2>1 DEF Types, Acts, Construct, Destroy, AccessLock, Synchronize, Step, LockList,
       ClaimNode, NodeLocked, Change, UnlockNode, UnlockList, UnlockOwn, AccessUnlock, LockShared,
       Visit, WaitOnEpoch, UnlockShared, Return, waiting
<1> QED BY <1>2, <1>3, <1>4, <1>5, <1>6, <1>7, <1>8, <1>9, <1>10 DEF Types

LEMMA BoundsStep ==
    ASSUME RegistryInv, NEW t \in Threads, Acts(t)
    PROVE  Bounds'
<1>1. Types /\ Bounds
  BY DEF RegistryInv
<1>2. sections[t] \in Nat /\ waits[t] \in Nat /\ MaxSections[t] \in Nat /\ MaxWaits[t] \in Nat
  BY <1>1, RegistryAssumption DEF Types
<1>3. sections'[t] <= MaxSections[t] /\ waits'[t] <= MaxWaits[t]
  BY <1>1, <1>2 DEF Types, Bounds, Acts, Construct, Destroy, AccessLock, Synchronize, Step, LockList,
     ClaimNode, NodeLocked, Change, UnlockNode, UnlockList, UnlockOwn, AccessUnlock, LockShared,
     Visit, WaitOnEpoch, UnlockShared, Return, epochs, waiting
<1>4. \A u \in Threads \ {t} : sections'[u] = sections[u] /\ waits'[u] = waits[u]
  BY <1>1, Frame DEF Same
<1> QED BY <1>1, <1>3, <1>4 DEF Bounds

LEMMA ListStep ==
    ASSUME RegistryInv, NEW t \in Threads, Acts(t)
    PROVE  List'
<1>1. Types /\ List
  BY DEF RegistryInv
<1>2. \A u \in Threads \ {t} : at'[u] = at[u]
  BY <1>1, Frame DEF Same
<1>3. CASE ~Change(t)
  <2>1. at'[t] \in Listed <=> at[t] \in Listed
    BY <1>1, <1>3 DEF Types, Listed, Move, Acts, Construct, Destroy, AccessLock, Synchronize, Step, LockList,
       Locking, ClaimNode, NodeLocked, UnlockNode, UnlockList, UnlockOwn, AccessUnlock, LockShared,
       Visit, WaitOnEpoch, UnlockShared, Return
  <2>2. nodes' = nodes
    BY <1>1, <1>3, Elsewhere
  <2>3. \A i \in DOMAIN nodes : nodes[i] \in Threads
    BY <1>1 DEF Types
  <2> QED BY <1>1, <1>2, <2>1, <2>2, <2>3 DEF List
<1>4. ASSUME nodes' = Append(nodes, t), at[t] = "joining", at'[t] = "joined"
      PROVE  List'
  <2>1. /\ DOMAIN nodes' = DOMAIN nodes \cup {Len(nodes) + 1}
        /\ nodes'[Len(nodes) + 1] = t /\ Len(nodes) + 1 \notin DOMAIN nodes
        /\ \A i \in DOMAIN nodes : nodes'[i] = nodes[i] /\ nodes[i] \in Threads
    BY <1>1, <1>4, AppendIs DEF Types
  <2>2. \A i \in DOMAIN nodes : nodes[i] # t
    BY <1>1, <1>4 DEF List, Listed
  <2>3. at'[t] \in Listed
    BY <1>4 DEF Listed
  <2>4. \A i, j \in DOMAIN nodes' : nodes'[i] = nodes'[j] => i = j
    BY <1>1, <2>1, <2>2 DEF List
  <2>5. \A i \in DOMAIN nodes' : at'[nodes'[i]] \in Listed
    BY <1>1, <1>2, <2>1, <2>2, <2>3 DEF List
  <2>6. \A u \in Threads : at'[u] \in Listed => \E i \in DOMAIN nodes' : nodes'[i] = u
    BY <1>1, <1>2, <2>1 DEF List
  <2> QED BY <2>4, <2>5, <2>6 DEF List
<1>5. ASSUME at[t] = "parting", at'[t] = "parted", NEW k \in DOMAIN nodes, nodes[k] = t,
             DOMAIN nodes' = 1 .. (Len(nodes) - 1),
             \A j \in 1 .. (Len(nodes) - 1) :
                 nodes'[j] = IF j = k THEN nodes[Len(nodes)] ELSE nodes[j]
      PROVE  List'
  <2>1. /\ Len(nodes) \in Nat /\ DOMAIN nodes = 1 .. Len(nodes) /\ k \in 1 .. Len(nodes)
        /\ \A i \in 1 .. Len(nodes) : nodes[i] \in Threads
    BY <1>1 DEF Types
  <2>2. \A i, j \in 1 .. Len(nodes) : nodes[i] = nodes[j] => i = j
    BY <1>1, <2>1 DEF List
  <2>3. ASSUME NEW i \in DOMAIN nodes', NEW j \in DOMAIN nodes', nodes'[i] = nodes'[j]
        PROVE  i = j
    BY <1>5, <2>1, <2>2, <2>3
  <2>4. ASSUME NEW i \in DOMAIN nodes'
        PROVE  \E m \in 1 .. Len(nodes) : m # k /\ nodes'[i] = nodes[m]
    <3>1. CASE i = k
      BY <1>5, <2>1, <3>1
    <3>2. CASE i # k
      BY <1>5, <2>1, <3>2
    <3> QED BY <3>1, <3>2
  <2>5. ASSUME NEW i \in DOMAIN nodes'
        PROVE  at'[nodes'[i]] \in Listed
    <3>1. PICK m \in 1 .. Len(nodes) : m # k /\ nodes'[i] = nodes[m]
      BY <2>4
    <3>2. nodes[m] # t /\ nodes[m] \in Threads
      BY <1>5, <2>1, <2>2, <3>1
    <3>3. at[nodes[m]] \in Listed
      BY <1>1, <2>1 DEF List
    <3> QED BY <1>2, <3>1, <3>2, <3>3
  <2>6. ASSUME NEW u \in Threads, at'[u] \in Listed
        PROVE  \E i \in DOMAIN nodes' : nodes'[i] = u
    <3>1. u # t
      BY <1>5, <2>6 DEF Listed
    <3>2. PICK m \in 1 .. Len(nodes) : nodes[m] = u
      BY <1>1, <1>2, <2>1, <2>6, <3>1 DEF List
    <3>3. m # k
      BY <1>5, <3>1, <3>2
    <3>4. CASE m = Len(nodes)
      <4>1. k \in DOMAIN nodes'
        BY <1>5, <2>1, <3>3, <3>4
      <4> QED BY <1>5, <3>2, <3>4, <4>1
    <3>5. CASE m # Len(nodes)
      <4>1. m \in DOMAIN nodes'
        <5>1. Len(nodes) \in Nat /\ m \in 1 .. Len(nodes)
          BY <2>1
        <5>2. m \in 1 .. (Len(nodes) - 1)
          BY <3>5, <5>1
        <5> QED BY <1>5, <5>2
      <4> QED BY <1>5, <3>2, <3>3, <4>1
    <3> QED BY <3>4, <3>5
  <2> QED BY <2>3, <2>5, <2>6 DEF List
<1>6. CASE Change(t)
  BY <1>4, <1>5, <1>6, ChangeIs
<1> QED BY <1>3, <1>6

(* Who keeps the list is alone with it. *)
LEMMA Alone ==
    ASSUME RegistryInv, NEW t \in Threads, at[t] \in Keeping, NEW u \in Threads, u # t
    PROVE  u \notin keeper /\ at[u] \notin Keeping
BY DEF RegistryInv, Local, Locked

LEMMA LocalElsewhere ==
    ASSUME RegistryInv, NEW t \in Threads, Acts(t), NEW u \in Threads, u # t
    PROVE  Local(u)'
<1>1. Types /\ List /\ Local(t) /\ Local(u)
  BY DEF RegistryInv
<1>2. Same(u)
  BY <1>1, Frame
<1>3. u \in keeper' <=> u \in keeper
  <2>1. CASE keeper = {} /\ keeper' = {t}
    BY <2>1
  <2>2. CASE keeper' = {} /\ UnlockList(t)
    <3>1. at[t] \in Keeping
      BY <2>2 DEF UnlockList, Move, Keeping
    <3> QED BY <2>2, <3>1, Alone
  <2> QED BY <1>1, <2>1, <2>2, Elsewhere
<1>4. at[u] \in {"unborn", "gone"} => claim'[u] = claim[u]
  <2>1. ASSUME position[t] >= 1, ~AtEnd(t), at[u] \in {"unborn", "gone"}
        PROVE  Node(t) \in Threads /\ Node(t) # u
    BY <1>1, <2>1, NodeIs DEF Listed
  <2>2. ClaimNode(t) \/ UnlockNode(t) => position[t] >= 1 /\ ~AtEnd(t)
    BY <1>1 DEF ClaimNode, UnlockNode, Local, Keeping
  <2> QED BY <1>1, <2>1, <2>2, Elsewhere DEF Types
<1>5. nodes' = nodes \/ at[u] \notin Keeping \cup Walking
  <2>1. CASE Change(t)
    <3>1. at[t] \in Keeping
      BY <2>1 DEF Change, Move, Keeping
    <3> QED BY <2>1, <3>1, Alone, NobodyWalks
  <2> QED BY <1>1, <2>1, Elsewhere
<1> QED BY <1>1, <1>2, <1>3, <1>4, <1>5 DEF Local, Same, Walking

LEMMA LocalStep ==
    ASSUME RegistryInv, NEW t \in Threads, Acts(t)
    PROVE  Local(t)'
<1>1. Types /\ List /\ Local(t) /\ Locked
  BY DEF RegistryInv
<1>2. Len(nodes) \in Nat /\ position[t] \in Nat
  BY <1>1 DEF Types
<1>3. CASE Construct(t) \/ Destroy(t)
  BY <1>1, <1>3 DEF Construct, Destroy, Move, Local, Types, Keeping, Walking, locks, epochs
<1>4. CASE LockList(t)
  BY <1>1, <1>2, <1>4 DEF LockList, Locking, Move, From, Local, Types, Keeping, Walking, epochs
<1>5. CASE ClaimNode(t) \/ UnlockNode(t) \/ NodeLocked(t)
  <2>1. position[t] >= 1 /\ at[t] \in Keeping
    BY <1>1, <1>5 DEF ClaimNode, UnlockNode, NodeLocked, Local, Keeping
  <2>2. position[t] + 1 <= Len(nodes) + 1 /\ position[t] + 1 >= 1
    BY <1>2, <1>5 DEF ClaimNode, UnlockNode, NodeLocked, AtEnd
  <2>3. /\ at' = at /\ nodes' = nodes /\ keeper' = keeper /\ shared' = shared /\ active' = active
        /\ position'[t] = position[t] \/ position'[t] = position[t] + 1
    BY <1>1, <1>5 DEF ClaimNode, UnlockNode, NodeLocked, From, Types, locks, epochs
  <2> QED BY <1>1, <2>1, <2>2, <2>3 DEF Local, Keeping, Walking
<1>6. CASE Change(t)
  <2>1. /\ at[t] \in {"joining", "parting"} /\ at'[t] \in {"joined", "parted"} /\ position'[t] = 1
        /\ keeper' = keeper /\ claim' = claim /\ shared' = shared /\ active' = active
        /\ Len(nodes') \in Nat
    BY <1>6, ChangeIs
  <2> QED BY <1>1, <2>1 DEF Local, Keeping, Walking
<1>7. CASE UnlockList(t)
  BY <1>1, <1>7 DEF UnlockList, Move, From, Local, Types, Keeping, Walking, epochs
<1>8. CASE UnlockOwn(t)
  BY <1>1, <1>8 DEF UnlockOwn, Move, Local, Types, Keeping, Walking, epochs
<1>9. CASE AccessLock(t) \/ AccessUnlock(t)
  BY <1>1, <1>9 DEF AccessLock, AccessUnlock, Move, Local, Types, Keeping, Walking, locks
<1>10. CASE Synchronize(t) \/ Return(t)
  BY <1>1, <1>10 DEF Synchronize, Return, Move, Local, Types, Keeping, Walking, locks, epochs
<1>11. CASE LockShared(t) \/ UnlockShared(t)
  BY <1>1, <1>2, <1>11 DEF LockShared, UnlockShared, Move, From, Local, Types, Keeping, Walking, epochs
<1>12. CASE Visit(t) \/ WaitOnEpoch(t)
  <2>1. position[t] >= 1 /\ position[t] <= Len(nodes)
    BY <1>1, <1>2, <1>12 DEF Visit, WaitOnEpoch, Move, AtEnd, Local, Walking
  <2>2. /\ at[t] \in Walking /\ at'[t] \in Walking /\ nodes' = nodes /\ keeper' = keeper
        /\ claim' = claim /\ shared' = shared /\ active' = active
        /\ \/ position'[t] = position[t]
           \/ position'[t] = position[t] + 1 /\ at'[t] = "walking"
    BY <1>1, <1>12 DEF Visit, WaitOnEpoch, Move, From, Types, Walking, locks, epochs
  <2> QED BY <1>1, <1>2, <2>1, <2>2 DEF Local, Keeping, Walking
<1> QED BY <1>3, <1>4, <1>5, <1>6, <1>7, <1>8, <1>9, <1>10, <1>11, <1>12 DEF Acts, Step

LEMMA LockedElsewhere ==
    ASSUME RegistryInv, NEW t \in Threads, Acts(t), NEW u \in Threads, u # t,
           at'[u] \in {"joining", "parting"}, NEW i \in DOMAIN nodes', i < position'[u]
    PROVE  claim'[nodes'[i]] = {u} /\ ~shared'[nodes'[i]]
<1>1. Types /\ List /\ Locked
  BY DEF RegistryInv
<1>2. Same(u) /\ at[u] \in {"joining", "parting"} /\ i < position[u]
  BY <1>1, Frame DEF Same
<1>3. at[t] \notin Keeping
  BY <1>2, Alone DEF Keeping
<1>4. nodes' = nodes
  BY <1>1, <1>3, Elsewhere DEF Change, Move, Keeping
<1>5. nodes[i] \in Threads /\ at[nodes[i]] \in Listed
  BY <1>1, <1>4 DEF Types, List
<1>6. claim[nodes[i]] = {u} /\ ~shared[nodes[i]]
  BY <1>1, <1>2, <1>4 DEF Locked
<1>7. claim'[nodes[i]] = claim[nodes[i]]
  <2>1. Construct(t) \/ UnlockOwn(t) => nodes[i] # t
    BY <1>5 DEF Construct, UnlockOwn, Move, Listed
  <2>2. ~ClaimNode(t) /\ ~UnlockNode(t)
    BY <1>3 DEF ClaimNode, UnlockNode, Keeping
  <2> QED BY <1>1, <1>5, <2>1, <2>2, Elsewhere DEF Types
<1>8. ~shared'[nodes[i]]
  <2>1. CASE nodes[i] # t
    BY <1>1, <1>5, <1>6, <2>1, Frame DEF Same
  <2>2. CASE nodes[i] = t
    <3>1. ~LockShared(t)
      BY <1>6, <2>2 DEF LockShared
    <3> QED BY <1>1, <1>6, <2>2, <3>1 DEF Types, Acts, Construct, Destroy, AccessLock, Synchronize,
         Step, LockList, ClaimNode, NodeLocked, Change, UnlockNode, UnlockList, UnlockOwn,
         AccessUnlock, Visit, WaitOnEpoch, UnlockShared, Return, locks
  <2> QED BY <2>1, <2>2
<1> QED BY <1>4, <1>6, <1>7, <1>8

LEMMA LockedOwn ==
    ASSUME RegistryInv, NEW t \in Threads, Acts(t),
           at'[t] \in {"joining", "parting"}, NEW i \in DOMAIN nodes', i < position'[t]
    PROVE  claim'[nodes'[i]] = {t} /\ ~shared'[nodes'[i]]
<1>1. Types /\ List /\ Locked /\ Local(t)
  BY DEF RegistryInv
<1>2. LockList(t) \/ ClaimNode(t) \/ NodeLocked(t)
  BY <1>1 DEF Types, Move, Acts, Construct, Destroy, AccessLock, Synchronize, Step, Change,
     UnlockNode, UnlockList, UnlockOwn, AccessUnlock, LockShared, Visit, WaitOnEpoch, UnlockShared,
     Return
<1>3. nodes' = nodes /\ shared' = shared
  BY <1>2 DEF LockList, ClaimNode, NodeLocked, locks
<1>4. i \in Nat /\ i >= 1 /\ nodes[i] \in Threads
  BY <1>1, <1>3 DEF Types
<1>5. CASE LockList(t)
  <2>1. position'[t] = 1
    BY <1>1, <1>5 DEF LockList, From, Types
  <2> QED BY <1>4, <2>1
<1>6. CASE ClaimNode(t)
  <2>1. at[t] \in {"joining", "parting"} /\ position[t] >= 1 /\ ~AtEnd(t)
    BY <1>1, <1>6 DEF ClaimNode, Local, Keeping
  <2>2. position[t] \in DOMAIN nodes /\ Node(t) = nodes[position[t]] /\ Node(t) \in Threads
    BY <1>1, <2>1, NodeIs
  <2>3. i < position[t]
    BY <1>6 DEF ClaimNode
  <2>4. claim[nodes[i]] = {t} /\ ~shared[nodes[i]]
    BY <1>1, <1>3, <2>1, <2>3 DEF Locked
  <2> QED BY <1>1, <1>3, <1>4, <1>6, <2>2, <2>4 DEF ClaimNode, Types
<1>7. CASE NodeLocked(t)
  <2>1. at[t] \in {"joining", "parting"} /\ claim' = claim /\ position'[t] = position[t] + 1
        /\ claim[Node(t)] = {t} /\ ~shared[Node(t)] /\ Node(t) = nodes[position[t]]
        /\ position[t] \in Nat
    BY <1>1, <1>7 DEF NodeLocked, From, Types, locks, Node
  <2>2. CASE i = position[t]
    BY <1>3, <2>1, <2>2
  <2>3. CASE i # position[t]
    <3>1. i < position[t]
      BY <1>4, <2>1, <2>3
    <3> QED BY <1>1, <1>3, <2>1, <3>1 DEF Locked
  <2> QED BY <2>2, <2>3
<1> QED BY <1>2, <1>5, <1>6, <1>7

LEMMA LockedStep ==
    ASSUME RegistryInv, NEW t \in Threads, Acts(t)
    PROVE  Locked'
<1>1. Types /\ Locked
  BY DEF RegistryInv
<1>2. \A a, b \in keeper' : a = b
  BY <1>1, Elsewhere DEF Locked
<1>3. ASSUME NEW u \in Threads, at'[u] \in {"joining", "parting"}, NEW i \in DOMAIN nodes',
             i < position'[u]
      PROVE  claim'[nodes'[i]] = {u} /\ ~shared'[nodes'[i]]
  BY <1>3, LockedElsewhere, LockedOwn
<1> QED BY <1>2, <1>3 DEF Locked

(* A section that has begun and goes on keeps its epoch; the only sections *)
(* that a step begins are new ones.                                        *)
LEMMA SectionsKept ==
    ASSUME RegistryInv, NEW t \in Threads, Acts(t), NEW v \in Threads
    PROVE  /\ sections[v] \in Nat /\ sections'[v] \in Nat /\ sections[v] <= sections'[v]
           /\ \A n \in Nat : n <= sections[v] /\ Goes(v, n)' => Goes(v, n) /\ active'[v] = active[v]
<1>1. Types /\ sections[v] \in Nat
  BY DEF RegistryInv, Types
<1>2. CASE v # t
  BY <1>1, <1>2, Frame DEF Same, Goes
<1>3. CASE v = t
  <2>1. CASE AccessLock(t)
    <3>1. sections'[t] = sections[t] + 1
      BY <1>1, <2>1 DEF AccessLock, Types
    <3> QED BY <1>1, <1>3, <3>1 DEF Goes
  <2>2. CASE ~AccessLock(t)
    <3>1. sections' = sections
      BY <2>2 DEF Acts, Construct, Destroy, Synchronize, Step, LockList, ClaimNode,
         NodeLocked, Change, UnlockNode, UnlockList, UnlockOwn, AccessUnlock, LockShared, Visit,
         WaitOnEpoch, UnlockShared, Return, epochs
    <3>2. at'[t] # "inside"
      BY <1>1, <2>2 DEF Types, Move, Acts, Construct, Destroy, Synchronize, Step, LockList, Locking,
         ClaimNode, NodeLocked, Change, UnlockNode, UnlockList, UnlockOwn, AccessUnlock, LockShared,
         Visit, WaitOnEpoch, UnlockShared, Return
    <3> QED BY <1>1, <1>3, <3>1, <3>2 DEF Goes
  <2> QED BY <2>1, <2>2
<1> QED BY <1>2, <1>3

LEMMA LaterKept ==
    ASSUME RegistryInv, NEW t \in Threads, Acts(t), NEW u \in Threads, NEW v \in Threads,
           Later(u, v), running'[u] = running[u], epoch'[u] = epoch[u], result'[u] = result[u]
    PROVE  Later(u, v)'
<1> SUFFICES ASSUME NEW n \in Nat, <<v, n>> \in running[u], Goes(v, n)'
             PROVE  active'[v] > epoch[u] /\ active'[v] >= result[u]
  BY DEF Later
<1>1. n <= sections[v]
  <2>1. Walked(u)
    BY DEF RegistryInv
  <2> QED BY <2>1 DEF Walked
<1>2. Goes(v, n) /\ active'[v] = active[v]
  BY <1>1, SectionsKept
<1> QED BY <1>2 DEF Later

(* What ran when a wait began has begun. *)
LEMMA RunningBegan ==
    ASSUME RegistryInv, NEW t \in Threads, Acts(t), NEW u \in Threads, running'[u] = running[u]
    PROVE  \A s \in running'[u] : s[2] <= sections'[s[1]]
<1> SUFFICES ASSUME NEW s \in running[u]
             PROVE  s[2] <= sections'[s[1]]
  OBVIOUS
<1>1. s[1] \in Threads /\ s[2] \in Nat
  BY DEF RegistryInv, Types
<1>2. s[2] <= sections[s[1]]
  BY DEF RegistryInv, Walked
<1>3. sections[s[1]] \in Nat /\ sections'[s[1]] \in Nat /\ sections[s[1]] <= sections'[s[1]]
  BY <1>1, SectionsKept
<1> QED BY <1>1, <1>2, <1>3

LEMMA WalkedElsewhere ==
    ASSUME RegistryInv, NEW t \in Threads, Acts(t), NEW u \in Threads, u # t
    PROVE  Walked(u)'
<1>1. Types /\ List /\ Local(u) /\ Walked(u)
  BY DEF RegistryInv
<1>2. Same(u)
  BY <1>1, Frame
<1>3. \A s \in running'[u] : s[2] <= sections'[s[1]]
  BY <1>2, RunningBegan DEF Same
<1>4. at[u] \in Walking => nodes' = nodes
  BY <1>1, Elsewhere, NobodyWalks
<1>5. ASSUME at'[u] \in Walking, NEW i \in DOMAIN nodes', i < position'[u]
      PROVE  \E v \in Threads : v = nodes'[i] /\ Later(u, v)'
  <2>1. nodes' = nodes /\ nodes[i] \in Threads /\ Later(u, nodes[i])
    BY <1>1, <1>2, <1>4, <1>5 DEF Same, Walked, Types
  <2>2. ASSUME NEW v \in Threads, Later(u, v)
        PROVE  Later(u, v)'
    BY <1>2, <2>2, LaterKept DEF Same
  <2> QED BY <2>1, <2>2
<1>6. ASSUME at'[u] = "slow", NEW n \in Nat, <<Node(u)', n>> \in running'[u], at'[Node(u)'] = "inside",
             sections'[Node(u)'] = n
      PROVE  active'[Node(u)'] <= epoch'[u]
  <2>1. Node(u)' = Node(u) /\ Node(u) \in Threads
    BY <1>1, <1>2, <1>4, <1>6, NodeIs DEF Same, Walking, Local, Node, AtEnd, Types
  <2>2. n <= sections[Node(u)]
    BY <1>1, <1>2, <1>6, <2>1 DEF Walked, Same
  <2>3. Goes(Node(u), n) /\ active'[Node(u)] = active[Node(u)]
    BY <1>6, <2>1, <2>2, SectionsKept DEF Goes
  <2> QED BY <1>1, <1>2, <1>6, <2>1, <2>3 DEF Walked, Same
<1>7. ASSUME at'[u] = "synchronized", NEW v \in Threads
      PROVE  Later(u, v)'
  BY <1>1, <1>2, <1>7, LaterKept DEF Walked, Same
<1>8. at'[u] \in Walking => \A i \in DOMAIN nodes' : i < position'[u] => Later(u, nodes[i])'
  BY <1>5 DEF Later, Goes
<1> QED BY <1>3, <1>6, <1>7, <1>8 DEF Walked, Goes

LEMMA VisitKeepsWalked ==
    ASSUME RegistryInv, NEW t \in Threads, Visit(t)
    PROVE  Walked(t)'
<1>1. Types /\ List /\ Local(t) /\ Walked(t) /\ Acts(t)
  BY DEF RegistryInv, Acts, Step
<1>2. /\ at[t] = "walking" /\ position[t] >= 1 /\ ~AtEnd(t) /\ position[t] \in Nat
  BY <1>1 DEF Visit, Local, Walking, Types
<1>3. /\ position[t] \in DOMAIN nodes /\ Node(t) \in Threads /\ Node(t) = nodes[position[t]]
  BY <1>1, <1>2, NodeIs
<1>4. /\ nodes' = nodes /\ running' = running /\ epoch' = epoch /\ active' = active
      /\ sections' = sections
  BY DEF Visit, epochs
<1>5. /\ active[Node(t)] \in Nat /\ epoch[t] \in Nat /\ result[t] \in Nat
      /\ \A v \in Threads : active[v] \in Nat
  <2>1. Epochs \subseteq Nat /\ off_state \in Nat
    BY RegistryAssumption DEF Epochs, off_state
  <2>2. \A v \in Threads : active[v] \in Nat
    BY <1>1, <2>1 DEF Types
  <2>3. epoch[t] \in Nat /\ result[t] \in Nat
    BY <1>1, <2>1 DEF Types
  <2> QED BY <1>3, <2>2, <2>3
<1>6. \A s \in running'[t] : s[2] <= sections'[s[1]]
  BY <1>1, <1>4, RunningBegan
<1>7. CASE active[Node(t)] <= epoch[t]
  <2>1. at'[t] = "slow" /\ position' = position /\ result' = result
    BY <1>1, <1>7 DEF Visit, Move, Types
  <2>2. at' = [at EXCEPT ![t] = "slow"]
    BY <1>7 DEF Visit, Move
  <2>3. Node(t)' = Node(t)
    BY <1>4, <2>1 DEF Node
  <2>4. ASSUME NEW i \in DOMAIN nodes, i < position[t]
        PROVE  nodes[i] \in Threads /\ Later(t, nodes[i])
    BY <1>1, <1>2, <2>4 DEF Walked, Walking, Types
  <2>5. ASSUME NEW v \in Threads, Later(t, v)
        PROVE  Later(t, v)'
    BY <1>1, <1>4, <2>1, <2>5, LaterKept
  <2>6. \A i \in DOMAIN nodes' : i < position'[t] => Later(t, nodes[i])'
    BY <1>4, <2>1, <2>4, <2>5 DEF Later, Goes
  <2> QED BY <1>4, <1>6, <1>7, <2>1, <2>3, <2>6 DEF Walked
<1>8. CASE ~(active[Node(t)] <= epoch[t])
  <2>1. /\ at' = at /\ position'[t] = position[t] + 1
        /\ result' = [result EXCEPT ![t] = IF active[Node(t)] < @ THEN active[Node(t)] ELSE @]
    BY <1>1, <1>8 DEF Visit, From, Types
  <2>2. /\ result'[t] \in Nat /\ result'[t] <= result[t] /\ result'[t] <= active[Node(t)]
    BY <1>1, <1>5, <2>1 DEF Types
  <2>3. ASSUME NEW i \in DOMAIN nodes, i < position[t] + 1, NEW n \in Nat,
               <<nodes[i], n>> \in running[t], Goes(nodes[i], n)
        PROVE  active[nodes[i]] > epoch[t] /\ active[nodes[i]] >= result'[t]
    <3>1. CASE i = position[t]
      BY <1>3, <1>5, <1>8, <2>2, <3>1
    <3>2. CASE i # position[t]
      <4>1. i < position[t] /\ nodes[i] \in Threads
        BY <1>1, <1>2, <2>3, <3>2 DEF Types
      <4>2. active[nodes[i]] > epoch[t] /\ active[nodes[i]] >= result[t]
        BY <1>1, <1>2, <2>3, <4>1 DEF Walked, Walking, Later
      <4>3. active[nodes[i]] \in Nat
        BY <1>5, <4>1
      <4> QED BY <1>5, <2>2, <4>2, <4>3
    <3> QED BY <3>1, <3>2
  <2> QED BY <1>2, <1>4, <1>6, <2>1, <2>3 DEF Walked, Later, Goes
<1> QED BY <1>7, <1>8

LEMMA WaitOnEpochKeepsWalked ==
    ASSUME RegistryInv, NEW t \in Threads, WaitOnEpoch(t)
    PROVE  Walked(t)'
<1>1. Types /\ List /\ Local(t) /\ Walked(t) /\ Acts(t)
  BY DEF RegistryInv, Acts, Step
<1>2. /\ at[t] = "slow" /\ at'[t] = "walking" /\ position[t] >= 1 /\ ~AtEnd(t)
      /\ position[t] \in Nat /\ position'[t] = position[t] + 1 /\ ~(active[Node(t)] <= epoch[t])
  BY <1>1 DEF WaitOnEpoch, Move, From, Local, Walking, Types, AtEnd
<1>3. /\ position[t] \in DOMAIN nodes /\ Node(t) \in Threads /\ Node(t) = nodes[position[t]]
  BY <1>1, <1>2, NodeIs
<1>4. /\ nodes' = nodes /\ running' = running /\ epoch' = epoch /\ active' = active
      /\ sections' = sections /\ result' = result
  BY DEF WaitOnEpoch, epochs, waiting
<1>5. \A s \in running'[t] : s[2] <= sections'[s[1]]
  BY <1>1, <1>4, RunningBegan
<1>6. ASSUME NEW i \in DOMAIN nodes, i < position[t] + 1
      PROVE  nodes[i] \in Threads /\ Later(t, nodes[i])
  <2>1. CASE i = position[t]
    BY <1>1, <1>2, <1>3, <2>1 DEF Walked, Later
  <2>2. CASE i # position[t]
    <3>1. i < position[t] /\ nodes[i] \in Threads
      BY <1>1, <1>2, <1>6, <2>2 DEF Types
    <3> QED BY <1>1, <1>2, <3>1 DEF Walked, Walking
  <2> QED BY <2>1, <2>2
<1>7. ASSUME NEW v \in Threads, Later(t, v)
      PROVE  Later(t, v)'
  BY <1>1, <1>4, <1>7, LaterKept
<1>8. \A i \in DOMAIN nodes' : i < position'[t] => Later(t, nodes[i])'
  BY <1>2, <1>4, <1>6, <1>7 DEF Later, Goes
<1> QED BY <1>2, <1>5, <1>8 DEF Walked

LEMMA UnlockSharedKeepsWalked ==
    ASSUME RegistryInv, NEW t \in Threads, UnlockShared(t)
    PROVE  Walked(t)'
<1>1. Types /\ List /\ Walked(t) /\ Acts(t)
  BY DEF RegistryInv, Acts, Step
<1>2. /\ at[t] = "walking" /\ at'[t] = "synchronized" /\ Len(nodes) < position[t]
      /\ \A v \in Threads \ {t} : at'[v] = at[v]
  BY <1>1 DEF UnlockShared, Move, Types, AtEnd
<1>3. running' = running /\ epoch' = epoch /\ active' = active /\ sections' = sections
      /\ result' = result
  BY DEF UnlockShared, epochs, waiting
<1>4. \A s \in running'[t] : s[2] <= sections'[s[1]]
  BY <1>1, <1>3, RunningBegan
<1>5. ASSUME NEW v \in Threads
      PROVE  Later(t, v)'
  <2> SUFFICES ASSUME NEW n \in Nat, <<v, n>> \in running[t], at'[v] = "inside", sections[v] = n
               PROVE  active[v] > epoch[t] /\ active[v] >= result[t]
    BY <1>3 DEF Later, Goes
  <2>1. at[v] = "inside"
    BY <1>2
  <2>2. PICK i \in DOMAIN nodes : nodes[i] = v
    BY <1>1, <2>1 DEF List, Listed
  <2>3. i < position[t]
    BY <1>1, <1>2 DEF Types
  <2>4. Later(t, v)
    BY <1>1, <1>2, <2>2, <2>3 DEF Walked, Walking
  <2> QED BY <2>1, <2>4 DEF Later, Goes
<1> QED BY <1>2, <1>4, <1>5 DEF Walked, Walking

LEMMA WalkedStep ==
    ASSUME RegistryInv, NEW t \in Threads, Acts(t)
    PROVE  Walked(t)'
<1>1. Types /\ Local(t) /\ Walked(t)
  BY DEF RegistryInv
<1>2. CASE Visit(t) \/ WaitOnEpoch(t) \/ UnlockShared(t)
  BY <1>2, VisitKeepsWalked, WaitOnEpochKeepsWalked, UnlockSharedKeepsWalked
<1>3. CASE Synchronize(t)
  <2>1. /\ at'[t] = "waiting" /\ sections' = sections
        /\ running'[t] = {<<u, sections[u]>> : u \in {v \in Threads : at[v] = "inside"}}
    BY <1>1, <1>3 DEF Synchronize, Move, Types, epochs
  <2>2. \A u \in Threads : sections[u] <= sections[u]
    BY <1>1 DEF Types
  <2> QED BY <2>1, <2>2 DEF Walked, Walking
<1>4. CASE LockShared(t)
  <2>1. /\ at'[t] = "walking" /\ position'[t] = 1 /\ running' = running /\ nodes' = nodes
    BY <1>1, <1>4 DEF LockShared, Move, From, Types, waiting
  <2>2. \A i \in DOMAIN nodes' : ~(i < position'[t])
    BY <1>1, <2>1 DEF Types
  <2>3. \A s \in running'[t] : s[2] <= sections'[s[1]]
    BY <2>1, RunningBegan
  <2> QED BY <2>1, <2>2, <2>3 DEF Walked, Walking
<1>5. CASE Return(t)
  <2>1. at'[t] = "out" /\ running'[t] = {}
    BY <1>1, <1>5 DEF Return, Move, Types
  <2> QED BY <2>1 DEF Walked, Walking
<1>6. CASE ~(Visit(t) \/ WaitOnEpoch(t) \/ UnlockShared(t) \/ Synchronize(t) \/ LockShared(t) \/ Return(t))
  <2>1. running' = running
    BY <1>6 DEF Acts, Construct, Destroy, AccessLock, Step, LockList, ClaimNode, NodeLocked, Change,
       UnlockNode, UnlockList, UnlockOwn, AccessUnlock, waiting
  <2>2. at'[t] \notin Walking \cup {"synchronized"}
    BY <1>1, <1>6 DEF Types, Move, Walking, Acts, Construct, Destroy, AccessLock, Step, LockList,
       Locking, ClaimNode, NodeLocked, Change, UnlockNode, UnlockList, UnlockOwn, AccessUnlock
  <2>3. \A s \in running'[t] : s[2] <= sections'[s[1]]
    BY <2>1, RunningBegan
  <2> QED BY <2>2, <2>3 DEF Walked, Walking
<1> QED BY <1>2, <1>3, <1>4, <1>5, <1>6

-----------------------------------------------------------------------------
(* What is proved of the specification *)

(* The inductive invariant holds at first: nobody is in the list. *)
LEMMA RegistryInit == Init => RegistryInv
<1> SUFFICES ASSUME Init
             PROVE  RegistryInv
  OBVIOUS
<1>1. Types
  BY TypesInit
<1>2. Bounds
  BY RegistryAssumption DEF Init, Bounds
<1>3. List /\ Locked
  BY DEF Init, List, Listed, Locked
<1>4. ASSUME NEW t \in Threads
      PROVE  Local(t) /\ Walked(t)
  BY DEF Init, Local, Walked, Keeping, Walking
<1> QED BY <1>1, <1>2, <1>3, <1>4 DEF RegistryInv

LEMMA RegistryNext == RegistryInv /\ [Next]_vars => RegistryInv'
<1> SUFFICES ASSUME RegistryInv, [Next]_vars
             PROVE  RegistryInv'
  OBVIOUS
<1>1. ASSUME NEW t \in Threads, Acts(t)
      PROVE  RegistryInv'
  <2>1. Types' /\ Bounds' /\ List' /\ Locked'
    BY <1>1, TypesStep, BoundsStep, ListStep, LockedStep
  <2>2. ASSUME NEW u \in Threads
        PROVE  Local(u)' /\ Walked(u)'
    BY <1>1, LocalElsewhere, LocalStep, WalkedElsewhere, WalkedStep
  <2> QED BY <2>1, <2>2 DEF RegistryInv
<1>2. CASE UNCHANGED vars
  BY <1>2 DEF vars, locks, epochs, waiting, RegistryInv, Types, Bounds, List, Locked, Local,
     Walked, Later, Goes, Node
<1> QED BY <1>1, <1>2 DEF Next, Acts

(* The list of nodes, its locks and its walks: the inductive invariant of  *)
(* lock_all, unlock_all and wait_min_epoch.                                *)
THEOREM Registry == Spec => []RegistryInv
BY RegistryInit, RegistryNext, PTL DEF Spec

(* Type correctness: the position of a loop is bounded because a list      *)
(* without repetitions is no longer than there are threads.                *)
THEOREM RegistryTypeCorrect == Spec => []TypeOK
<1>1. RegistryInv => TypeOK
  <2> SUFFICES ASSUME RegistryInv
               PROVE  TypeOK
    OBVIOUS
  <2>1. Types /\ List /\ Bounds
    BY DEF RegistryInv
  <2>2. position \in [Threads -> 0 .. Cardinality(Threads) + 1]
    <3>1. Len(nodes) <= Cardinality(Threads) /\ Cardinality(Threads) \in Nat /\ Len(nodes) \in Nat
      BY <2>1, NodesAreFew DEF Types
    <3>2. ASSUME NEW t \in Threads
          PROVE  position[t] \in 0 .. Cardinality(Threads) + 1
      <4>1. position[t] \in Nat
        BY <2>1 DEF Types
      <4>2. position[t] <= Len(nodes) + 1
        BY <3>1, <4>1 DEF RegistryInv, Local
      <4> QED BY <3>1, <4>1, <4>2
    <3> QED BY <2>1, <3>2 DEF Types
  <2>3. \A t \in Threads : sections[t] \in 0 .. MaxSections[t] /\ waits[t] \in 0 .. MaxWaits[t]
    BY <2>1, RegistryAssumption DEF Types, Bounds
  <2> QED BY <2>1, <2>2, <2>3 DEF TypeOK, Types, Places
<1> QED BY <1>1, Registry, PTL

(* synchronize_min_epoch keeps its promise to its caller: of the sections  *)
(* that ran when it was called, none that is in the epoch or before it     *)
(* goes on when it returns, and none is before its result.                 *)
THEOREM GracePeriodCorrect == Spec => []GracePeriod
<1>1. RegistryInv => GracePeriod
  <2> SUFFICES ASSUME RegistryInv, NEW t \in Threads, at[t] = "synchronized", NEW s \in running[t],
                      Goes(s[1], s[2])
               PROVE  active[s[1]] > epoch[t] /\ active[s[1]] >= result[t]
    BY DEF GracePeriod
  <2>1. s[1] \in Threads /\ s[2] \in Nat /\ s = <<s[1], s[2]>>
    BY DEF RegistryInv, Types
  <2>2. Later(t, s[1])
    BY <2>1 DEF RegistryInv, Walked
  <2> QED BY <2>1, <2>2 DEF Later
<1> QED BY <1>1, Registry, PTL

(* The destructor of a node leaves nothing that still points at it: not    *)
(* the list, no lock of lock_all, no reader.                               *)
THEOREM NodesOutliveCorrect == Spec => []NodesOutliveTheirUse
<1>1. RegistryInv => NodesOutliveTheirUse
  <2> SUFFICES ASSUME RegistryInv, NEW t \in Threads, at[t] = "gone"
               PROVE  /\ \A i \in DOMAIN nodes : nodes[i] # t
                      /\ claim[t] = {} /\ ~shared[t] /\ active[t] = off_state
    BY DEF NodesOutliveTheirUse
  <2>1. \A i \in DOMAIN nodes : nodes[i] # t
    BY DEF RegistryInv, List, Listed
  <2> QED BY <2>1 DEF RegistryInv, Local, Walking
<1> QED BY <1>1, Registry, PTL

(* push_back and unordered_erase on the list happen when wait_min_epoch    *)
(* iterates over it in no thread.                                          *)
THEOREM WalksCorrect == Spec => WalksAreUndisturbed
<1>1. RegistryInv /\ [Next]_vars =>
          [nodes' # nodes => \A t \in Threads : at[t] \notin {"walking", "slow"}]_vars
  <2> SUFFICES ASSUME RegistryInv, Next, nodes' # nodes, NEW u \in Threads
               PROVE  at[u] \notin {"walking", "slow"}
    OBVIOUS
  <2>1. PICK t \in Threads : Acts(t)
    BY DEF Next, Acts, vars
  <2>2. Change(t)
    BY <2>1, Elsewhere DEF RegistryInv
  <2> QED BY <2>2, NobodyWalks DEF Walking
<1> QED BY <1>1, Registry, PTL DEF Spec, WalksAreUndisturbed
=============================================================================
