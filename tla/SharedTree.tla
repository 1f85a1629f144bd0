------------------------------ MODULE SharedTree ------------------------------
(***************************************************************************)
(* Threads that share a red-black tree: every call is a transaction, whose *)
(* attempts read the memory as it was when they began and commit if what   *)
(* they have tracked or written has not changed since (CommitAlgorithm     *)
(* implements exactly this).  An attempt that fails takes the node it has  *)
(* allocated back; what a commit has unlinked is destroyed when no attempt *)
(* that began before it is left (Reclamation).                             *)
(***************************************************************************)
EXTENDS RbTree

CONSTANTS
    Threads,
    Keys,
    Calls,             \* the calls each thread may make
    Prefills,          \* what the tree may hold at first: sequences of keys
    EmplaceMeetsErase, \* may calls of emplace and of erase_one overlap?
    MaxCalls           \* bound: calls of each thread

ASSUME SharedTreeAssumption ==
    /\ N \in Nat /\ Keys \subseteq Nat \ {0} /\ MaxCalls \in Nat
    /\ \A seq \in Prefills : seq \in Seq(Keys) /\ Len(seq) <= N
    /\ EmplaceMeetsErase \in BOOLEAN

VARIABLES
    memory,   \* what is committed
    live,     \* nodes that are allocated and constructed
    calls,    \* how many calls each thread has completed
    call,     \* the call each thread is in
    attempt,  \* what its attempt has read and means to do: a set of one or none
    stale,    \* variables that others have replaced since the attempt began
    garbage,  \* callbacks of commits: what they destroy, whom they wait for
    lost      \* nodes that will never be destroyed

vars == <<memory, live, calls, call, attempt, stale, garbage, lost>>

Idle == <<"idle", 0>>

(* A tree that one thread has filled. *)
RECURSIVE Filled(_)
Filled(seq) ==
    LET last == Len(seq)
    IN  IF seq = <<>> THEN EmptyMemory
        ELSE Emplace(Working(Filled(SubSeq(seq, 1, last - 1))), last, seq[last]).mem

Init ==
    /\ \E seq \in Prefills : memory = Filled(seq) /\ live = 1 .. Len(seq)
    /\ calls = [t \in Threads |-> 0]
    /\ call = [t \in Threads |-> Idle]
    /\ attempt = [t \in Threads |-> {}]
    /\ stale = [t \in Threads |-> {}]
    /\ garbage = {}
    /\ lost = {}

Busy(t) == attempt[t] # {}

Meets(c, d) == {c[1], d[1]} = {"emplace", "erase"}

(* A thread calls an operation of the tree inside lstm::atomic. *)
Call(t, c) ==
    /\ call[t] = Idle /\ calls[t] < MaxCalls
    /\ EmplaceMeetsErase \/ \A u \in Threads : ~Meets(c, call[u])
    /\ call' = [call EXCEPT ![t] = c]
    /\ UNCHANGED <<memory, live, calls, attempt, stale, garbage, lost>>

(* What an attempt comes to: the variables it tracks, the values it        *)
(* writes, the node it allocates, the nodes it destroys, the root of the   *)
(* tree it clears, and whether find has found the key.                     *)
Outcome(s, node, cleared, found) ==
    [tracked |-> s.reads \cup s.writes,
     values |-> [l \in s.writes \cup {l \in Locs : l[1] = node /\ node # Nil} |-> s.mem[l]],
     node |-> node, gone |-> s.gone, cleared |-> cleared, found |-> found]

Begin(t, outcome) ==
    /\ call[t] # Idle /\ ~Busy(t)
    /\ attempt' = [attempt EXCEPT ![t] = {outcome}]
    /\ UNCHANGED <<memory, calls, call, stale, garbage, lost>>

(* Bound: the allocator has N nodes; the address it picks does not matter. *)
RunEmplace(t) ==
    \E n \in Nodes \ live :
        /\ \A m \in Nodes \ live : n <= m
        /\ call[t][1] = "emplace"
        /\ live' = live \cup {n}
        /\ Begin(t, Outcome(Emplace(Working(memory), n, call[t][2]), n, Nil, TRUE))

(* find with reads that are not tracked, then erase_impl of what it found. *)
RunErase(t) ==
    LET n == Find(memory, call[t][2])
        s == Working(memory)
    IN  /\ call[t][1] = "erase"
        /\ Begin(t, Outcome(IF n = Nil THEN s ELSE EraseImpl(s, n), Nil, Nil, n # Nil))
        /\ UNCHANGED live

RunFind(t) ==
    /\ call[t][1] = "find"
    /\ Begin(t, Outcome(Working(memory), Nil, Nil, Find(memory, call[t][2]) # Nil))
    /\ UNCHANGED live

RunClear(t) ==
    LET root == memory[Root]
        s == Track(Working(memory), {Root})
    IN  /\ call[t][1] = "clear"
        /\ Begin(t, Outcome(IF root = Nil THEN s ELSE Set(s, Nil, "root", Nil), Nil, root, TRUE))
        /\ UNCHANGED live

Valid(t) == \A a \in attempt[t] : a.tracked \cap stale[t] = {}

(* Mutant: nobody is waited for. *)
CallbacksAtOnce(t, a) ==
    IF a.gone = {} /\ a.cleared = Nil THEN {}
    ELSE {[by |-> t, nodes |-> a.gone, cleared |-> a.cleared, waits |-> {}]}

(* The callbacks of an attempt, with those it has to outlive. *)
Callbacks(t, a) ==
    IF a.gone = {} /\ a.cleared = Nil THEN {}
    ELSE {[by |-> t, nodes |-> a.gone, cleared |-> a.cleared, waits |-> {u \in Threads \ {t} : Busy(u)}]}

End(t, new) ==
    /\ attempt' = [attempt EXCEPT ![t] = {}]
    /\ garbage' = {[g EXCEPT !.waits = @ \ {t}] : g \in garbage} \cup new

Commit(t) ==
    \E a \in attempt[t] :
        /\ Valid(t)
        /\ memory' = a.values @@ memory
        /\ stale' = [u \in Threads |->
                        IF u = t THEN {} ELSE IF Busy(u) THEN stale[u] \cup DOMAIN a.values ELSE {}]
        /\ End(t, Callbacks(t, a))
        /\ call' = [call EXCEPT ![t] = Idle]
        /\ calls' = [calls EXCEPT ![t] = @ + 1]
        /\ UNCHANGED <<live, lost>>

(* Something has changed since the attempt began: it fails, and its node   *)
(* goes back.                                                              *)
Fail(t) ==
    \E a \in attempt[t] :
        /\ stale[t] # {}
        /\ End(t, {})
        /\ live' = live \ {a.node}
        /\ stale' = [stale EXCEPT ![t] = {}]
        /\ UNCHANGED <<memory, calls, call, lost>>

Destroyed(g) ==
    g.nodes \cup IF g.cleared = Nil THEN {}
                 ELSE {DestroySubtree(memory, g.cleared)[i] :
                          i \in DOMAIN DestroySubtree(memory, g.cleared)}

(* The callbacks of a commit run. *)
Reclaim(g) ==
    /\ g \in garbage /\ g.waits = {}
    /\ garbage' = garbage \ {g}
    /\ live' = live \ Destroyed(g)
    /\ lost' = lost \cup (Subtree(memory, g.cleared) \ Destroyed(g))
    /\ memory' = [l \in Locs |-> IF l[1] \in Destroyed(g) THEN EmptyMemory[l] ELSE memory[l]]
    /\ UNCHANGED <<calls, call, attempt, stale>>

Next ==
    \/ \E t \in Threads :
           \/ \E c \in Calls[t] : Call(t, c)
           \/ RunEmplace(t) \/ RunErase(t) \/ RunFind(t) \/ RunClear(t)
           \/ Commit(t) \/ Fail(t)
    \/ \E g \in garbage : Reclaim(g)
    \/ (\A t \in Threads : calls[t] = MaxCalls) /\ garbage = {} /\ UNCHANGED vars

Spec == Init /\ [][Next]_vars
-----------------------------------------------------------------------------
(* What holds *)

InTree == Subtree(memory, memory[Root])

(* verify, the repository's own check of a tree, passes in every state: no *)
(* sequence of calls and no overlap of them leaves the tree unbalanced,    *)
(* out of order or wrongly linked; the root has no parent.                 *)
TreeVerified == Verified(memory) /\ (memory[Root] # Nil => memory[memory[Root], "parent"] = Nil)

(* A value stays with its key, whichever node they end up in. *)
ElementsStayWhole == \A n \in InTree : memory[n, "key"] = memory[n, "value"]

Owners ==
    {<<"tree", {}, InTree>>, <<"lost", {}, lost>>}
    \cup {<<"attempt", {t}, {a.node : a \in attempt[t]} \ {Nil}>> : t \in Threads}
    \cup {<<"callback", {g}, g.nodes \cup Subtree(memory, g.cleared)>> : g \in garbage}

(* Every node that is allocated has one owner, the tree, an attempt or a   *)
(* callback that will destroy it, or is one of those destroy_deallocate_   *)
(* subtree loses: none is destroyed twice, or while it is linked.          *)
NodesHaveOneOwner ==
    /\ live = UNION {o[3] : o \in Owners}
    /\ \A o, p \in Owners : o = p \/ o[3] \cap p[3] = {}
    /\ \A g \in garbage : g.cleared # Nil =>
           Cardinality(Destroyed(g) \ g.nodes) = Len(DestroySubtree(memory, g.cleared))

(* What an attempt has tracked or means to write is still allocated, even  *)
(* if the attempt is bound to fail.                                        *)
NothingDangles ==
    \A t \in Threads : \A a \in attempt[t] : \A l \in a.tracked : l[1] \in live \cup {Nil}

(* How often each key is in a part of the memory. *)
Bagged(nodes) == [k \in Keys |-> Cardinality({n \in nodes : memory[n, "key"] = k})]

Doing ==
    [t \in Threads |->
        IF \E a \in attempt[t] : call[t][1] = "find" \/ ~a.found
        THEN <<"answer", \A a \in attempt[t] : a.found, call[t]>>
        ELSE call[t]]

(* The erasures that a clear waits for, and what it took out of the tree   *)
(* and they have not erased.                                               *)
Overtaken ==
    {c \in {[name |-> g.cleared, by |-> {u \in g.waits : Doing[u][1] = "erase"},
             left |-> Bagged(Subtree(memory, g.cleared))] : g \in garbage} :
        c.name # Nil /\ c.by # {}}

Bag == INSTANCE OrderedBag WITH
    Clears <- Nodes, contents <- Bagged(InTree), doing <- Doing, overtaken <- Overtaken

(* Linearizability: what calls do to the tree and what they return is what *)
(* they would on a bag, each at one instant while it runs.  Two erasures   *)
(* that a clear overtakes do not both get the same element.                *)
ImplementsOrderedBag == Bag!Spec
=============================================================================
