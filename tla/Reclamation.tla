------------------------------ MODULE Reclamation ------------------------------
(***************************************************************************)
(* CommitAlgorithm with the reclamation of what its commits replace: the   *)
(* epoch each thread publishes while it is in a transaction, the callbacks *)
(* a commit leaves behind for the end of a grace period, and the threads   *)
(* that wait for one (thread_data, thread_synchronization, the queue that  *)
(* quiescence_buffer is).                                                  *)
(*                                                                         *)
(* An object is a variable with the storage word that points to it.  The   *)
(* set of epochs that active holds is empty for off_state.                 *)
(***************************************************************************)
EXTENDS CommitAlgorithm, Sequences

CONSTANTS
    Delayed,    \* threads whose store to active may be delayed past later
                \* loads: all of them on x86, none if access_lock had a full fence
    Registrars  \* threads whose functions call sometime_synchronized_after

ASSUME ReclamationAssumption == Delayed \subseteq Threads /\ Registrars \subseteq Threads

VARIABLES
    at,          \* where each thread is around its transactions
    active,      \* thread_synchronization_node::active: {} is off_state
    buffer,      \* the stores to active that are not visible yet
    working,     \* the working epoch that tx_success hands to reclaim
    chunks,      \* the finalized epochs of the thread, oldest first
    epoch,       \* the epoch that synchronize_min_epoch waits for
    nodes,       \* nodes it has yet to visit
    slow,        \* the node wait_on_epoch waits for
    later,       \* epochs it has loaded that are later than its own
    freed,       \* the objects whose success callback has run
    stored       \* history: the objects the variables have held

sync == <<epoch, nodes, slow, later>>
epochVars == <<at, active, buffer, working, chunks, sync, freed>>
allVars == <<vars, epochVars, stored>>

(* The objects the variables hold. *)
Stored == {<<v, storage[v]>> : v \in Vars \ AtomicVars}

EpochInit ==
    /\ Init
    /\ at = [t \in Threads |-> "out"]
    /\ active = [t \in Threads |-> {}]
    /\ buffer = [t \in Threads |-> <<>>]
    /\ working = [t \in Threads |-> {}]
    /\ chunks = [t \in Threads |-> <<>>]
    /\ epoch = [t \in Threads |-> 0]
    /\ nodes = [t \in Threads |-> {}]
    /\ slow = [t \in Threads |-> {}]
    /\ later = [t \in Threads |-> {}]
    /\ freed = {}
    /\ stored = Stored

Move(t, from, to) == at[t] = from /\ at' = [at EXCEPT ![t] = to]

(* The callbacks that free what the commit of t replaced. *)
Replaced(t) == {<<v, displaced[t][v]>> : v \in write_set[t] \ AtomicVars}

(* Mutant: every chunk gets the earliest epoch. *)
EarliestEpoch(t, sync_at, registered) ==
    IF Replaced(t) = {} /\ ~registered THEN {}
    ELSE {[epoch |-> 0, objects |-> Replaced(t)]}

(* The working epoch, when it has callbacks. *)
WorkingEpoch(t, sync_at, registered) ==
    IF Replaced(t) = {} /\ ~registered THEN {}
    ELSE {[epoch |-> sync_at, objects |-> Replaced(t)]}

(* Whether the user's function has called sometime_synchronized_after: the *)
(* callback it registers counts only once the attempt has succeeded.       *)
Registers(t) == IF t \in Registrars THEN BOOLEAN ELSE {FALSE}
-----------------------------------------------------------------------------
(* Transactions *)

(* Mutant: a store that does not replace what was there. *)
StoreOver(t, value) ==
    active' = [active EXCEPT ![t] = @ \cup value] /\ UNCHANGED buffer

(* Bound: stores that are delayed at the same time. *)
BufferSize == 1

StoreActive(t, value) ==
    IF t \in Delayed
    THEN /\ Len(buffer[t]) < BufferSize
         /\ buffer' = [buffer EXCEPT ![t] = Append(@, value)]
         /\ UNCHANGED active
    ELSE active' = [active EXCEPT ![t] = value] /\ UNCHANGED buffer

(* A delayed store reaches memory. *)
Drain(t) ==
    /\ buffer[t] # <<>>
    /\ active' = [active EXCEPT ![t] = Head(buffer[t])]
    /\ buffer' = [buffer EXCEPT ![t] = Tail(@)]
    /\ UNCHANGED <<vars, at, working, chunks, sync, freed>>

Start(t) ==
    /\ at[t] = "out"
    /\ \E k \in {"read_write", "read_only"} : Invoke(t, k)
    /\ UNCHANGED epochVars

(* The clock is loaded first and published afterwards. *)
Version(t) ==
    /\ Move(t, "out", "entering")
    /\ GetClock(t)
    /\ UNCHANGED <<active, buffer, working, chunks, sync, freed>>

AccessLock(t) ==
    /\ Move(t, "entering", "inside")
    /\ StoreActive(t, {version_[t]})
    /\ UNCHANGED <<vars, working, chunks, sync, freed>>

(* Reads, writes and the commit; its compare-exchange drains the buffer. *)
Inside(t) ==
    /\ at[t] = "inside"
    /\ Step(t)
    /\ pc'[t] \notin {"top", "idle"}
    /\ pc[t] = "cas" => buffer[t] = <<>>
    /\ UNCHANGED epochVars

(* The attempt fails: its working epoch is cleared. *)
Abandon(t) ==
    /\ Move(t, "inside", "failed")
    /\ Step(t)
    /\ pc'[t] = "top" \/ Throw(t)
    /\ UNCHANGED <<active, buffer, working, chunks, sync, freed>>

(* Nothing written: the epoch to synchronize on is the earliest. *)
EndNothing(t) ==
    /\ Move(t, "inside", "succeeded")
    /\ CommitNothing(t)
    /\ \E r \in Registers(t) : working' = [working EXCEPT ![t] = WorkingEpoch(t, 0, r)]
    /\ UNCHANGED <<active, buffer, chunks, sync, freed>>

EndCommit(t) ==
    /\ Move(t, "inside", "succeeded")
    /\ CommitSucceeded(t)
    /\ \E r \in Registers(t) :
           working' = [working EXCEPT ![t] = WorkingEpoch(t, sync_epoch[t], r)]
    /\ UNCHANGED <<active, buffer, chunks, sync, freed>>

(* Mutant: an attempt that fails keeps its epoch. *)
AccessUnlockSucceeded(t) ==
    /\ \/ Move(t, "failed", "out") /\ UNCHANGED <<active, buffer>>
       \/ Move(t, "succeeded", "reclaiming") /\ StoreActive(t, {})
    /\ UNCHANGED <<vars, working, chunks, sync, freed>>

AccessUnlock(t) ==
    /\ \/ Move(t, "failed", "out")
       \/ Move(t, "succeeded", "reclaiming")
    /\ StoreActive(t, {})
    /\ UNCHANGED <<vars, working, chunks, sync, freed>>
-----------------------------------------------------------------------------
(* Grace periods *)

(* synchronize_min_epoch begins: lock_shared drains the buffer. *)
Synchronize(t, e) ==
    /\ buffer[t] = <<>>
    /\ epoch' = [epoch EXCEPT ![t] = e]
    /\ nodes' = [nodes EXCEPT ![t] = Threads]
    /\ UNCHANGED <<slow, later>>

(* Mutant: the callbacks of a commit that does not reclaim are cleared. *)
FinalizeToReclaim(t) ==
    /\ working' = [working EXCEPT ![t] = {}]
    /\ \/ Move(t, "reclaiming", "out") /\ UNCHANGED <<chunks, sync>>
       \/ /\ working[t] # {}
          /\ chunks' = [chunks EXCEPT ![t] = Append(@, CHOOSE c \in working[t] : TRUE)]
          /\ Move(t, "reclaiming", "waiting")
          /\ Synchronize(t, Head(chunks'[t]).epoch)
    /\ UNCHANGED <<vars, active, buffer, freed>>

(* reclaim: the working epoch is finalized.  Whether the buffer has reached*)
(* its limit, ReclaimLimit, is left open.                                  *)
Finalize(t) ==
    /\ chunks' = [chunks EXCEPT ![t] = IF working[t] = {} THEN @
                                       ELSE Append(@, CHOOSE c \in working[t] : TRUE)]
    /\ working' = [working EXCEPT ![t] = {}]
    /\ \/ Move(t, "reclaiming", "out") /\ UNCHANGED sync
       \/ /\ working[t] # {}
          /\ Move(t, "reclaiming", "waiting")
          /\ Synchronize(t, Head(chunks'[t]).epoch)
    /\ UNCHANGED <<vars, active, buffer, freed>>

NotAfter(u, e) == \E a \in active[u] : a <= e

Waiting == {"waiting", "closing"}

(* Mutant: a node that is still in the epoch is not waited for. *)
VisitOnly(t, u) ==
    /\ at[t] \in Waiting
    /\ u \in nodes[t] /\ slow[t] = {}
    /\ nodes' = [nodes EXCEPT ![t] = @ \ {u}]
    /\ later' = [later EXCEPT ![t] = @ \cup active[u]]
    /\ UNCHANGED <<vars, at, active, buffer, working, chunks, epoch, slow, freed>>

(* wait_min_epoch loads the epoch of a node ... *)
Visit(t, u) ==
    /\ at[t] \in Waiting
    /\ u \in nodes[t] /\ slow[t] = {}
    /\ nodes' = [nodes EXCEPT ![t] = @ \ {u}]
    /\ \/ /\ NotAfter(u, epoch[t])
          /\ slow' = [slow EXCEPT ![t] = {u}]
          /\ UNCHANGED later
       \/ /\ ~NotAfter(u, epoch[t])
          /\ later' = [later EXCEPT ![t] = @ \cup active[u]]
          /\ UNCHANGED slow
    /\ UNCHANGED <<vars, at, active, buffer, working, chunks, epoch, freed>>

(* ... and waits until it has left the epoch, if it was in it: the epoch   *)
(* it has then does not count for the result.                              *)
WaitOnEpoch(t) ==
    /\ \E u \in slow[t] : ~NotAfter(u, epoch[t])
    /\ slow' = [slow EXCEPT ![t] = {}]
    /\ UNCHANGED <<vars, at, active, buffer, working, chunks, epoch, nodes, later,
                   freed>>

Synchronized(t) ==
    /\ nodes[t] = {} /\ slow[t] = {}
    /\ Move(t, "waiting", "freeing") \/ Move(t, "closing", "draining")
    /\ UNCHANGED <<vars, active, buffer, working, chunks, sync, freed>>

(* Mutant: only the front is freed. *)
FrontOnly(t, rest) == FALSE

(* The loops of reclaim_all_possible and of reclaim_all go on. *)
GoesOn(t, rest) ==
    /\ rest # <<>>
    /\ at[t] = "freeing" => \A e \in later[t] : Head(rest).epoch < e

(* do_first_epoch_callbacks *)
FreeFront(t) ==
    LET rest == Tail(chunks[t])
    IN
    /\ at[t] \in {"freeing", "draining"}
    /\ freed' = freed \cup Head(chunks[t]).objects
    /\ chunks' = [chunks EXCEPT ![t] = rest]
    /\ \/ GoesOn(t, rest) /\ UNCHANGED <<at, sync>>
       \/ /\ ~GoesOn(t, rest)
          /\ Move(t, "freeing", "out") \/ Move(t, "draining", "gone")
          /\ later' = [later EXCEPT ![t] = {}]
          /\ epoch' = [epoch EXCEPT ![t] = 0]
          /\ UNCHANGED <<nodes, slow>>
    /\ UNCHANGED <<vars, active, buffer, working>>

(* The thread exits, and its thread_data reclaims all that is left. *)
Exit(t) ==
    /\ pc[t] = "idle"
    /\ \/ chunks[t] = <<>> /\ Move(t, "out", "gone") /\ UNCHANGED sync
       \/ /\ chunks[t] # <<>>
          /\ Move(t, "out", "closing")
          /\ Synchronize(t, chunks[t][Len(chunks[t])].epoch)
    /\ UNCHANGED <<vars, active, buffer, working, chunks, freed>>
-----------------------------------------------------------------------------
EpochStep(t) ==
    \/ Version(t) \/ AccessLock(t) \/ Inside(t) \/ Abandon(t) \/ EndNothing(t) \/ EndCommit(t)
    \/ AccessUnlock(t) \/ Finalize(t) \/ WaitOnEpoch(t) \/ Synchronized(t) \/ FreeFront(t)
    \/ \E u \in Threads : Visit(t, u)

(* History is kept of whatever is stored. *)
Remember == stored' = stored \cup Stored'

EpochNext ==
    \/ (\E t \in Threads : Start(t) \/ Exit(t) \/ Drain(t) \/ EpochStep(t)) /\ Remember
    \/ (\A t \in Threads : at[t] = "gone") /\ UNCHANGED allVars

EpochSpec == EpochInit /\ [][EpochNext]_allVars

(* Threads are scheduled, and the user's functions return. *)
FairEpochSpec ==
    EpochSpec /\ \A t \in Threads :
                     WF_allVars(EpochStep(t) /\ Remember) /\ WF_allVars(Drain(t) /\ Remember)
-----------------------------------------------------------------------------
(* What holds *)

Objects == Vars \X Storage

Chunk == [epoch : Nat, objects : SUBSET Objects]

Places == {"out", "entering", "inside", "failed", "succeeded", "reclaiming",
           "waiting", "closing", "freeing", "draining", "gone"}

AtMostOne(S) == \A d, e \in S : d = e

(* Type invariant. *)
EpochTypeOK ==
    /\ at \in [Threads -> Places]
    /\ active \in [Threads -> SUBSET Nat]
    /\ buffer \in [Threads -> Seq(SUBSET Nat)]
    /\ working \in [Threads -> SUBSET Chunk]
    /\ chunks \in [Threads -> Seq(Chunk)]
    /\ epoch \in [Threads -> Nat]
    /\ nodes \in [Threads -> SUBSET Threads]
    /\ slow \in [Threads -> SUBSET Threads]
    /\ later \in [Threads -> SUBSET Nat]
    /\ freed \subseteq Objects /\ stored \subseteq Objects
    /\ \A t \in Threads :
           /\ AtMostOne(active[t]) /\ AtMostOne(working[t]) /\ AtMostOne(slow[t])
           /\ \A i \in DOMAIN buffer[t] : AtMostOne(buffer[t][i])

(* What an attempt has read stays allocated for as long as the attempt     *)
(* runs: reads return references.                                          *)
NoUseAfterFree ==
    \A t \in Threads : at[t] = "inside" => seen[t] \cap freed = {}

(* The objects of t's epochs. *)
Garbage(t) ==
    UNION ({chunks[t][i].objects : i \in DOMAIN chunks[t]} \cup {c.objects : c \in working[t]})

(* What the commit of t has replaced, for its callbacks to free. *)
Retiring(t) ==
    {<<v, displaced[t][v]>> :
        v \in {w \in write_set[t] \ AtomicVars :
                   pc[t] = "publish" \/ (pc[t] = "write" /\ w \notin todo[t])}}

Retired(t) == Garbage(t) \cup Retiring(t)

(* The objects that were stored and no longer are have been freed or wait, *)
(* and no others: with the commit that has replaced them, then in an epoch *)
(* of its thread.  They wait in one place, until they are freed: none is   *)
(* dropped, none freed twice, and none while a variable holds it.          *)
FreedOnce ==
    /\ stored \ Stored = freed \cup UNION {Retired(t) : t \in Threads}
    /\ \A t, u \in Threads : t # u => Retired(t) \cap Retired(u) = {}
    /\ \A t \in Threads :
           /\ Retired(t) \cap freed = {}
           /\ Garbage(t) \cap Retiring(t) = {}
           /\ \A i, j \in DOMAIN chunks[t] : i # j =>
                  chunks[t][i].objects \cap chunks[t][j].objects = {}
           /\ \A i \in DOMAIN chunks[t] : \A c \in working[t] :
                  chunks[t][i].objects \cap c.objects = {}

(* A thread's queue is in the order of the epochs it frees objects in.    *)
ChunksInOrder ==
    \A t \in Threads : \A i, j \in DOMAIN chunks[t] :
        (i < j /\ chunks[t][i].objects # {} /\ chunks[t][j].objects # {})
            => chunks[t][i].epoch < chunks[t][j].epoch

(* A grace period ends: those that wait for each other's epochs are out of *)
(* their own transactions, and transactions that begin after a commit have *)
(* a later version.  Epoch 0 is waited for after transactions that wrote   *)
(* nothing, and while no one writes all versions are 0: that wait may last *)
(* as long as some function retries.                                       *)
GracePeriodsEnd ==
    \A t \in Threads : (at[t] \in Waiting /\ epoch[t] > 0) ~> at[t] \notin Waiting

(* What is replaced is freed, if only at the exit of the thread. *)
NothingLeaks ==
    \A t \in Threads : (at[t] = "closing" /\ epoch[t] > 0) ~> (at[t] = "gone" /\ Garbage(t) = {})
=============================================================================
