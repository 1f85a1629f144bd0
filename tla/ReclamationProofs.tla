-------------------------- MODULE ReclamationProofs --------------------------
(***************************************************************************)
(* What Reclamation promises, for any threads, variables, calls and bounds.*)
(***************************************************************************)
EXTENDS Reclamation, CommitAlgorithmProofs, SequenceTheorems

Reads(t) == \E c \in Calls[t] : c[1] # "write"

(* A thread that reads what others may free publishes its epoch before it  *)
(* reads, and none of the others waits for the earliest epoch: the two     *)
(* conditions that the violations of NoUseAfterFree break.                 *)
Disciplined ==
    \A t, u \in Threads : t # u /\ Reads(t) => t \notin Delayed /\ u \notin Registrars

(* Only threads that call a read have seen anything. *)
ReadsAreCalled(t) ==
    ~Reads(t) => /\ seen[t] = {}
                 /\ pc[t] \in {"fast", "reload", "slow"} => what[t] = "write"

(* Where a thread is around its transaction and inside of it. *)
Around(t) ==
    /\ at[t] \in {"out", "failed"} => pc[t] \in {"idle", "top"}
    /\ at[t] = "entering" => pc[t] = "run" /\ seen[t] = {}
    /\ at[t] = "inside" => pc[t] \notin {"idle", "top"}
    /\ at[t] \notin {"out", "failed", "entering", "inside"} => pc[t] = "idle"
    /\ working[t] # {} => at[t] \in {"succeeded", "reclaiming"}
    /\ at[t] \notin Waiting => slow[t] = {}
    /\ at[t] \in {"freeing", "draining"} => nodes[t] = {}
    /\ at[t] \in Waiting \cup {"freeing", "draining"} => chunks[t] # <<>>

Published(t) ==
    t \notin Delayed =>
        buffer[t] = <<>> /\ (at[t] = "inside" => active[t] = {version_[t]})

Queue(t) == {chunks[t][i] : i \in DOMAIN chunks[t]}
Epochs(t) == Queue(t) \cup working[t]

(* Storage that has never been stored in v. *)
Unborn(v, s) ==
    LET t == s[1] IN
    /\ t \in Threads
    /\ s[2] >= done[t]
    /\ ~ /\ s[2] = done[t]
         /\ pc[t] = "publish" \/ (pc[t] = "write" /\ v \in write_set[t] \ todo[t])

Owned ==
    /\ \A t, u \in Threads : t # u => Retired(t) \cap Retired(u) = {}
    /\ \A t \in Threads :
           /\ Retired(t) \cap freed = {}
           /\ Garbage(t) \cap Retiring(t) = {}
           /\ \A i, j \in DOMAIN chunks[t] : i # j =>
                  chunks[t][i].objects \cap chunks[t][j].objects = {}
           /\ \A i \in DOMAIN chunks[t] : \A c \in working[t] :
                  chunks[t][i].objects \cap c.objects = {}
    /\ \A v \in Vars \ AtomicVars : \A t \in Threads :
           <<v, storage[v]>> \notin freed \cup Retired(t)
    /\ \A v \in Vars : ~Unborn(v, storage[v])
    /\ \A t \in Threads : \A o \in freed \cup Retired(t) :
           o[1] \notin AtomicVars /\ ~Unborn(o[1], o[2])

(* What has been freed, and what waits for it. *)
Replacements == freed \cup UNION {Retired(t) : t \in Threads}

(* Whatever has been stored is stored, or on its way to be freed. *)
Accounted ==
    /\ stored = Stored \cup Replacements
    /\ Threads = {} => freed = {}

(* The order of a thread's epochs. *)
Ordered(t) ==
    /\ \A c \in Epochs(t) : c.objects # {} => c.epoch < clock
    /\ pc[t] = "publish" => \A c \in Epochs(t) : c.objects # {} => c.epoch < sync_epoch[t]
    /\ \A i \in DOMAIN chunks[t] : \A c \in working[t] :
           chunks[t][i].objects # {} /\ c.objects # {} => chunks[t][i].epoch < c.epoch
    /\ \A i, j \in DOMAIN chunks[t] :
           (i < j /\ chunks[t][i].objects # {} /\ chunks[t][j].objects # {})
               => chunks[t][i].epoch < chunks[t][j].epoch
    /\ t \notin Registrars => \A c \in Epochs(t) : c.objects # {}

(* Who has read what u frees is in the epoch that u waits for. *)
ReadersAreEarlier(t, u) ==
    /\ \A c \in Epochs(u) : c.objects \cap seen[t] # {} => version_[t] <= c.epoch
    /\ pc[u] = "publish" /\ Retiring(u) \cap seen[t] # {} => version_[t] <= sync_epoch[u]

(* What u knows of t when it has visited its node. *)
Visited(t, u) ==
    at[u] \in Waiting \cup {"freeing", "draining"} =>
        \A c \in Queue(u) : c.objects \cap seen[t] # {} =>
            /\ t \in slow[u] => version_[t] <= epoch[u]
            /\ t \notin slow[u] \cup nodes[u] =>
                   version_[t] > epoch[u] /\ version_[t] \in later[u]

(* The next chunk may be freed. *)
Due(u) ==
    u \notin Registrars =>
        /\ at[u] = "waiting" => Head(chunks[u]).epoch <= epoch[u]
        /\ at[u] = "freeing" => \/ Head(chunks[u]).epoch <= epoch[u]
                                \/ \A e \in later[u] : Head(chunks[u]).epoch < e
        /\ at[u] \in {"closing", "draining"} => \A c \in Queue(u) : c.epoch <= epoch[u]

Unfreed == \A t \in Threads : seen[t] \cap freed = {}

(* What holds whoever waits for which epoch ... *)
GarbageInv ==
    /\ Inv
    /\ EpochTypeOK
    /\ \A t \in Threads : ReadsAreCalled(t) /\ Around(t) /\ Published(t) /\ Ordered(t) /\ Due(t)
    /\ Owned
    /\ Accounted
    /\ \A t, u \in Threads : ReadersAreEarlier(t, u)

(* ... and what the discipline adds. *)
EpochInv ==
    /\ GarbageInv
    /\ \A t, u \in Threads : t # u => Visited(t, u)
    /\ Unfreed
-----------------------------------------------------------------------------
(* The steps of transactions *)

(* What a step of a transaction counts and calls. *)
Counts(t) ==
    /\ clock' = clock \/ FetchAndBumpClock(t)
    /\ done' = done \/ (done'[t] = done[t] + 1 /\ pc'[t] = "idle")
    /\ pc[t] = "publish" =>
           \/ pc'[t] = "publish" /\ UNCHANGED <<done, write_set, displaced, sync_epoch>>
           \/ CommitSucceeded(t)
    /\ ReadsAreCalled(t) => ReadsAreCalled(t)'

LEMMA CountsStep ==
    ASSUME TypeOK, NEW t \in Threads, Step(t)
    PROVE  Counts(t)
<1>1. ASSUME NEW k \in {"read_write", "read_only"}, Invoke(t, k)
      PROVE  Counts(t)
  BY <1>1 DEF Invoke, Goto, shared, sets, call, history, Counts, ReadsAreCalled,
       Reads, TypeOK
<1>2. CASE GetClock(t)
  BY <1>2 DEF GetClock, Goto, shared, sets, call, history, Counts, ReadsAreCalled,
       Reads, TypeOK
<1>3. CASE Retry(t)
  BY <1>3 DEF Retry, Fail, EndAttempt, Returned, Goto, shared, Counts, ReadsAreCalled,
       Reads, TypeOK
<1>4. CASE Throw(t)
  BY <1>4 DEF Throw, Finish, EndAttempt, Returned, Goto, shared, Counts,
       ReadsAreCalled, Reads, TypeOK
<1>5. ASSUME NEW c \in Calls[t], ReadFast(t, c[1], c[2])
      PROVE  Counts(t)
  BY <1>5 DEF ReadFast, Called, Goto, shared, sets, history, Counts, ReadsAreCalled,
       Reads, TypeOK
<1>6. ASSUME NEW c \in Calls[t], WriteFast(t, c[1], c[2])
      PROVE  Counts(t)
  BY <1>6 DEF WriteFast, Called, Goto, shared, sets, history, Counts, ReadsAreCalled,
       Reads, TypeOK
<1>7. ASSUME NEW c \in Calls[t], SlowPath(t, c[1], c[2])
      PROVE  Counts(t)
  BY <1>7 DEF SlowPath, Called, Goto, shared, sets, history, Counts, ReadsAreCalled,
       Reads, TypeOK
<1>8. ASSUME NEW c \in Calls[t], AccessPending(t, c[2])
      PROVE  Counts(t)
  BY <1>8 DEF AccessPending, shared, sets, call, history, Fail, EndAttempt, Returned,
       Goto, Counts, ReadsAreCalled, Reads, TypeOK
<1>9. CASE Displace(t)
  BY <1>9 DEF Displace, Goto, Returned, shared, history, Counts, ReadsAreCalled,
       Reads, TypeOK
<1>10. CASE Reload(t)
  BY <1>10 DEF Reload, Goto, shared, sets, history, Counts, ReadsAreCalled, Reads,
       TypeOK
<1>11. CASE CheckPasses(t)
  BY <1>11 DEF CheckPasses, Goto, Returned, shared, Counts, ReadsAreCalled, Reads,
       TypeOK
<1>12. CASE CheckFails(t)
  BY <1>12 DEF CheckFails, shared, sets, call, history, Fail, EndAttempt, Returned,
       Goto, Counts, ReadsAreCalled, Reads, TypeOK
<1>13. CASE CommitNothing(t)
  BY <1>13 DEF CommitNothing, Finish, EndAttempt, Returned, Goto, shared, Counts,
       ReadsAreCalled, Reads, TypeOK
<1>14. CASE RemoveWritesFromReads(t)
  BY <1>14 DEF RemoveWritesFromReads, Goto, shared, call, history, Counts,
       ReadsAreCalled, Reads, TypeOK
<1>15. ASSUME NEW v \in Vars, LockLoad(t, v)
      PROVE  Counts(t)
  BY <1>15 DEF LockLoad, UnlockFrom, Goto, shared, Commit, sets, history, Counts,
       ReadsAreCalled, Reads, TypeOK
<1>16. CASE LockCas(t)
  BY <1>16 DEF LockCas, UnlockFrom, Goto, Commit, sets, history, Counts,
       ReadsAreCalled, Reads, TypeOK
<1>17. ASSUME NEW v \in Vars, Unlock(t, v)
      PROVE  Counts(t)
  BY <1>17 DEF Unlock, Commit, sets, history, Counts, ReadsAreCalled, Reads, TypeOK
<1>18. CASE CommitFailed(t)
  BY <1>18 DEF CommitFailed, Fail, EndAttempt, Returned, Goto, shared, Counts,
       ReadsAreCalled, Reads, TypeOK
<1>19. CASE AllLocked(t)
  BY <1>19 DEF AllLocked, NextLoop, Goto, shared, Commit, sets, history, Counts,
       ReadsAreCalled, Reads, TypeOK
<1>20. ASSUME NEW v \in Vars, ValidateRead(t, v)
      PROVE  Counts(t)
  BY <1>20 DEF ValidateRead, UnlockFrom, Goto, shared, Commit, sets, history, Counts,
       ReadsAreCalled, Reads, TypeOK
<1>21. CASE AllValid(t)
  BY <1>21 DEF AllValid, NextLoop, Goto, shared, Commit, sets, history, Counts,
       ReadsAreCalled, Reads, TypeOK
<1>22. CASE FetchAndBumpClock(t)
  BY <1>22 DEF FetchAndBumpClock, NextLoop, Goto, Commit, sets, history, Counts,
       ReadsAreCalled, Reads, TypeOK
<1>23. ASSUME NEW v \in Vars, DoWrite(t, v)
      PROVE  Counts(t)
  BY <1>23 DEF DoWrite, Commit, sets, history, Counts, ReadsAreCalled, Reads, TypeOK
<1>24. ASSUME NEW v \in Vars, Publish(t, v)
      PROVE  Counts(t)
  BY <1>24 DEF Publish, WriteVersion, Commit, sets, history, Counts, ReadsAreCalled,
       Reads, TypeOK
<1>25. CASE CommitSucceeded(t)
  BY <1>25 DEF CommitSucceeded, Finish, EndAttempt, Returned, Goto, shared, Counts,
       ReadsAreCalled, Reads, TypeOK
<1> QED BY <1>1, <1>2, <1>3, <1>4, <1>5, <1>6, <1>7, <1>8, <1>9, <1>10, <1>11, <1>12, <1>13,
     <1>14, <1>15, <1>16, <1>17, <1>18, <1>19, <1>20, <1>21, <1>22, <1>23, <1>24,
     <1>25 DEF Step, User, Library

(* A step of the threads is a step of their transactions, or none. *)
LEMMA StepsOfTransactions ==
    ASSUME [EpochNext]_allVars
    PROVE  [Next]_vars
<1>1. ASSUME NEW t \in Threads, EpochStep(t) \/ Start(t) \/ Exit(t) \/ Drain(t)
      PROVE  Step(t) \/ UNCHANGED vars
  <2>1. CASE Start(t) \/ Version(t)
    BY <2>1 DEF Start, Version, Step, User, Library
  <2>2. CASE Inside(t) \/ Abandon(t)
    BY <2>2 DEF Inside, Abandon
  <2>3. CASE EndNothing(t) \/ EndCommit(t)
    BY <2>3 DEF EndNothing, EndCommit, Step, User, Library
  <2>4. CASE AccessLock(t) \/ AccessUnlock(t) \/ Finalize(t)
    BY <2>4 DEF AccessLock, AccessUnlock, Finalize
  <2>5. CASE WaitOnEpoch(t) \/ Synchronized(t) \/ FreeFront(t) \/ Exit(t) \/ Drain(t)
    BY <2>5 DEF WaitOnEpoch, Synchronized, FreeFront, Exit, Drain
  <2>6. ASSUME NEW u \in Threads, Visit(t, u)
        PROVE  UNCHANGED vars
    BY <2>6 DEF Visit
  <2> QED BY <1>1, <2>1, <2>2, <2>3, <2>4, <2>5, <2>6 DEF EpochStep
<1>2. CASE UNCHANGED allVars
  BY <1>2 DEF allVars
<1> QED BY <1>1, <1>2 DEF EpochNext, Next

(* Transactions whose garbage is collected are transactions: what was      *)
(* proved of CommitAlgorithm holds of them.                                *)
THEOREM Transactions == EpochSpec => []Inv
<1>1. EpochInit => Init
  BY DEF EpochInit
<1> QED BY <1>1, InvInit, InvStep, StepsOfTransactions, PTL DEF EpochSpec

-----------------------------------------------------------------------------
(* Types *)

LEMMA StoredType ==
    ASSUME TypeOK
    PROVE  Stored \subseteq Objects
BY DEF TypeOK, Stored, Objects

LEMMA EpochTypeInit == EpochInit => EpochTypeOK
<1> SUFFICES ASSUME EpochInit
             PROVE  EpochTypeOK
  OBVIOUS
<1>1. TypeOK
  BY InvInit DEF EpochInit, Inv
<1>2. stored \subseteq Objects
  BY <1>1, StoredType DEF EpochInit
<1> QED BY <1>2 DEF EpochInit, EpochTypeOK, AtMostOne, Places

LEMMA StoreActiveType ==
    ASSUME EpochTypeOK, NEW t \in Threads, NEW S \in SUBSET Nat, AtMostOne(S), StoreActive(t, S)
    PROVE  /\ active' \in [Threads -> SUBSET Nat]
           /\ buffer' \in [Threads -> Seq(SUBSET Nat)]
           /\ \A u \in Threads : /\ AtMostOne(active'[u])
                                 /\ \A i \in DOMAIN buffer'[u] : AtMostOne(buffer'[u][i])
<1>1. CASE t \in Delayed
  <2>1. active' = active /\ buffer' = [buffer EXCEPT ![t] = Append(@, S)]
    BY <1>1 DEF StoreActive
  <2>2. Append(buffer[t], S) \in Seq(SUBSET Nat)
    BY DEF EpochTypeOK
  <2>3. \A i \in DOMAIN Append(buffer[t], S) : AtMostOne(Append(buffer[t], S)[i])
    <3>1. /\ buffer[t] \in Seq(SUBSET Nat)
          /\ \A i \in DOMAIN buffer[t] : AtMostOne(buffer[t][i])
      BY DEF EpochTypeOK
    <3> QED BY <3>1
  <2> QED BY <2>1, <2>2, <2>3 DEF EpochTypeOK
<1>2. CASE t \notin Delayed
  <2>1. active' = [active EXCEPT ![t] = S] /\ buffer' = buffer
    BY <1>2 DEF StoreActive
  <2>2. /\ active \in [Threads -> SUBSET Nat] /\ buffer \in [Threads -> Seq(SUBSET Nat)]
        /\ \A u \in Threads : /\ AtMostOne(active[u])
                              /\ \A i \in DOMAIN buffer[u] : AtMostOne(buffer[u][i])
    BY DEF EpochTypeOK
  <2> QED BY <2>1, <2>2
<1> QED BY <1>1, <1>2

LEMMA ReplacedType ==
    ASSUME TypeOK, NEW t \in Threads
    PROVE  Replaced(t) \in SUBSET Objects
BY DEF TypeOK, Replaced, Objects

LEMMA WorkingEpochType ==
    ASSUME TypeOK, NEW t \in Threads, NEW e \in Nat, NEW r
    PROVE  WorkingEpoch(t, e, r) \in SUBSET Chunk /\ AtMostOne(WorkingEpoch(t, e, r))
BY ReplacedType DEF WorkingEpoch, Chunk, AtMostOne

LEMMA FinalizedType ==
    ASSUME EpochTypeOK, NEW t \in Threads, working[t] # {}
    PROVE  /\ (CHOOSE c \in working[t] : TRUE) \in Chunk
           /\ working[t] = {CHOOSE c \in working[t] : TRUE}
BY DEF EpochTypeOK, AtMostOne

(* What the steps of a transaction leave alone is typed as before. *)
LEMMA EpochTypeStep ==
    ASSUME TypeOK, TypeOK', EpochTypeOK, \A t \in Threads : Around(t), [EpochNext]_allVars
    PROVE  EpochTypeOK'
<1>1. at' \in [Threads -> Places] /\ stored' \subseteq Objects
  <2>1. \A t \in Threads, from \in Places, to \in Places : Move(t, from, to) => at' \in [Threads -> Places]
    BY DEF EpochTypeOK, Move
  <2>2. at' \in [Threads -> Places]
    BY <2>1 DEF Places, EpochNext, EpochStep, Version, AccessLock, Start, Inside, Abandon,
       EndNothing, EndCommit, AccessUnlock, Finalize, WaitOnEpoch, Synchronized, FreeFront, Visit,
       Exit, Drain, epochVars, allVars, EpochTypeOK
  <2>3. Stored' \subseteq Objects
    BY DEF TypeOK, Stored, Objects
  <2>4. stored' \subseteq stored \cup Stored'
    BY DEF EpochNext, Remember, allVars
  <2> QED BY <2>2, <2>3, <2>4 DEF EpochTypeOK
<1>2. ASSUME NEW t \in Threads, Start(t) \/ Inside(t) \/ Version(t) \/ Abandon(t)
      PROVE  EpochTypeOK'
  <2>1. UNCHANGED <<active, buffer, working, chunks, epoch, nodes, slow, later, freed>>
    BY <1>2 DEF Start, Inside, Version, Abandon, epochVars, sync
  <2> QED BY <1>1, <2>1 DEF EpochTypeOK
<1>3. ASSUME NEW t \in Threads, AccessLock(t) \/ AccessUnlock(t)
      PROVE  EpochTypeOK'
  <2>1. UNCHANGED <<working, chunks, epoch, nodes, slow, later, freed>>
    BY <1>3 DEF AccessLock, AccessUnlock, sync
  <2>2. \E S \in SUBSET Nat : AtMostOne(S) /\ StoreActive(t, S)
    <3>1. {} \in SUBSET Nat /\ AtMostOne({})
      BY DEF AtMostOne
    <3>2. {version_[t]} \in SUBSET Nat /\ AtMostOne({version_[t]})
      BY DEF AtMostOne, TypeOK
    <3> QED BY <1>3, <3>1, <3>2 DEF AccessLock, AccessUnlock
  <2> QED BY <1>1, <2>1, <2>2, StoreActiveType DEF EpochTypeOK
<1>4. ASSUME NEW t \in Threads, EndNothing(t) \/ EndCommit(t)
      PROVE  EpochTypeOK'
  <2>1. UNCHANGED <<active, buffer, chunks, epoch, nodes, slow, later, freed>>
    BY <1>4 DEF EndNothing, EndCommit, sync
  <2>2. \E W \in SUBSET Chunk : AtMostOne(W) /\ working' = [working EXCEPT ![t] = W]
    <3>1. sync_epoch[t] \in Nat
      BY DEF TypeOK
    <3> QED BY <1>4, <3>1, WorkingEpochType DEF EndNothing, EndCommit
  <2> QED BY <1>1, <2>1, <2>2 DEF EpochTypeOK
<1>5. ASSUME NEW t \in Threads, Finalize(t)
      PROVE  EpochTypeOK'
  <2>1. UNCHANGED <<active, buffer, slow, later, freed>>
    BY <1>5 DEF Finalize, Synchronize, sync
  <2>2. \E q \in Seq(Chunk) : chunks' = [chunks EXCEPT ![t] = q] /\ (working[t] # {} => Head(q) \in Chunk)
    <3>1. chunks[t] \in Seq(Chunk)
      BY DEF EpochTypeOK
    <3>2. CASE working[t] = {}
      BY <1>5, <3>1, <3>2 DEF Finalize
    <3>3. CASE working[t] # {}
      <4> DEFINE c == CHOOSE d \in working[t] : TRUE
      <4>1. c \in Chunk /\ chunks' = [chunks EXCEPT ![t] = Append(chunks[t], c)]
        BY <1>5, <3>3, FinalizedType DEF Finalize
      <4>2. Append(chunks[t], c) \in Seq(Chunk) /\ Head(Append(chunks[t], c)) \in Chunk
        <5> HIDE DEF c
        <5> QED BY <3>1, <4>1
      <4> QED BY <4>1, <4>2
    <3> QED BY <3>2, <3>3
  <2>3. chunks' \in [Threads -> Seq(Chunk)] /\ (working[t] # {} => Head(chunks'[t]) \in Chunk)
    BY <2>2 DEF EpochTypeOK
  <2>4. epoch' \in [Threads -> Nat] /\ nodes' \in [Threads -> SUBSET Threads]
    BY <1>5, <2>3 DEF Finalize, Synchronize, sync, Chunk, EpochTypeOK
  <2>5. working' \in [Threads -> SUBSET Chunk] /\ \A u \in Threads : AtMostOne(working'[u])
    BY <1>5 DEF Finalize, EpochTypeOK, AtMostOne
  <2> QED BY <1>1, <2>1, <2>3, <2>4, <2>5 DEF EpochTypeOK
<1>6. ASSUME NEW t \in Threads, NEW u \in Threads, Visit(t, u)
      PROVE  EpochTypeOK'
  <2>1. UNCHANGED <<active, buffer, working, chunks, epoch, freed>>
    BY <1>6 DEF Visit
  <2>2. /\ nodes' \in [Threads -> SUBSET Threads] /\ later' \in [Threads -> SUBSET Nat]
        /\ slow' \in [Threads -> SUBSET Threads] /\ \A w \in Threads : AtMostOne(slow'[w])
    <3>1. \/ slow' = [slow EXCEPT ![t] = {u}] /\ later' = later
          \/ later' = [later EXCEPT ![t] = @ \cup active[u]] /\ slow' = slow
      BY <1>6 DEF Visit
    <3>2. nodes' = [nodes EXCEPT ![t] = @ \ {u}]
      BY <1>6 DEF Visit
    <3>3. /\ nodes \in [Threads -> SUBSET Threads] /\ later \in [Threads -> SUBSET Nat]
          /\ slow \in [Threads -> SUBSET Threads] /\ active[u] \subseteq Nat
          /\ \A w \in Threads : AtMostOne(slow[w])
      BY DEF EpochTypeOK
    <3>4. AtMostOne({u})
      BY DEF AtMostOne
    <3>5. nodes' \in [Threads -> SUBSET Threads]
      BY <3>2, <3>3
    <3>6. later' \in [Threads -> SUBSET Nat]
      <4>1. later[t] \cup active[u] \in SUBSET Nat
        BY <3>3
      <4> QED BY <3>1, <3>3, <4>1
    <3>7. slow' \in [Threads -> SUBSET Threads] /\ \A w \in Threads : AtMostOne(slow'[w])
      <4>1. {u} \in SUBSET Threads
        OBVIOUS
      <4>2. CASE slow' = slow
        BY <3>3, <4>2
      <4>3. CASE slow' = [slow EXCEPT ![t] = {u}]
        <5>1. \A w \in Threads : slow'[w] = {u} \/ slow'[w] = slow[w]
          BY <3>3, <4>3
        <5> QED BY <3>3, <3>4, <4>1, <4>3, <5>1
      <4> QED BY <3>1, <4>2, <4>3
    <3> QED BY <3>5, <3>6, <3>7
  <2> QED BY <1>1, <2>1, <2>2 DEF EpochTypeOK
<1>7. ASSUME NEW t \in Threads, WaitOnEpoch(t) \/ Synchronized(t)
      PROVE  EpochTypeOK'
  <2>1. UNCHANGED <<active, buffer, working, chunks, epoch, nodes, later, freed>>
    BY <1>7 DEF WaitOnEpoch, Synchronized, sync
  <2>2. slow' \in [Threads -> SUBSET Threads] /\ \A w \in Threads : AtMostOne(slow'[w])
    BY <1>7 DEF WaitOnEpoch, Synchronized, sync, EpochTypeOK, AtMostOne
  <2> QED BY <1>1, <2>1, <2>2 DEF EpochTypeOK
<1>8. ASSUME NEW t \in Threads, FreeFront(t)
      PROVE  EpochTypeOK'
  <2>1. UNCHANGED <<active, buffer, working, nodes, slow>>
    BY <1>8 DEF FreeFront, sync
  <2>2. chunks[t] \in Seq(Chunk) /\ chunks[t] # <<>>
    BY <1>8 DEF FreeFront, EpochTypeOK, Around
  <2>3. Head(chunks[t]) \in Chunk /\ Tail(chunks[t]) \in Seq(Chunk)
    BY <2>2
  <2>4. freed' \subseteq Objects /\ chunks' \in [Threads -> Seq(Chunk)]
    BY <1>8, <2>3 DEF FreeFront, Chunk, EpochTypeOK
  <2>5. epoch' \in [Threads -> Nat] /\ later' \in [Threads -> SUBSET Nat]
    <3>1. epoch \in [Threads -> Nat] /\ later \in [Threads -> SUBSET Nat]
      BY DEF EpochTypeOK
    <3>2. \/ epoch' = epoch /\ later' = later
          \/ epoch' = [epoch EXCEPT ![t] = 0] /\ later' = [later EXCEPT ![t] = {}]
      BY <1>8 DEF FreeFront, sync
    <3> QED BY <3>1, <3>2
  <2> QED BY <1>1, <2>1, <2>4, <2>5 DEF EpochTypeOK
<1>9. ASSUME NEW t \in Threads, Exit(t)
      PROVE  EpochTypeOK'
  <2>1. UNCHANGED <<active, buffer, working, chunks, slow, later, freed>>
    BY <1>9 DEF Exit, Synchronize, sync
  <2>2. chunks[t] # <<>> => chunks[t][Len(chunks[t])] \in Chunk
    <3>1. chunks[t] \in Seq(Chunk)
      BY DEF EpochTypeOK
    <3> QED BY <3>1
  <2>3. epoch' \in [Threads -> Nat] /\ nodes' \in [Threads -> SUBSET Threads]
    BY <1>9, <2>2 DEF Exit, Synchronize, sync, EpochTypeOK, Chunk
  <2> QED BY <1>1, <2>1, <2>3 DEF EpochTypeOK
<1>10. ASSUME NEW t \in Threads, Drain(t)
       PROVE  EpochTypeOK'
  <2>1. UNCHANGED <<working, chunks, epoch, nodes, slow, later, freed>>
    BY <1>10 DEF Drain, sync
  <2>2. /\ buffer[t] \in Seq(SUBSET Nat) /\ buffer[t] # <<>>
        /\ \A i \in DOMAIN buffer[t] : AtMostOne(buffer[t][i])
    BY <1>10 DEF Drain, EpochTypeOK
  <2>3. /\ Head(buffer[t]) \in SUBSET Nat /\ AtMostOne(Head(buffer[t]))
        /\ Tail(buffer[t]) \in Seq(SUBSET Nat)
        /\ \A i \in DOMAIN Tail(buffer[t]) : AtMostOne(Tail(buffer[t])[i])
    BY <2>2
  <2>4. /\ active' \in [Threads -> SUBSET Nat] /\ buffer' \in [Threads -> Seq(SUBSET Nat)]
        /\ \A u \in Threads : AtMostOne(active'[u]) /\ \A i \in DOMAIN buffer'[u] : AtMostOne(buffer'[u][i])
    <3>1. /\ active \in [Threads -> SUBSET Nat] /\ buffer \in [Threads -> Seq(SUBSET Nat)]
          /\ \A u \in Threads : AtMostOne(active[u]) /\ \A i \in DOMAIN buffer[u] : AtMostOne(buffer[u][i])
      BY DEF EpochTypeOK
    <3>2. /\ active' = [active EXCEPT ![t] = Head(buffer[t])]
          /\ buffer' = [buffer EXCEPT ![t] = Tail(buffer[t])]
      BY <1>10 DEF Drain
    <3> QED BY <2>3, <3>1, <3>2
  <2> QED BY <1>1, <2>1, <2>4 DEF EpochTypeOK
<1>11. CASE UNCHANGED allVars
  BY <1>11 DEF allVars, epochVars, sync, EpochTypeOK
<1> QED BY <1>2, <1>3, <1>4, <1>5, <1>6, <1>7, <1>8, <1>9, <1>10, <1>11 DEF EpochNext, EpochStep

-----------------------------------------------------------------------------
(* Threads around and inside of their transactions *)

Acts(t) == EpochStep(t) \/ Start(t) \/ Exit(t) \/ Drain(t)

EpochSame(u) ==
    /\ at'[u] = at[u] /\ active'[u] = active[u] /\ buffer'[u] = buffer[u]
    /\ working'[u] = working[u] /\ chunks'[u] = chunks[u]
    /\ epoch'[u] = epoch[u] /\ nodes'[u] = nodes[u] /\ slow'[u] = slow[u] /\ later'[u] = later[u]

LEMMA EpochFrame ==
    ASSUME EpochTypeOK, NEW t \in Threads, Acts(t), NEW u \in Threads, u # t
    PROVE  EpochSame(u)
<1>1. at'[u] = at[u]
  BY DEF Acts, EpochStep, Version, AccessLock, Start, Inside, Abandon, EndNothing, EndCommit,
     AccessUnlock, Finalize, WaitOnEpoch, Synchronized, FreeFront, Visit, Exit, Drain, Move, epochVars,
     EpochTypeOK
<1>2. active'[u] = active[u] /\ buffer'[u] = buffer[u]
  BY DEF Acts, EpochStep, Version, AccessLock, Start, Inside, Abandon, EndNothing, EndCommit,
     AccessUnlock, Finalize, WaitOnEpoch, Synchronized, FreeFront, Visit, Exit, Drain, StoreActive,
     epochVars, EpochTypeOK
<1>3. working'[u] = working[u] /\ chunks'[u] = chunks[u]
  BY DEF Acts, EpochStep, Version, AccessLock, Start, Inside, Abandon, EndNothing, EndCommit,
     AccessUnlock, Finalize, WaitOnEpoch, Synchronized, FreeFront, Visit, Exit, Drain,
     epochVars, EpochTypeOK
<1>4. epoch'[u] = epoch[u] /\ nodes'[u] = nodes[u] /\ slow'[u] = slow[u] /\ later'[u] = later[u]
  BY DEF Acts, EpochStep, Version, AccessLock, Start, Inside, Abandon, EndNothing, EndCommit,
     AccessUnlock, Finalize, WaitOnEpoch, Synchronized, FreeFront, Visit, Exit, Drain, Synchronize,
     sync, epochVars, EpochTypeOK
<1> QED BY <1>1, <1>2, <1>3, <1>4 DEF EpochSame

LEMMA ActsOnTransactions ==
    ASSUME NEW t \in Threads, Acts(t)
    PROVE  Step(t) \/ UNCHANGED vars
BY DEF Acts, EpochStep, Start, Version, Inside, Abandon, EndNothing, EndCommit, AccessLock,
   AccessUnlock, Finalize, WaitOnEpoch, Synchronized, FreeFront, Exit, Drain, Visit, Step, User, Library

LEMMA SameTransaction ==
    ASSUME TypeOK, NEW t \in Threads, Acts(t), NEW u \in Threads, u # t
    PROVE  Same(u)
<1>1. CASE UNCHANGED vars
  BY <1>1 DEF vars, sets, call, history, Same
<1> QED BY <1>1, ActsOnTransactions, Frame

LEMMA ReadsAreCalledStep ==
    ASSUME TypeOK, NEW t \in Threads, Acts(t), \A u \in Threads : ReadsAreCalled(u)
    PROVE  \A u \in Threads : ReadsAreCalled(u)'
<1>1. CASE UNCHANGED vars
  BY <1>1 DEF vars, history, call, ReadsAreCalled, Reads
<1>2. ASSUME Step(t), NEW u \in Threads, u # t
      PROVE  ReadsAreCalled(u)'
  BY <1>2, Frame DEF Same, ReadsAreCalled, Reads
<1> QED BY <1>1, <1>2, CountsStep, ActsOnTransactions DEF Counts

LEMMA AroundStep ==
    ASSUME TypeOK, EpochTypeOK, \A u \in Threads : Progress(u) /\ Around(u),
           NEW t \in Threads, Acts(t)
    PROVE  \A u \in Threads : Around(u)'
<1>1. ASSUME NEW u \in Threads, u # t
      PROVE  Around(u)'
  <2>1. pc'[u] = pc[u] /\ seen'[u] = seen[u]
    BY <1>1, SameTransaction DEF Same
  <2>2. Around(u)
    OBVIOUS
  <2> QED BY <1>1, <2>1, <2>2, EpochFrame DEF EpochSame, Around
<1>2. Around(t)'
  <2> Around(t) /\ Progress(t)
    OBVIOUS
  <2> at \in [Threads -> Places] /\ working \in [Threads -> SUBSET Chunk] /\ pc \in [Threads -> Labels]
    BY DEF EpochTypeOK, TypeOK
  <2>1. CASE Start(t) \/ Inside(t)
    BY <2>1 DEF Start, Inside, Invoke, Goto, epochVars, sync, Around, shared, history
  <2>2. CASE Version(t)
    <3>1. pc'[t] = "run" /\ seen'[t] = {}
      BY <2>2 DEF Version, GetClock, Goto, Progress, Attempting
    <3> QED BY <2>2, <3>1 DEF Version, Move, Around, sync, Waiting
  <2>3. CASE AccessLock(t)
    BY <2>3 DEF AccessLock, Move, Around, sync, Waiting, vars
  <2>4. CASE Abandon(t)
    <3>1. pc'[t] \in {"idle", "top"}
      BY <2>4 DEF Abandon, Throw, Finish, Goto
    <3> QED BY <2>4, <3>1 DEF Abandon, Move, Around, sync, Waiting
  <2>5. CASE EndNothing(t) \/ EndCommit(t)
    <3>1. pc'[t] = "idle"
      BY <2>5 DEF EndNothing, EndCommit, CommitNothing, CommitSucceeded, Finish, Goto
    <3> QED BY <2>5, <3>1 DEF EndNothing, EndCommit, Move, Around, sync, Waiting
  <2>6. CASE AccessUnlock(t)
    BY <2>6 DEF AccessUnlock, Move, Around, sync, Waiting, vars
  <2>7. CASE Finalize(t)
    <3>1. working[t] # {} => chunks'[t] # <<>>
      <4>1. chunks[t] \in Seq(Chunk)
        BY DEF EpochTypeOK
      <4>2. \A c : Append(chunks[t], c) # <<>>
        BY <4>1
      <4> QED BY <2>7, <4>2 DEF Finalize, EpochTypeOK
    <3>2. /\ working'[t] = {} /\ UNCHANGED slow
          /\ \/ at'[t] = "out" /\ pc[t] = "idle"
             \/ at'[t] = "waiting" /\ pc[t] = "idle" /\ working[t] # {}
          /\ at[t] \notin Waiting
      BY <2>7 DEF Finalize, Move, Around, sync, Waiting, Synchronize
    <3>3. pc'[t] = pc[t]
      BY <2>7 DEF Finalize, vars
    <3> QED BY <3>1, <3>2, <3>3 DEF Around, Waiting
  <2>8. ASSUME NEW u \in Threads, Visit(t, u)
        PROVE  Around(t)'
    BY <2>8 DEF Visit, Around, Waiting, vars
  <2>9. CASE WaitOnEpoch(t) \/ Synchronized(t)
    BY <2>9 DEF WaitOnEpoch, Synchronized, Move, Around, sync, Waiting, vars, EpochTypeOK
  <2>10. CASE FreeFront(t)
    BY <2>10 DEF FreeFront, GoesOn, Move, Around, sync, Waiting, vars, EpochTypeOK
  <2>11. CASE Exit(t)
    BY <2>11 DEF Exit, Synchronize, Move, Around, sync, Waiting, vars
  <2>12. CASE Drain(t)
    BY <2>12 DEF Drain, Around, sync, Waiting, vars, history
  <2> QED BY <2>1, <2>2, <2>3, <2>4, <2>5, <2>6, <2>7, <2>8, <2>9, <2>10, <2>11, <2>12 DEF Acts, EpochStep
<1> QED BY <1>1, <1>2

LEMMA PublishedStep ==
    ASSUME TypeOK, EpochTypeOK, \A u \in Threads : Around(u) /\ Published(u),
           NEW t \in Threads, Acts(t)
    PROVE  \A u \in Threads : Published(u)'
<1>1. ASSUME NEW u \in Threads, u # t
      PROVE  Published(u)'
  <2>1. version_'[u] = version_[u]
    BY <1>1, SameTransaction DEF Same
  <2> QED BY <1>1, <2>1, EpochFrame DEF EpochSame, Published
<1>2. ASSUME t \notin Delayed
      PROVE  Published(t)'
  <2> Published(t) /\ Around(t) /\ buffer[t] = <<>>
    BY <1>2 DEF Published
  <2> at \in [Threads -> Places] /\ active \in [Threads -> SUBSET Nat]
    BY DEF EpochTypeOK
  <2>1. CASE Start(t)
    BY <2>1 DEF Start, Around, epochVars, Published
  <2>2. CASE Version(t) \/ Abandon(t)
    BY <2>2 DEF Version, Abandon, Move, Published
  <2>3. CASE AccessLock(t)
    BY <1>2, <2>3 DEF AccessLock, StoreActive, Move, Published, vars
  <2>4. CASE Inside(t)
    <3>1. version_'[t] = version_[t]
      <4>1. pc[t] \notin {"idle", "top"} /\ pc'[t] \notin {"idle", "top"} /\ Step(t)
        BY <2>4 DEF Inside, Around
      <4> QED BY <4>1, ReadStepLemma DEF ReadStep, Attempting
    <3> QED BY <2>4, <3>1 DEF Inside, epochVars, Published
  <2>5. CASE EndNothing(t) \/ EndCommit(t)
    BY <2>5 DEF EndNothing, EndCommit, Move, Published
  <2>6. CASE AccessUnlock(t)
    BY <1>2, <2>6 DEF AccessUnlock, StoreActive, Move, Published
  <2>7. CASE Finalize(t)
    BY <2>7 DEF Finalize, Move, Published
  <2>8. ASSUME NEW u \in Threads, Visit(t, u)
        PROVE  Published(t)'
    BY <2>8 DEF Visit, Published, vars
  <2>9. CASE WaitOnEpoch(t) \/ Synchronized(t)
    BY <2>9 DEF WaitOnEpoch, Synchronized, Move, Published, vars
  <2>10. CASE FreeFront(t)
    BY <2>10 DEF FreeFront, Move, Published, vars
  <2>11. CASE Exit(t)
    BY <2>11 DEF Exit, Move, Published
  <2>12. CASE Drain(t)
    BY <2>12 DEF Drain
  <2> QED BY <2>1, <2>2, <2>3, <2>4, <2>5, <2>6, <2>7, <2>8, <2>9, <2>10, <2>11, <2>12 DEF Acts, EpochStep
<1> QED BY <1>1, <1>2 DEF Published

-----------------------------------------------------------------------------
(* What is replaced has one owner *)

(* Between its locks and its epoch a commit retires what it overwrites, a  *)
(* variable at a time, and stores what was never stored before.            *)
RetireEffect(t) ==
    /\ \A v \in Vars, s \in Storage : Unborn(v, s)' => Unborn(v, s)
    /\ \/ /\ storage' = storage /\ Retiring(t)' = Retiring(t)
          /\ pc[t] = "publish" => pc'[t] = "publish"
       \/ /\ storage' = storage /\ Retiring(t)' = {} /\ Retiring(t) = Replaced(t)
          /\ pc[t] = "publish" /\ CommitSucceeded(t)
       \/ /\ pc[t] = "write"
          /\ \E w \in Vars :
              /\ storage' = [storage EXCEPT ![w] = Fresh(t)]
              /\ Retiring(t)' = Retiring(t) \cup {<<v, storage[v]>> : v \in {w} \ AtomicVars}
              /\ Unborn(w, Fresh(t)) /\ ~Unborn(w, storage[w])'

LEMMA RetireStep ==
    ASSUME Inv, NEW t \in Threads, Step(t)
    PROVE  RetireEffect(t)
<1>1. TypeOK /\ Progress(t) /\ FreesWhatItReplaces
  BY DEF Inv, VersionsTellContents
<1>2. /\ \A u \in Threads \ {t} : /\ pc'[u] = pc[u] /\ done'[u] = done[u]
                                  /\ write_set'[u] = write_set[u] /\ todo'[u] = todo[u]
  BY <1>1, Frame DEF Same
<1>3. Counts(t)
  BY <1>1, CountsStep
<1>4. done[t] \in Nat /\ done'[t] \in {done[t], done[t] + 1}
  BY <1>1, <1>3 DEF Counts, TypeOK
<1>5. ASSUME Quiet(t), pc[t] # "publish"
      PROVE  RetireEffect(t)
  <2>1. Retiring(t) = {} /\ Retiring(t)' = {}
    BY <1>5 DEF Quiet, Retiring
  <2>2. ASSUME NEW v \in Vars, NEW s \in Storage, Unborn(v, s)'
        PROVE  Unborn(v, s)
    <3>1. s[2] \in Nat /\ pc[t] \notin {"write", "publish"}
      BY <1>5 DEF Storage, Quiet
    <3>2. CASE s[1] = t
      BY <1>4, <2>2, <3>1, <3>2 DEF Unborn
    <3>3. CASE s[1] # t
      BY <1>2, <2>2, <3>3 DEF Unborn
    <3> QED BY <3>2, <3>3
  <2> QED BY <1>5, <2>1, <2>2 DEF RetireEffect, Quiet
<1>6. ASSUME CommitSucceeded(t)
      PROVE  RetireEffect(t)
  <2>1. /\ pc[t] = "publish" /\ pc'[t] = "idle" /\ done'[t] = done[t] + 1 /\ storage' = storage
    BY <1>1, <1>6 DEF CommitSucceeded, Finish, Goto, EndAttempt, shared, TypeOK
  <2>2. Retiring(t) = Replaced(t) /\ Retiring(t)' = {}
    BY <2>1 DEF Retiring, Replaced
  <2>3. ASSUME NEW v \in Vars, NEW s \in Storage, Unborn(v, s)'
        PROVE  Unborn(v, s)
    <3>1. CASE s[1] = t
      <4>1. s[2] \in Nat
        BY DEF Storage
      <4> QED BY <1>4, <2>1, <2>3, <3>1, <4>1 DEF Unborn
    <3>2. CASE s[1] # t
      BY <1>2, <2>3, <3>2 DEF Unborn
    <3> QED BY <3>1, <3>2
  <2> QED BY <1>6, <2>1, <2>2, <2>3 DEF RetireEffect
<1>7. ASSUME AllValid(t)
      PROVE  RetireEffect(t)
  <2>1. /\ pc[t] = "validate" /\ pc'[t] = "write" /\ todo'[t] = write_set[t]
        /\ UNCHANGED <<storage, done, write_set>>
    BY <1>1, <1>7 DEF AllValid, NextLoop, Goto, shared, Commit, sets, TypeOK
  <2>2. Retiring(t) = {} /\ Retiring(t)' = {}
    BY <2>1 DEF Retiring
  <2>3. ASSUME NEW v \in Vars, NEW s \in Storage, Unborn(v, s)'
        PROVE  Unborn(v, s)
    BY <1>2, <2>1, <2>3 DEF Unborn
  <2> QED BY <2>1, <2>2, <2>3 DEF RetireEffect
<1>8. ASSUME FetchAndBumpClock(t)
      PROVE  RetireEffect(t)
  <2>1. /\ pc[t] = "write" /\ pc'[t] = "publish" /\ todo[t] = {}
        /\ UNCHANGED <<storage, done, write_set, displaced>>
    BY <1>1, <1>8 DEF FetchAndBumpClock, NextLoop, Goto, Commit, sets, TypeOK
  <2>2. Retiring(t)' = Retiring(t)
    BY <2>1 DEF Retiring
  <2>3. ASSUME NEW v \in Vars, NEW s \in Storage, Unborn(v, s)'
        PROVE  Unborn(v, s)
    BY <1>2, <2>1, <2>3 DEF Unborn
  <2> QED BY <2>1, <2>2, <2>3 DEF RetireEffect
<1>9. ASSUME NEW w \in Vars, DoWrite(t, w)
      PROVE  RetireEffect(t)
  <2>1. /\ pc[t] = "write" /\ pc' = pc /\ w \in todo[t] /\ w \in write_set[t]
        /\ todo'[t] = todo[t] \ {w} /\ storage' = [storage EXCEPT ![w] = Fresh(t)]
        /\ UNCHANGED <<done, write_set, displaced>>
    BY <1>1, <1>9 DEF DoWrite, Commit, sets, Progress, TypeOK
  <2>2. w \notin AtomicVars => displaced[t][w] = storage[w]
    BY <1>1, <2>1 DEF FreesWhatItReplaces
  <2>3. Retiring(t)' = Retiring(t) \cup {<<v, storage[v]>> : v \in {w} \ AtomicVars}
    BY <2>1, <2>2 DEF Retiring
  <2>4. ASSUME NEW v \in Vars, NEW s \in Storage, Unborn(v, s)'
        PROVE  Unborn(v, s)
    BY <1>2, <2>1, <2>4 DEF Unborn
  <2>5. Unborn(w, Fresh(t)) /\ ~Unborn(w, storage[w])'
    <3>1. storage'[w] = Fresh(t)
      BY <1>1, <2>1 DEF TypeOK
    <3> QED BY <1>1, <1>4, <2>1, <3>1 DEF Unborn, Fresh
  <2> QED BY <2>1, <2>3, <2>4, <2>5 DEF RetireEffect
<1>10. ASSUME NEW w \in Vars, Publish(t, w)
       PROVE  RetireEffect(t)
  <2>1. /\ pc[t] = "publish" /\ pc' = pc
        /\ UNCHANGED <<storage, done, write_set, displaced>>
    BY <1>1, <1>10 DEF Publish, Commit, sets
  <2>2. Retiring(t)' = Retiring(t)
    BY <2>1 DEF Retiring
  <2>3. ASSUME NEW v \in Vars, NEW s \in Storage, Unborn(v, s)'
        PROVE  Unborn(v, s)
    BY <1>2, <2>1, <2>3 DEF Unborn
  <2> QED BY <2>1, <2>2, <2>3 DEF RetireEffect
<1>11. pc[t] = "publish" => CommitSucceeded(t) \/ ~Quiet(t)
  BY <1>3 DEF Counts, Quiet
<1> QED BY <1>1, <1>5, <1>6, <1>7, <1>8, <1>9, <1>10, <1>11, QuietStep

LEMMA GarbageIs ==
    ASSUME NEW t, NEW o
    PROVE  o \in Garbage(t) <=> \E c \in Epochs(t) : o \in c.objects
BY DEF Garbage, Epochs, Queue

LEMMA RetiredTypes ==
    ASSUME TypeOK, EpochTypeOK, NEW t \in Threads
    PROVE  /\ Epochs(t) \subseteq Chunk /\ Queue(t) \subseteq Chunk
           /\ Retired(t) \subseteq Objects /\ Replaced(t) \subseteq Objects
<1>1. Epochs(t) \subseteq Chunk /\ Queue(t) \subseteq Chunk
  BY DEF EpochTypeOK, Epochs, Queue
<1>2. Garbage(t) \subseteq Objects
  BY <1>1, GarbageIs DEF Chunk
<1>3. Retiring(t) \subseteq Objects
  BY DEF Retiring, Objects, TypeOK
<1> QED BY <1>1, <1>2, <1>3, ReplacedType DEF Retired

(* A step that moves no garbage. *)
LEMMA OwnedByRetiring ==
    ASSUME TypeOK, EpochTypeOK, Owned, NEW t \in Threads,
           RetireEffect(t), pc[t] = "publish" => pc'[t] = "publish",
           \A u \in Threads \ {t} : Retiring(u)' = Retiring(u),
           UNCHANGED <<working, chunks, freed>>
    PROVE  Owned'
<1>1. \A u \in Threads : Garbage(u)' = Garbage(u)
  BY DEF Garbage
<1>2. /\ \A u \in Threads : Retired(u) \subseteq Objects
      /\ freed \subseteq Objects /\ storage \in [Vars -> Storage]
  BY RetiredTypes DEF EpochTypeOK, TypeOK
<1>3. \A o \in Objects : o[1] \in Vars /\ o[2] \in Storage /\ o = <<o[1], o[2]>>
  BY DEF Objects
<1>4. \A v \in Vars, s \in Storage : Unborn(v, s)' => Unborn(v, s)
  BY DEF RetireEffect
<1>5. CASE storage' = storage /\ Retiring(t)' = Retiring(t)
  <2>1. \A u \in Threads : Retiring(u)' = Retiring(u) /\ Retired(u)' = Retired(u)
    BY <1>1, <1>5 DEF Retired
  <2> QED BY <1>1, <1>2, <1>3, <1>4, <1>5, <2>1 DEF Owned
<1>6. ASSUME pc[t] = "write", NEW w \in Vars,
             storage' = [storage EXCEPT ![w] = Fresh(t)],
             Retiring(t)' = Retiring(t) \cup {<<v, storage[v]>> : v \in {w} \ AtomicVars},
             Unborn(w, Fresh(t)), ~Unborn(w, storage[w])'
      PROVE  Owned'
  <2> DEFINE new == {<<v, storage[v]>> : v \in {w} \ AtomicVars}
  <2>1. /\ Retired(t)' = Retired(t) \cup new
        /\ \A u \in Threads \ {t} : Retired(u)' = Retired(u)
    BY <1>1, <1>6 DEF Retired
  <2>2. new \cap freed = {} /\ \A u \in Threads : new \cap Retired(u) = {}
    BY DEF Owned
  <2>3. \A u, a \in Threads : u # a => Retired(u)' \cap Retired(a)' = {}
    BY <2>1, <2>2 DEF Owned
  <2>4. ASSUME NEW u \in Threads
        PROVE  Retired(u)' \cap freed = {} /\ Garbage(u)' \cap Retiring(u)' = {}
    BY <1>1, <1>6, <2>1, <2>2 DEF Owned, Retired
  <2>5. \A v \in Vars : storage'[v] = storage[v] \/ (v = w /\ storage'[v] = Fresh(t))
    BY <1>2, <1>6
  <2>6. Fresh(t) \in Storage
    BY DEF Fresh, Storage, TypeOK
  <2>7. ASSUME NEW v \in Vars \ AtomicVars, NEW u \in Threads
        PROVE  <<v, storage'[v]>> \notin freed \cup Retired(u)'
    <3>1. CASE v = w
      <4>1. storage'[v] = Fresh(t)
        BY <1>2, <1>6, <3>1
      <4>2. <<v, Fresh(t)>> \notin freed \cup Retired(u)
        BY <1>6, <3>1 DEF Owned
      <4>3. Fresh(t) # storage[w]
        BY <1>6 DEF Owned
      <4> QED BY <2>1, <3>1, <4>1, <4>2, <4>3
    <3>2. CASE v # w
      <4>1. storage'[v] = storage[v]
        BY <1>2, <1>6, <3>2
      <4>2. <<v, storage[v]>> \notin new /\ <<v, storage[v]>> \notin freed \cup Retired(u)
        BY <3>2 DEF Owned
      <4> QED BY <2>1, <4>1, <4>2
    <3> QED BY <3>1, <3>2
  <2>8. ASSUME NEW v \in Vars
        PROVE  ~Unborn(v, storage[v])'
    <3>1. CASE v = w
      BY <1>6, <3>1
    <3>2. CASE v # w
      <4>1. storage'[v] = storage[v] /\ storage[v] \in Storage /\ ~Unborn(v, storage[v])
        BY <1>2, <1>6, <3>2 DEF Owned
      <4> QED BY <1>4, <4>1 DEF Unborn
    <3> QED BY <3>1, <3>2
  <2>9. \A u \in Threads : \A o \in freed \cup Retired(u)' :
            o[1] \notin AtomicVars /\ ~Unborn(o[1], o[2])'
    <3>1. \A o \in new : /\ o[1] \in Vars \ AtomicVars /\ o[2] \in Storage
                         /\ ~Unborn(o[1], o[2])
      BY <1>2 DEF Owned
    <3> QED BY <1>2, <1>3, <1>4, <2>1, <3>1 DEF Owned
  <2> QED BY <2>3, <2>4, <2>7, <2>8, <2>9 DEF Owned
<1> QED BY <1>5, <1>6 DEF RetireEffect, CommitSucceeded, Finish, Goto, TypeOK

(* The end of a successful attempt: what it retires becomes garbage. *)
LEMMA OwnedByWorking ==
    ASSUME TypeOK, EpochTypeOK, Owned, NEW t \in Threads,
           \A v \in Vars, s \in Storage : Unborn(v, s)' => Unborn(v, s),
           UNCHANGED <<storage, chunks, freed>>,
           \A u \in Threads \ {t} : Retiring(u)' = Retiring(u) /\ working'[u] = working[u],
           \A c \in working'[t] : c.objects \subseteq Retiring(t),
           Retiring(t)' = {}
    PROVE  Owned'
<1>1. \A u \in Threads \ {t} : Garbage(u)' = Garbage(u) /\ Retired(u)' = Retired(u)
  BY DEF Garbage, Retired
<1>2. Garbage(t)' \subseteq Retired(t) /\ Retired(t)' \subseteq Retired(t)
  <2>1. \A c \in Epochs(t)' : c.objects \subseteq Retired(t)
    <3>1. \A c \in Queue(t) : c.objects \subseteq Garbage(t)
      BY GarbageIs DEF Epochs
    <3> QED BY <3>1 DEF Epochs, Queue, Retired
  <2>2. \A o : o \in Garbage(t)' => \E c \in Epochs(t)' : o \in c.objects
    BY DEF Garbage, Epochs, Queue
  <2> QED BY <2>1, <2>2 DEF Retired
<1>3. \A u \in Threads : Retired(u)' \subseteq Retired(u)
  BY <1>1, <1>2
<1>4. /\ \A u \in Threads : Retired(u) \subseteq Objects
      /\ freed \subseteq Objects /\ storage \in [Vars -> Storage]
      /\ \A o \in Objects : o[1] \in Vars /\ o[2] \in Storage
  BY RetiredTypes DEF EpochTypeOK, TypeOK, Objects
<1>5. \A u, a \in Threads : u # a => Retired(u)' \cap Retired(a)' = {}
  BY <1>3 DEF Owned
<1>6. ASSUME NEW u \in Threads
      PROVE  /\ Retired(u)' \cap freed' = {}
             /\ Garbage(u)' \cap Retiring(u)' = {}
             /\ \A i, j \in DOMAIN chunks'[u] : i # j =>
                    chunks'[u][i].objects \cap chunks'[u][j].objects = {}
             /\ \A i \in DOMAIN chunks'[u] : \A c \in working'[u] :
                    chunks'[u][i].objects \cap c.objects = {}
  <2>1. Retired(u)' \cap freed' = {} /\ Garbage(u)' \cap Retiring(u)' = {}
    BY <1>1, <1>3 DEF Owned
  <2>2. \A i \in DOMAIN chunks[u] : \A c \in working'[u] : chunks[u][i].objects \cap c.objects = {}
    <3>1. \A i \in DOMAIN chunks[u] : chunks[u][i].objects \subseteq Garbage(u)
      BY DEF Garbage
    <3>2. Garbage(t) \cap Retiring(t) = {}
      BY DEF Owned
    <3>3. CASE u = t
      BY <3>1, <3>2, <3>3
    <3>4. CASE u # t
      BY <3>4 DEF Owned
    <3> QED BY <3>3, <3>4
  <2> QED BY <2>1, <2>2 DEF Owned
<1>7. \A v \in Vars \ AtomicVars : \A u \in Threads : <<v, storage'[v]>> \notin freed' \cup Retired(u)'
  BY <1>3 DEF Owned
<1>8. /\ \A v \in Vars : ~Unborn(v, storage[v])'
      /\ \A u \in Threads : \A o \in freed' \cup Retired(u)' :
             o[1] \notin AtomicVars /\ ~Unborn(o[1], o[2])'
  BY <1>3, <1>4 DEF Owned
<1> QED BY <1>5, <1>6, <1>7, <1>8 DEF Owned

(* What is done to the queue of a thread while no transaction moves. *)
LEMMA StillUnborn ==
    ASSUME UNCHANGED vars
    PROVE  /\ \A v, s : Unborn(v, s)' = Unborn(v, s)
           /\ \A u \in Threads : Retiring(u)' = Retiring(u)
           /\ storage' = storage
<1>1. \A v, s : Unborn(v, s)' = Unborn(v, s)
  BY DEF Unborn, vars, sets
<1>2. \A u \in Threads : Retiring(u)' = Retiring(u)
  BY DEF Retiring, vars, sets
<1> QED BY <1>1, <1>2 DEF vars, shared

LEMMA AppendIs ==
    ASSUME NEW q \in Seq(Chunk), NEW c \in Chunk
    PROVE  /\ Append(q, c) \in Seq(Chunk)
           /\ DOMAIN Append(q, c) = DOMAIN q \cup {Len(q) + 1}
           /\ Append(q, c)[Len(q) + 1] = c
           /\ \A i \in DOMAIN q : i \in 1..Len(q) /\ Append(q, c)[i] = q[i]
OBVIOUS

LEMMA TailIs ==
    ASSUME NEW q \in Seq(Chunk), q # <<>>
    PROVE  /\ Tail(q) \in Seq(Chunk) /\ Head(q) = q[1] /\ 1 \in DOMAIN q
           /\ \A i \in DOMAIN Tail(q) :
                  i \in Nat \ {0} /\ i + 1 \in DOMAIN q /\ Tail(q)[i] = q[i + 1]
           /\ \A i \in DOMAIN q : i # 1 => i - 1 \in DOMAIN Tail(q) /\ q[i] = Tail(q)[i - 1]
OBVIOUS

(* The queue of t after Finalize. *)
LEMMA FinalizedQueue ==
    ASSUME EpochTypeOK, NEW t \in Threads, Finalize(t)
    PROVE  /\ working'[t] = {} /\ UNCHANGED <<vars, active, buffer, freed, slow, later>>
           /\ \/ working[t] = {} /\ chunks'[t] = chunks[t]
              \/ \E c \in working[t] : c \in Chunk /\ working[t] = {c}
                                         /\ chunks'[t] = Append(chunks[t], c)
           /\ Epochs(t)' = Epochs(t)
<1>1. working'[t] = {} /\ UNCHANGED <<vars, active, buffer, freed, slow, later>>
  BY DEF Finalize, Synchronize, sync, EpochTypeOK
<1>2. CASE working[t] = {}
  <2>1. chunks'[t] = chunks[t]
    BY <1>2 DEF Finalize, EpochTypeOK
  <2> QED BY <1>1, <1>2, <2>1 DEF Epochs, Queue
<1>3. CASE working[t] # {}
  <2> DEFINE c == CHOOSE d \in working[t] : TRUE
  <2>1. c \in Chunk /\ working[t] = {c}
    BY <1>3, FinalizedType
  <2>2. chunks'[t] = Append(chunks[t], c)
    BY <1>3 DEF Finalize, EpochTypeOK
  <2>3. chunks[t] \in Seq(Chunk)
    BY DEF EpochTypeOK
  <2> HIDE DEF c
  <2>4. Epochs(t)' = Epochs(t)
    BY <1>1, <2>1, <2>2, <2>3, AppendIs DEF Epochs, Queue
  <2> QED BY <1>1, <2>1, <2>2, <2>4
<1> QED BY <1>2, <1>3

LEMMA OwnedByFinalize ==
    ASSUME EpochTypeOK, Owned, NEW t \in Threads, Finalize(t),
           \A u \in Threads \ {t} : EpochSame(u)
    PROVE  Owned'
<1>1. /\ working'[t] = {} /\ UNCHANGED <<vars, freed>>
      /\ \/ working[t] = {} /\ chunks'[t] = chunks[t]
         \/ \E c \in working[t] : c \in Chunk /\ working[t] = {c}
                                    /\ chunks'[t] = Append(chunks[t], c)
      /\ Epochs(t)' = Epochs(t)
  BY FinalizedQueue
<1>2. /\ \A v, s : Unborn(v, s)' = Unborn(v, s)
      /\ \A u \in Threads : Retiring(u)' = Retiring(u)
      /\ storage' = storage
  BY <1>1, StillUnborn
<1>3. \A u \in Threads : Garbage(u)' = Garbage(u)
  <2>1. \A u \in Threads \ {t} : Garbage(u)' = Garbage(u)
    BY DEF Garbage, EpochSame
  <2>2. Garbage(t)' = Garbage(t)
    <3>1. \A o : o \in Garbage(t) <=> \E c \in Epochs(t) : o \in c.objects
      BY GarbageIs
    <3>2. \A o : o \in Garbage(t)' <=> \E c \in Epochs(t)' : o \in c.objects
      BY DEF Garbage, Epochs, Queue
    <3> QED BY <1>1, <3>1, <3>2
  <2> QED BY <2>1, <2>2
<1>4. \A u \in Threads : Retired(u)' = Retired(u)
  BY <1>2, <1>3 DEF Retired
<1>5. ASSUME NEW u \in Threads
      PROVE  /\ \A i, j \in DOMAIN chunks'[u] : i # j =>
                    chunks'[u][i].objects \cap chunks'[u][j].objects = {}
             /\ \A i \in DOMAIN chunks'[u] : \A c \in working'[u] :
                    chunks'[u][i].objects \cap c.objects = {}
  <2>1. CASE u # t
    BY <2>1 DEF Owned, EpochSame
  <2>2. CASE u = t /\ chunks'[t] = chunks[t]
    BY <1>1, <2>2 DEF Owned
  <2>3. ASSUME u = t, NEW c \in working[t], c \in Chunk, chunks'[t] = Append(chunks[t], c)
        PROVE  /\ \A i, j \in DOMAIN chunks'[t] : i # j =>
                      chunks'[t][i].objects \cap chunks'[t][j].objects = {}
    <3>1. chunks[t] \in Seq(Chunk)
      BY DEF EpochTypeOK
    <3>2. /\ DOMAIN chunks'[t] = DOMAIN chunks[t] \cup {Len(chunks[t]) + 1}
          /\ chunks'[t][Len(chunks[t]) + 1] = c
          /\ \A i \in DOMAIN chunks[t] : chunks'[t][i] = chunks[t][i]
      BY <2>3, <3>1, AppendIs
    <3>3. /\ \A i \in DOMAIN chunks[t] : chunks[t][i].objects \cap c.objects = {}
          /\ \A i, j \in DOMAIN chunks[t] : i # j =>
                 chunks[t][i].objects \cap chunks[t][j].objects = {}
      BY DEF Owned
    <3> QED BY <3>2, <3>3
  <2> QED BY <1>1, <2>1, <2>2, <2>3
<1>6. /\ \A u, a \in Threads : u # a => Retired(u)' \cap Retired(a)' = {}
      /\ \A u \in Threads : Retired(u)' \cap freed' = {} /\ Garbage(u)' \cap Retiring(u)' = {}
  BY <1>1, <1>2, <1>3, <1>4 DEF Owned
<1>7. /\ \A v \in Vars \ AtomicVars : \A u \in Threads :
             <<v, storage'[v]>> \notin freed' \cup Retired(u)'
      /\ \A v \in Vars : ~Unborn(v, storage[v])'
      /\ \A u \in Threads : \A o \in freed' \cup Retired(u)' :
             o[1] \notin AtomicVars /\ ~Unborn(o[1], o[2])'
  <2>1. \A v \in Vars : ~Unborn(v, storage[v])'
    BY <1>2 DEF Owned, Unborn
  <2> QED BY <1>1, <1>2, <1>4, <2>1 DEF Owned
<1> QED BY <1>5, <1>6, <1>7 DEF Owned

(* do_first_epoch_callbacks frees the objects of the front, and no others. *)
LEMMA OwnedByFree ==
    ASSUME EpochTypeOK, Owned, NEW t \in Threads, Around(t), FreeFront(t),
           \A u \in Threads \ {t} : EpochSame(u)
    PROVE  Owned'
<1> DEFINE front == Head(chunks[t])
<1>1. /\ UNCHANGED <<vars, working>> /\ freed' = freed \cup front.objects
      /\ chunks'[t] = Tail(chunks[t])
      /\ working[t] = {} /\ chunks[t] # <<>> /\ chunks[t] \in Seq(Chunk)
  BY DEF FreeFront, Around, EpochTypeOK
<1>2. /\ front = chunks[t][1] /\ 1 \in DOMAIN chunks[t]
      /\ \A i \in DOMAIN chunks'[t] :
             i \in Nat \ {0} /\ i + 1 \in DOMAIN chunks[t] /\ chunks'[t][i] = chunks[t][i + 1]
  BY <1>1, TailIs
<1> HIDE DEF front
<1>3. /\ \A v, s : Unborn(v, s)' = Unborn(v, s)
      /\ \A u \in Threads : Retiring(u)' = Retiring(u)
      /\ storage' = storage
  BY <1>1, StillUnborn
<1>4. \A u \in Threads \ {t} : Garbage(u)' = Garbage(u) /\ Retired(u)' = Retired(u)
  BY <1>3 DEF Garbage, EpochSame, Retired
<1>5. /\ Garbage(t)' \subseteq Garbage(t) /\ front.objects \subseteq Garbage(t)
      /\ Garbage(t)' \cap front.objects = {}
  <2>1. \A o : o \in Garbage(t)' <=> \E i \in DOMAIN chunks'[t] : o \in chunks'[t][i].objects
    BY <1>1 DEF Garbage
  <2>2. \A i \in DOMAIN chunks[t] : chunks[t][i].objects \subseteq Garbage(t)
    BY DEF Garbage
  <2>3. \A i \in DOMAIN chunks'[t] : chunks'[t][i].objects \cap front.objects = {}
    <3>1. \A i, j \in DOMAIN chunks[t] : i # j =>
              chunks[t][i].objects \cap chunks[t][j].objects = {}
      BY DEF Owned
    <3> QED BY <1>2, <3>1
  <2> QED BY <1>2, <2>1, <2>2, <2>3
<1>6. /\ Retired(t)' \subseteq Retired(t) /\ front.objects \subseteq Retired(t)
      /\ Retired(t)' \cap front.objects = {}
  <2>1. Garbage(t) \cap Retiring(t) = {}
    BY DEF Owned
  <2> QED BY <1>3, <1>5, <2>1 DEF Retired
<1>7. \A u \in Threads : Retired(u)' \subseteq Retired(u)
  BY <1>4, <1>6
<1>8. \A u, a \in Threads : u # a => Retired(u)' \cap Retired(a)' = {}
  BY <1>7 DEF Owned
<1>9. ASSUME NEW u \in Threads
      PROVE  Retired(u)' \cap freed' = {} /\ Garbage(u)' \cap Retiring(u)' = {}
  <2>1. Retired(u) \cap freed = {} /\ Garbage(u) \cap Retiring(u) = {}
        /\ (u # t => Retired(u) \cap Retired(t) = {})
    BY DEF Owned
  <2>2. Retired(u)' \cap front.objects = {}
    BY <1>6, <1>7, <2>1
  <2> QED BY <1>1, <1>3, <1>4, <1>5, <1>7, <2>1, <2>2
<1>10. ASSUME NEW u \in Threads
       PROVE  /\ \A i, j \in DOMAIN chunks'[u] : i # j =>
                     chunks'[u][i].objects \cap chunks'[u][j].objects = {}
              /\ \A i \in DOMAIN chunks'[u] : \A c \in working'[u] :
                     chunks'[u][i].objects \cap c.objects = {}
  <2>1. CASE u # t
    BY <2>1 DEF Owned, EpochSame
  <2>2. CASE u = t
    <3>1. \A i, j \in DOMAIN chunks[t] : i # j =>
              chunks[t][i].objects \cap chunks[t][j].objects = {}
      BY DEF Owned
    <3>2. ASSUME NEW i \in DOMAIN chunks'[t], NEW j \in DOMAIN chunks'[t], i # j
          PROVE  chunks'[t][i].objects \cap chunks'[t][j].objects = {}
      <4>1. i + 1 # j + 1
        BY <1>2, <3>2
      <4> QED BY <1>2, <3>1, <4>1
    <3>3. working'[t] = {}
      BY <1>1
    <3> QED BY <2>2, <3>2, <3>3
  <2> QED BY <2>1, <2>2
<1>11. /\ \A v \in Vars \ AtomicVars : \A u \in Threads :
              <<v, storage'[v]>> \notin freed' \cup Retired(u)'
       /\ \A v \in Vars : ~Unborn(v, storage[v])'
       /\ \A u \in Threads : \A o \in freed' \cup Retired(u)' :
             o[1] \notin AtomicVars /\ ~Unborn(o[1], o[2])'
  <2>1. \A v \in Vars : ~Unborn(v, storage[v])'
    BY <1>3 DEF Owned, Unborn
  <2> QED BY <1>1, <1>3, <1>6, <1>7, <2>1 DEF Owned
<1> QED BY <1>8, <1>9, <1>10, <1>11 DEF Owned

LEMMA OwnedStep ==
    ASSUME Inv, EpochTypeOK, \A u \in Threads : Around(u), Owned, NEW t \in Threads, Acts(t)
    PROVE  Owned'
<1>1. TypeOK /\ \A u \in Threads : Progress(u)
  BY DEF Inv, VersionsTellContents
<1>2. \A u \in Threads \ {t} : EpochSame(u) /\ Same(u) /\ Retiring(u)' = Retiring(u)
  <2>1. \A u \in Threads \ {t} : EpochSame(u) /\ Same(u)
    BY <1>1, EpochFrame, SameTransaction
  <2> QED BY <2>1 DEF Same, Retiring
<1>3. CASE Finalize(t)
  BY <1>2, <1>3, OwnedByFinalize
<1>4. CASE FreeFront(t)
  BY <1>2, <1>4, OwnedByFree
<1>5. CASE EndNothing(t) \/ EndCommit(t)
  <2>1. Step(t) /\ UNCHANGED <<chunks, freed>> /\ pc'[t] = "idle" /\ write_set'[t] = {}
    BY <1>1, <1>5 DEF EndNothing, EndCommit, CommitNothing, CommitSucceeded, Finish, EndAttempt,
         Goto, Step, User, Library, TypeOK
  <2>2. RetireEffect(t)
    BY <2>1, RetireStep
  <2>3. storage' = storage /\ \A v \in Vars, s \in Storage : Unborn(v, s)' => Unborn(v, s)
    BY <1>1, <1>5, <2>2 DEF RetireEffect, EndNothing, EndCommit, CommitNothing, CommitSucceeded, Finish,
         EndAttempt, shared
  <2>4. Replaced(t) \subseteq Retiring(t)
    BY <1>5 DEF EndNothing, EndCommit, CommitNothing, CommitSucceeded, Replaced, Retiring
  <2>5. \A c \in working'[t] : c.objects \subseteq Retiring(t)
    BY <1>5, <2>4 DEF EndNothing, EndCommit, WorkingEpoch, EpochTypeOK
  <2>6. Retiring(t)' = {}
    BY <2>1 DEF Retiring
  <2>7. \A u \in Threads \ {t} : Retiring(u)' = Retiring(u) /\ working'[u] = working[u]
    BY <1>2 DEF EpochSame
  <2> QED BY <1>1, <2>1, <2>3, <2>5, <2>6, <2>7, OwnedByWorking
<1>6. CASE Start(t) \/ Version(t) \/ Inside(t) \/ Abandon(t)
  <2>1. Step(t) /\ UNCHANGED <<working, chunks, freed>> /\ (pc[t] = "publish" => pc'[t] # "idle")
    BY <1>6 DEF Start, Version, Inside, Abandon, Step, User, Library, epochVars, Invoke, GetClock,
         Throw
  <2>2. RetireEffect(t) /\ Counts(t)
    BY <1>1, <2>1, RetireStep, CountsStep
  <2>3. pc[t] = "publish" => pc'[t] = "publish"
    BY <1>1, <2>1, <2>2 DEF Counts, CommitSucceeded, Finish, Goto, TypeOK
  <2> QED BY <1>1, <1>2, <2>1, <2>2, <2>3, OwnedByRetiring
<1>7. CASE UNCHANGED <<vars, working, chunks, freed>>
  <2>1. pc' = pc
    BY <1>7 DEF vars
  <2>2. RetireEffect(t)
    BY <1>7, <2>1, StillUnborn DEF RetireEffect
  <2> QED BY <1>1, <1>2, <1>7, <2>1, <2>2, OwnedByRetiring
<1>8. AccessLock(t) \/ AccessUnlock(t) \/ WaitOnEpoch(t) \/ Synchronized(t) \/ Exit(t) \/ Drain(t)
        \/ (\E u \in Threads : Visit(t, u)) => UNCHANGED <<vars, working, chunks, freed>>
  BY DEF AccessLock, AccessUnlock, WaitOnEpoch, Synchronized, Exit, Drain, Visit
<1> QED BY <1>3, <1>4, <1>5, <1>6, <1>7, <1>8 DEF Acts, EpochStep

(* A step replaces one object at most, and that one is on its way; nothing *)
(* that was drops out.                                                     *)
Replaces(w) ==
    /\ \A v \in Vars \ {w} : storage'[v] = storage[v]
    /\ Replacements' = Replacements \cup {<<v, storage[v]>> : v \in {w} \ AtomicVars}

ReplacesNothing == storage' = storage /\ Replacements' = Replacements

LEMMA ReplacementsByRetiring ==
    ASSUME TypeOK, NEW t \in Threads, RetireEffect(t), pc[t] = "publish" => pc'[t] = "publish",
           \A u \in Threads \ {t} : Retiring(u)' = Retiring(u),
           UNCHANGED <<working, chunks, freed>>
    PROVE  ReplacesNothing \/ \E w \in Vars : Replaces(w)
<1>1. \A u \in Threads : Garbage(u)' = Garbage(u)
  BY DEF Garbage
<1>2. \A u \in Threads \ {t} : Retired(u)' = Retired(u)
  BY <1>1 DEF Retired
<1>3. CASE storage' = storage /\ Retiring(t)' = Retiring(t)
  <2>1. \A u \in Threads : Retired(u)' = Retired(u)
    BY <1>1, <1>2, <1>3 DEF Retired
  <2> QED BY <1>3, <2>1 DEF ReplacesNothing, Replacements
<1>4. ASSUME NEW w \in Vars, storage' = [storage EXCEPT ![w] = Fresh(t)],
             Retiring(t)' = Retiring(t) \cup {<<v, storage[v]>> : v \in {w} \ AtomicVars}
      PROVE  Replaces(w)
  <2>1. Retired(t)' = Retired(t) \cup {<<v, storage[v]>> : v \in {w} \ AtomicVars}
    BY <1>1, <1>4 DEF Retired
  <2>2. \A v \in Vars \ {w} : storage'[v] = storage[v]
    BY <1>4 DEF TypeOK
  <2>3. Replacements' = Replacements \cup {<<v, storage[v]>> : v \in {w} \ AtomicVars}
    BY <1>2, <2>1 DEF Replacements
  <2> QED BY <2>2, <2>3 DEF Replaces
<1>5. ~(pc[t] = "publish" /\ CommitSucceeded(t))
  BY DEF CommitSucceeded, Finish, Goto, TypeOK
<1> QED BY <1>3, <1>4, <1>5 DEF RetireEffect

LEMMA ReplacementsByWorking ==
    ASSUME NEW t \in Threads, UNCHANGED <<storage, chunks, freed>>, working[t] = {},
           \A u \in Threads \ {t} : Retiring(u)' = Retiring(u) /\ working'[u] = working[u],
           UNION {c.objects : c \in working'[t]} = Retiring(t), Retiring(t)' = {}
    PROVE  ReplacesNothing
<1>1. \A u \in Threads \ {t} : Retired(u)' = Retired(u)
  BY DEF Garbage, Retired
<1>2. Retired(t)' = Retired(t)
  <2>1. Garbage(t) = UNION {chunks[t][i].objects : i \in DOMAIN chunks[t]}
    BY DEF Garbage
  <2>2. Garbage(t)' = Garbage(t) \cup Retiring(t)
    BY <2>1 DEF Garbage
  <2> QED BY <2>2 DEF Retired
<1> QED BY <1>1, <1>2 DEF ReplacesNothing, Replacements

LEMMA ReplacementsByFinalize ==
    ASSUME EpochTypeOK, NEW t \in Threads, Finalize(t), \A u \in Threads \ {t} : EpochSame(u)
    PROVE  ReplacesNothing
<1>1. UNCHANGED <<vars, freed>> /\ Epochs(t)' = Epochs(t)
  BY FinalizedQueue
<1>2. storage' = storage /\ \A u \in Threads : Retiring(u)' = Retiring(u)
  BY <1>1, StillUnborn
<1>3. \A u \in Threads \ {t} : Garbage(u)' = Garbage(u)
  BY DEF Garbage, EpochSame
<1>4. Garbage(t)' = Garbage(t)
  <2>1. \A o : o \in Garbage(t) <=> \E c \in Epochs(t) : o \in c.objects
    BY GarbageIs
  <2>2. \A o : o \in Garbage(t)' <=> \E c \in Epochs(t)' : o \in c.objects
    BY DEF Garbage, Epochs, Queue
  <2> QED BY <1>1, <2>1, <2>2
<1>5. \A u \in Threads : Retired(u)' = Retired(u)
  BY <1>2, <1>3, <1>4 DEF Retired
<1> QED BY <1>1, <1>2, <1>5 DEF ReplacesNothing, Replacements

LEMMA ReplacementsByFree ==
    ASSUME EpochTypeOK, NEW t \in Threads, Around(t), FreeFront(t),
           \A u \in Threads \ {t} : EpochSame(u)
    PROVE  ReplacesNothing
<1>1. PICK front : front = Head(chunks[t])
  OBVIOUS
<1>2. /\ UNCHANGED <<vars, working>> /\ freed' = freed \cup front.objects
      /\ chunks'[t] = Tail(chunks[t])
      /\ working[t] = {} /\ chunks[t] # <<>> /\ chunks[t] \in Seq(Chunk)
  BY <1>1 DEF FreeFront, Around, EpochTypeOK
<1>3. storage' = storage /\ \A u \in Threads : Retiring(u)' = Retiring(u)
  BY <1>2, StillUnborn
<1>4. \A u \in Threads \ {t} : Retired(u)' = Retired(u)
  BY <1>3 DEF Garbage, EpochSame, Retired
<1>5. Garbage(t) = Garbage(t)' \cup front.objects
  <2>1. /\ front = chunks[t][1] /\ 1 \in DOMAIN chunks[t]
        /\ \A i \in DOMAIN chunks'[t] : i + 1 \in DOMAIN chunks[t] /\ chunks'[t][i] = chunks[t][i + 1]
        /\ \A i \in DOMAIN chunks[t] : i # 1 =>
               i - 1 \in DOMAIN chunks'[t] /\ chunks[t][i] = chunks'[t][i - 1]
    BY <1>1, <1>2, TailIs
  <2>2. \A o : o \in Garbage(t) <=> \E i \in DOMAIN chunks[t] : o \in chunks[t][i].objects
    BY <1>2 DEF Garbage
  <2>3. \A o : o \in Garbage(t)' <=> \E i \in DOMAIN chunks'[t] : o \in chunks'[t][i].objects
    BY <1>2 DEF Garbage
  <2>4. ASSUME NEW o \in Garbage(t)
        PROVE  o \in Garbage(t)' \cup front.objects
    <3>1. PICK i \in DOMAIN chunks[t] : o \in chunks[t][i].objects
      BY <2>2, <2>4
    <3>2. CASE i = 1
      BY <2>1, <3>1, <3>2
    <3>3. CASE i # 1
      <4>1. o \in chunks'[t][i - 1].objects /\ i - 1 \in DOMAIN chunks'[t]
        BY <2>1, <3>1, <3>3
      <4> QED BY <2>3, <4>1
    <3> QED BY <3>2, <3>3
  <2>5. ASSUME NEW o \in Garbage(t)'
        PROVE  o \in Garbage(t)
    <3>1. PICK i \in DOMAIN chunks'[t] : o \in chunks'[t][i].objects
      BY <2>3, <2>5
    <3> QED BY <2>1, <2>2, <3>1
  <2>6. front.objects \subseteq Garbage(t)
    BY <2>1, <2>2
  <2> QED BY <2>4, <2>5, <2>6
<1>6. Retired(t) \cup freed = Retired(t)' \cup freed'
  BY <1>2, <1>3, <1>5 DEF Retired
<1>7. Replacements' = Replacements
  <2>1. Replacements = (freed \cup Retired(t)) \cup UNION {Retired(u) : u \in Threads \ {t}}
    BY DEF Replacements
  <2>2. Replacements' = (freed' \cup Retired(t)') \cup UNION {Retired(u)' : u \in Threads \ {t}}
    BY DEF Replacements
  <2> QED BY <1>4, <1>6, <2>1, <2>2
<1> QED BY <1>3, <1>7 DEF ReplacesNothing

LEMMA ReplacementsStep ==
    ASSUME Inv, EpochTypeOK, \A u \in Threads : Around(u), NEW t \in Threads, Acts(t)
    PROVE  ReplacesNothing \/ \E w \in Vars : Replaces(w)
<1>1. TypeOK /\ \A u \in Threads : Progress(u)
  BY DEF Inv, VersionsTellContents
<1>2. \A u \in Threads \ {t} : EpochSame(u) /\ Same(u) /\ Retiring(u)' = Retiring(u)
  <2>1. \A u \in Threads \ {t} : EpochSame(u) /\ Same(u)
    BY <1>1, EpochFrame, SameTransaction
  <2> QED BY <2>1 DEF Same, Retiring
<1>3. CASE Finalize(t)
  BY <1>2, <1>3, ReplacementsByFinalize
<1>4. CASE FreeFront(t)
  BY <1>2, <1>4, ReplacementsByFree
<1>5. CASE EndNothing(t) \/ EndCommit(t)
  <2>1. UNCHANGED <<storage, chunks, freed>> /\ pc'[t] = "idle" /\ write_set'[t] = {}
    BY <1>1, <1>5 DEF EndNothing, EndCommit, CommitNothing, CommitSucceeded, Finish, EndAttempt,
         shared, Goto, TypeOK
  <2>2. working[t] = {}
    BY <1>5 DEF EndNothing, EndCommit, Move, Around
  <2>3. Retiring(t) = Replaced(t)
    BY <1>5 DEF EndNothing, EndCommit, CommitNothing, CommitSucceeded, Replaced, Retiring
  <2>4. UNION {c.objects : c \in working'[t]} = Retiring(t)
    <3>1. PICK e \in Nat, r \in BOOLEAN : working'[t] = WorkingEpoch(t, e, r)
      <4>1. Registers(t) \subseteq BOOLEAN /\ sync_epoch[t] \in Nat /\ 0 \in Nat
        BY <1>1 DEF Registers, TypeOK
      <4>2. DOMAIN working = Threads
        BY DEF EpochTypeOK
      <4>3. CASE EndNothing(t)
        <5>1. PICK r \in Registers(t) : working' = [working EXCEPT ![t] = WorkingEpoch(t, 0, r)]
          BY <4>3 DEF EndNothing
        <5>2. working'[t] = WorkingEpoch(t, 0, r)
          BY <4>2, <5>1
        <5> QED BY <4>1, <5>2
      <4>4. CASE EndCommit(t)
        <5>1. PICK r \in Registers(t) :
                  working' = [working EXCEPT ![t] = WorkingEpoch(t, sync_epoch[t], r)]
          BY <4>4 DEF EndCommit
        <5>2. working'[t] = WorkingEpoch(t, sync_epoch[t], r)
          BY <4>2, <5>1
        <5> QED BY <4>1, <5>2
      <4> QED BY <1>5, <4>3, <4>4
    <3>2. CASE Replaced(t) = {} /\ ~r
      <4>1. working'[t] = {}
        BY <3>1, <3>2 DEF WorkingEpoch
      <4>2. UNION {c.objects : c \in {}} = {}
        OBVIOUS
      <4> QED BY <2>3, <3>2, <4>1, <4>2
    <3>3. CASE ~(Replaced(t) = {} /\ ~r)
      <4> DEFINE d == [epoch |-> e, objects |-> Replaced(t)]
      <4>1. working'[t] = {d}
        BY <3>1, <3>3 DEF WorkingEpoch
      <4>2. d.objects = Replaced(t)
        OBVIOUS
      <4> HIDE DEF d
      <4>3. UNION {c.objects : c \in {d}} = d.objects
        OBVIOUS
      <4> QED BY <2>3, <4>1, <4>2, <4>3
    <3> QED BY <3>2, <3>3
  <2>5. Retiring(t)' = {}
    BY <2>1 DEF Retiring
  <2>6. \A u \in Threads \ {t} : Retiring(u)' = Retiring(u) /\ working'[u] = working[u]
    BY <1>2 DEF EpochSame
  <2> QED BY <2>1, <2>2, <2>4, <2>5, <2>6, ReplacementsByWorking
<1>6. CASE Start(t) \/ Version(t) \/ Inside(t) \/ Abandon(t)
  <2>1. Step(t) /\ UNCHANGED <<working, chunks, freed>> /\ (pc[t] = "publish" => pc'[t] # "idle")
    BY <1>6 DEF Start, Version, Inside, Abandon, Step, User, Library, epochVars, Invoke, GetClock,
         Throw
  <2>2. RetireEffect(t) /\ Counts(t)
    BY <1>1, <2>1, RetireStep, CountsStep
  <2>3. pc[t] = "publish" => pc'[t] = "publish"
    BY <1>1, <2>1, <2>2 DEF Counts, CommitSucceeded, Finish, Goto, TypeOK
  <2> QED BY <1>1, <1>2, <2>1, <2>2, <2>3, ReplacementsByRetiring
<1>7. CASE UNCHANGED <<vars, working, chunks, freed>>
  <2>1. storage' = storage /\ \A u \in Threads : Retiring(u)' = Retiring(u)
    BY <1>7, StillUnborn
  <2>2. \A u \in Threads : Retired(u)' = Retired(u)
    BY <1>7, <2>1 DEF Garbage, Retired
  <2> QED BY <1>7, <2>1, <2>2 DEF ReplacesNothing, Replacements
<1>8. AccessLock(t) \/ AccessUnlock(t) \/ WaitOnEpoch(t) \/ Synchronized(t) \/ Exit(t) \/ Drain(t)
        \/ (\E u \in Threads : Visit(t, u)) => UNCHANGED <<vars, working, chunks, freed>>
  BY DEF AccessLock, AccessUnlock, WaitOnEpoch, Synchronized, Exit, Drain, Visit
<1> QED BY <1>3, <1>4, <1>5, <1>6, <1>7, <1>8 DEF Acts, EpochStep

LEMMA AccountedStep ==
    ASSUME Inv, EpochTypeOK, \A u \in Threads : Around(u), Accounted,
           NEW t \in Threads, Acts(t), Remember
    PROVE  Accounted'
<1>1. stored = Stored \cup Replacements /\ stored' = stored \cup Stored'
  BY DEF Accounted, Remember
<1>2. SUFFICES stored' = Stored' \cup Replacements'
  <2>1. Threads # {}
    OBVIOUS
  <2> QED BY <2>1 DEF Accounted
<1>3. CASE ReplacesNothing
  <2>1. Stored' = Stored
    BY <1>3 DEF ReplacesNothing, Stored
  <2> QED BY <1>1, <1>3, <2>1 DEF ReplacesNothing
<1>4. ASSUME NEW w \in Vars, Replaces(w)
      PROVE  stored' = Stored' \cup Replacements'
  <2> DEFINE old == {<<v, storage[v]>> : v \in {w} \ AtomicVars}
  <2>1. Replacements' = Replacements \cup old /\ \A v \in Vars \ {w} : storage'[v] = storage[v]
    BY <1>4 DEF Replaces
  <2>2. old \subseteq Stored
    BY DEF Stored
  <2>3. Stored \subseteq Stored' \cup old
    <3>1. ASSUME NEW v \in Vars \ AtomicVars
          PROVE  <<v, storage[v]>> \in Stored' \cup old
      <4>1. CASE v = w
        BY <4>1
      <4>2. CASE v # w
        <5>1. <<v, storage'[v]>> \in Stored'
          BY DEF Stored
        <5> QED BY <2>1, <4>2, <5>1
      <4> QED BY <4>1, <4>2
    <3> QED BY <3>1 DEF Stored
  <2> HIDE DEF old
  <2> QED BY <1>1, <2>1, <2>2, <2>3
<1> QED BY <1>3, <1>4, ReplacementsStep

-----------------------------------------------------------------------------
(* The order of the epochs *)

(* The clock never goes back, and a commit publishes the epoch it took.    *)
Publishes(t) ==
    /\ clock' \in Nat /\ clock <= clock'
    /\ pc'[t] = "publish" =>
           \/ /\ pc[t] = "publish" /\ sync_epoch'[t] = sync_epoch[t]
              /\ Retiring(t)' = Retiring(t)
           \/ FetchAndBumpClock(t) /\ sync_epoch'[t] = clock /\ clock' = clock + 1

LEMMA PublishesStep ==
    ASSUME TypeOK, NEW t \in Threads, Step(t) \/ UNCHANGED vars
    PROVE  Publishes(t)
<1>1. clock \in Nat
  BY DEF TypeOK
<1>2. CASE UNCHANGED vars
  <2>1. Retiring(t)' = Retiring(t)
    BY <1>2 DEF Retiring, vars, sets
  <2> QED BY <1>1, <1>2, <2>1 DEF Publishes, vars, shared
<1>3. CASE Step(t)
  <2>1. Counts(t)
    BY <1>3, CountsStep
  <2>2. clock' \in Nat /\ clock <= clock'
    BY <1>1, <2>1 DEF Counts, FetchAndBumpClock
  <2>3. ASSUME pc'[t] = "publish", pc[t] = "publish"
        PROVE  sync_epoch'[t] = sync_epoch[t] /\ Retiring(t)' = Retiring(t)
    BY <2>1, <2>3 DEF Counts, CommitSucceeded, Finish, Goto, TypeOK, Retiring
  <2>4. ASSUME pc'[t] = "publish", pc[t] # "publish"
        PROVE  FetchAndBumpClock(t) /\ sync_epoch'[t] = clock /\ clock' = clock + 1
    <3>1. ~Quiet(t)
      BY <2>4 DEF Quiet
    <3>2. ~AllValid(t)
      BY <2>4 DEF AllValid, NextLoop, Goto, TypeOK
    <3>3. \A v \in Vars : ~DoWrite(t, v) /\ ~Publish(t, v)
      BY <2>4 DEF DoWrite, Publish
    <3>4. FetchAndBumpClock(t)
      BY <1>3, <3>1, <3>2, <3>3, QuietStep
    <3> QED BY <3>4 DEF FetchAndBumpClock, TypeOK
  <2> QED BY <2>2, <2>3, <2>4 DEF Publishes
<1> QED BY <1>2, <1>3

(* The queue keeps its order when nothing moves in it. *)
LEMMA OrderedByClock ==
    ASSUME EpochTypeOK, TypeOK, NEW u \in Threads, Ordered(u),
           working'[u] = working[u], chunks'[u] = chunks[u],
           clock' \in Nat, clock <= clock',
           pc'[u] = "publish" => \/ pc[u] = "publish" /\ sync_epoch'[u] = sync_epoch[u]
                                 \/ sync_epoch'[u] = clock
    PROVE  Ordered(u)'
<1>1. Epochs(u)' = Epochs(u)
  BY DEF Epochs, Queue
<1>2. clock \in Nat /\ \A c \in Epochs(u) : c.epoch \in Nat
  BY RetiredTypes DEF TypeOK, Chunk
<1>3. \A c \in Epochs(u) : c.objects # {} => c.epoch < clock
  BY DEF Ordered
<1>4. \A c \in Epochs(u)' : c.objects # {} => c.epoch < clock'
  BY <1>1, <1>2, <1>3
<1>5. pc'[u] = "publish" => \A c \in Epochs(u)' : c.objects # {} => c.epoch < sync_epoch'[u]
  BY <1>1, <1>3 DEF Ordered
<1> QED BY <1>1, <1>4, <1>5 DEF Ordered

LEMMA OrderedStep ==
    ASSUME Inv, EpochTypeOK, \A u \in Threads : Around(u) /\ Ordered(u), NEW t \in Threads, Acts(t)
    PROVE  \A u \in Threads : Ordered(u)'
<1>1. TypeOK /\ Versions
  BY DEF Inv, VersionsTellContents
<1>2. Publishes(t)
  BY <1>1, ActsOnTransactions, PublishesStep
<1>3. ASSUME NEW u \in Threads, u # t
      PROVE  Ordered(u)'
  <2>1. EpochSame(u) /\ Same(u)
    BY <1>1, <1>3, EpochFrame, SameTransaction
  <2> QED BY <1>1, <1>2, <2>1, OrderedByClock DEF EpochSame, Same, Publishes
<1> Ordered(t) /\ Around(t)
  OBVIOUS
<1> SUFFICES Ordered(t)'
  BY <1>3
<1>4. CASE working'[t] = working[t] /\ chunks'[t] = chunks[t]
  BY <1>1, <1>2, <1>4, OrderedByClock DEF Publishes
<1>5. CASE EndNothing(t) \/ EndCommit(t)
  <2>1. /\ chunks' = chunks /\ working[t] = {} /\ clock' = clock /\ pc'[t] = "idle"
        /\ \A c \in working'[t] : /\ c.objects = Replaced(t)
                                  /\ c.objects = {} => t \in Registrars
                                  /\ c.objects # {} => c.epoch = sync_epoch[t] /\ pc[t] = "publish"
    <3>1. chunks' = chunks /\ working[t] = {} /\ clock' = clock /\ pc'[t] = "idle"
      BY <1>1, <1>5 DEF EndNothing, EndCommit, CommitNothing, CommitSucceeded, Finish, EndAttempt,
           Goto, shared, TypeOK, Move, Around
    <3>2. \E r \in Registers(t), e \in {0, sync_epoch[t]} :
              /\ working'[t] = WorkingEpoch(t, e, r)
              /\ Replaced(t) # {} => e = sync_epoch[t] /\ pc[t] = "publish"
      <4>1. working \in [Threads -> SUBSET Chunk]
        BY DEF EpochTypeOK
      <4>2. CASE EndNothing(t)
        <5>1. Replaced(t) = {}
          BY <4>2 DEF EndNothing, CommitNothing, Replaced
        <5> QED BY <4>1, <4>2, <5>1 DEF EndNothing
      <4>3. CASE EndCommit(t)
        BY <4>1, <4>3 DEF EndCommit, CommitSucceeded
      <4> QED BY <1>5, <4>2, <4>3
    <3>3. PICK r \in Registers(t), e \in {0, sync_epoch[t]} :
              /\ working'[t] = WorkingEpoch(t, e, r)
              /\ Replaced(t) # {} => e = sync_epoch[t] /\ pc[t] = "publish"
      BY <3>2
    <3>4. r => t \in Registrars
      BY DEF Registers
    <3> QED BY <3>1, <3>3, <3>4 DEF WorkingEpoch
  <2>2. Queue(t)' = Queue(t) /\ Epochs(t) = Queue(t)
    BY <2>1 DEF Queue, Epochs
  <2>3. /\ pc[t] = "publish" => sync_epoch[t] < clock
        /\ pc[t] = "publish" => \A c \in Queue(t) : c.objects # {} => c.epoch < sync_epoch[t]
    BY <1>1, <2>2 DEF Versions, Ordered
  <2>4. \A i \in DOMAIN chunks[t] : chunks[t][i] \in Queue(t)
    BY DEF Queue
  <2>5. \A c \in Epochs(t)' : c.objects # {} => c.epoch < clock'
    BY <2>1, <2>2, <2>3 DEF Epochs, Ordered
  <2>6. \A i \in DOMAIN chunks[t] : \A c \in working'[t] :
           chunks[t][i].objects # {} /\ c.objects # {} => chunks[t][i].epoch < c.epoch
    BY <2>1, <2>3, <2>4
  <2>7. t \notin Registrars => \A c \in Epochs(t)' : c.objects # {}
    BY <2>1, <2>2 DEF Epochs, Ordered
  <2> QED BY <2>1, <2>5, <2>6, <2>7 DEF Ordered
<1>6. CASE Finalize(t)
  <2>1. /\ working'[t] = {} /\ UNCHANGED vars /\ Epochs(t)' = Epochs(t)
        /\ \/ chunks'[t] = chunks[t]
           \/ \E c \in working[t] : c \in Chunk /\ chunks'[t] = Append(chunks[t], c)
    BY <1>6, FinalizedQueue
  <2>2. UNCHANGED <<clock, pc, sync_epoch>>
    BY <2>1 DEF vars, shared
  <2>3. \A i, j \in DOMAIN chunks'[t] :
            (i < j /\ chunks'[t][i].objects # {} /\ chunks'[t][j].objects # {})
               => chunks'[t][i].epoch < chunks'[t][j].epoch
    <3>1. CASE chunks'[t] = chunks[t]
      BY <3>1 DEF Ordered
    <3>2. ASSUME NEW c \in working[t], c \in Chunk, chunks'[t] = Append(chunks[t], c)
          PROVE  \A i, j \in DOMAIN chunks'[t] :
                     (i < j /\ chunks'[t][i].objects # {} /\ chunks'[t][j].objects # {})
                        => chunks'[t][i].epoch < chunks'[t][j].epoch
      <4>1. chunks[t] \in Seq(Chunk)
        BY DEF EpochTypeOK
      <4>2. /\ DOMAIN chunks'[t] = DOMAIN chunks[t] \cup {Len(chunks[t]) + 1}
            /\ chunks'[t][Len(chunks[t]) + 1] = c
            /\ \A i \in DOMAIN chunks[t] : i \in 1..Len(chunks[t]) /\ chunks'[t][i] = chunks[t][i]
            /\ Len(chunks[t]) \in Nat
        BY <3>2, <4>1, AppendIs
      <4>3. /\ \A i \in DOMAIN chunks[t] :
                   chunks[t][i].objects # {} /\ c.objects # {} => chunks[t][i].epoch < c.epoch
            /\ \A i, j \in DOMAIN chunks[t] :
                   (i < j /\ chunks[t][i].objects # {} /\ chunks[t][j].objects # {})
                      => chunks[t][i].epoch < chunks[t][j].epoch
        BY DEF Ordered
      <4>4. ASSUME NEW i \in DOMAIN chunks'[t], NEW j \in DOMAIN chunks'[t], i < j
            PROVE  i \in DOMAIN chunks[t]
        BY <4>2, <4>4
      <4> QED BY <4>2, <4>3, <4>4
    <3> QED BY <2>1, <3>1, <3>2
  <2> QED BY <2>1, <2>2, <2>3 DEF Ordered
<1>7. CASE FreeFront(t)
  <2>1. /\ UNCHANGED <<vars, working>> /\ chunks'[t] = Tail(chunks[t])
        /\ chunks[t] # <<>> /\ chunks[t] \in Seq(Chunk)
    BY <1>7 DEF FreeFront, Around, EpochTypeOK
  <2>2. \A i \in DOMAIN chunks'[t] :
            i \in Nat \ {0} /\ i + 1 \in DOMAIN chunks[t] /\ chunks'[t][i] = chunks[t][i + 1]
    BY <2>1, TailIs
  <2>3. Epochs(t)' \subseteq Epochs(t)
    BY <2>1, <2>2 DEF Epochs, Queue
  <2>4. UNCHANGED <<clock, pc, sync_epoch>>
    BY <2>1 DEF vars, shared
  <2>5. ASSUME NEW i \in DOMAIN chunks'[t], NEW j \in DOMAIN chunks'[t], i < j,
               chunks'[t][i].objects # {}, chunks'[t][j].objects # {}
        PROVE  chunks'[t][i].epoch < chunks'[t][j].epoch
    <3>1. i + 1 < j + 1
      BY <2>2, <2>5
    <3> QED BY <2>2, <2>5, <3>1 DEF Ordered
  <2>6. \A i \in DOMAIN chunks'[t] : \A c \in working'[t] :
           chunks'[t][i].objects # {} /\ c.objects # {} => chunks'[t][i].epoch < c.epoch
    BY <2>1, <2>2 DEF Ordered
  <2> QED BY <2>1, <2>3, <2>4, <2>5, <2>6 DEF Ordered
<1>8. \/ EndNothing(t) \/ EndCommit(t) \/ Finalize(t) \/ FreeFront(t)
      \/ working'[t] = working[t] /\ chunks'[t] = chunks[t]
  BY DEF Acts, EpochStep, Start, Version, AccessLock, Inside, Abandon, AccessUnlock, WaitOnEpoch,
     Synchronized, Exit, Drain, Visit, epochVars
<1> QED BY <1>4, <1>5, <1>6, <1>7, <1>8

-----------------------------------------------------------------------------
(* Who reads what is going to be freed *)

(* A passed check gives an attempt what the variable holds, and that waits *)
(* in no queue.                                                            *)
LEMMA FreshlyRead ==
    ASSUME Inv, Owned, NEW t \in Threads, pc[t] \in {"fast", "slow"}, Valid(t, cur[t])
    PROVE  \A u \in Threads : <<cur[t], loaded[t]>> \notin freed \cup Retired(u)
<1>1. TypeOK /\ LockOwnership /\ Consistent(t) /\ \A u \in Threads : Progress(u)
  BY DEF Inv, VersionsTellContents, Attempting
<1>2. cur[t] \in Vars
  BY <1>1 DEF TypeOK
<1>3. Settled(cur[t], version_[t])
  BY <1>1, <1>2, ValidSettled
<1>4. loaded[t] = storage[cur[t]]
  BY <1>1, <1>2, <1>3 DEF Consistent
<1> QED BY <1>2, <1>4 DEF Owned

(* What a step adds to what an attempt has seen. *)
SeenEffect(t) ==
    \/ seen'[t] = {}
    \/ /\ version_'[t] = version_[t]
       /\ \/ seen'[t] = seen[t]
          \/ \E o : /\ seen'[t] = seen[t] \cup {o}
                    /\ \A u \in Threads : o \notin freed \cup Retired(u)

LEMMA SeenStep ==
    ASSUME Inv, Inv', Owned, NEW a \in Threads, Acts(a), NEW t \in Threads
    PROVE  SeenEffect(t)
<1>1. TypeOK /\ Progress(t) /\ Progress(t)'
  BY DEF Inv, VersionsTellContents
<1>2. CASE a # t
  BY <1>1, <1>2, SameTransaction DEF Same, SeenEffect
<1>3. CASE a = t /\ UNCHANGED vars
  BY <1>3 DEF vars, history, SeenEffect
<1>4. CASE a = t /\ Step(t)
  <2>1. ReadStep(t)
    BY <1>1, <1>4, ReadStepLemma
  <2>2. CASE t \notin Attempting'
    BY <1>1, <2>2 DEF Progress, SeenEffect
  <2>3. CASE t \in Attempting' /\ t \in Attempting
    <3>1. version_'[t] = version_[t]
      BY <2>1, <2>3 DEF ReadStep
    <3>2. pc[t] \in {"fast", "slow"} /\ Valid(t, cur[t]) =>
              \A u \in Threads : <<cur[t], loaded[t]>> \notin freed \cup Retired(u)
      BY FreshlyRead
    <3> QED BY <2>1, <3>1, <3>2 DEF ReadStep, SeenEffect
  <2>4. CASE t \in Attempting' /\ t \notin Attempting
    <3>1. seen[t] = {} /\ pc[t] \notin {"fast", "slow"}
      BY <1>1, <2>4 DEF Progress, Attempting
    <3> QED BY <2>1, <3>1 DEF ReadStep, SeenEffect
  <2> QED BY <2>2, <2>3, <2>4
<1> QED BY <1>2, <1>3, <1>4, ActsOnTransactions

(* Where the epochs of a thread come from. *)
EpochsEffect(u) ==
    \A c \in Epochs(u)' :
        \/ c \in Epochs(u)
        \/ c.objects = {}
        \/ pc[u] = "publish" /\ c.objects \subseteq Retiring(u) /\ c.epoch = sync_epoch[u]

LEMMA EpochsStep ==
    ASSUME EpochTypeOK, \A u \in Threads : Around(u), NEW a \in Threads, Acts(a), NEW u \in Threads
    PROVE  EpochsEffect(u)
<1>1. CASE a # u
  BY <1>1, EpochFrame DEF EpochSame, EpochsEffect, Epochs, Queue
<1>2. CASE working'[u] = working[u] /\ chunks'[u] = chunks[u]
  BY <1>2 DEF EpochsEffect, Epochs, Queue
<1>3. CASE EndNothing(u) \/ EndCommit(u)
  <2>1. chunks' = chunks /\ working \in [Threads -> SUBSET Chunk]
    BY <1>3 DEF EndNothing, EndCommit, EpochTypeOK
  <2>2. CASE EndNothing(u)
    <3>1. Replaced(u) = {}
      BY <2>2 DEF EndNothing, CommitNothing, Replaced
    <3>2. \A c \in working'[u] : c.objects = {}
      BY <2>1, <2>2, <3>1 DEF EndNothing, WorkingEpoch
    <3> QED BY <2>1, <3>2 DEF EpochsEffect, Epochs, Queue
  <2>3. CASE EndCommit(u)
    <3>1. pc[u] = "publish" /\ Replaced(u) \subseteq Retiring(u)
      BY <2>3 DEF EndCommit, CommitSucceeded, Replaced, Retiring
    <3>2. \A c \in working'[u] : c.objects = Replaced(u) /\ c.epoch = sync_epoch[u]
      BY <2>1, <2>3 DEF EndCommit, WorkingEpoch
    <3> QED BY <2>1, <3>1, <3>2 DEF EpochsEffect, Epochs, Queue
  <2> QED BY <1>3, <2>2, <2>3
<1>4. CASE Finalize(u)
  BY <1>4, FinalizedQueue DEF EpochsEffect
<1>5. CASE FreeFront(u)
  <2>1. UNCHANGED working /\ chunks'[u] = Tail(chunks[u]) /\ chunks[u] # <<>> /\ chunks[u] \in Seq(Chunk)
    BY <1>5 DEF FreeFront, Around, EpochTypeOK
  <2>2. \A i \in DOMAIN chunks'[u] : i + 1 \in DOMAIN chunks[u] /\ chunks'[u][i] = chunks[u][i + 1]
    BY <2>1, TailIs
  <2> QED BY <2>1, <2>2 DEF EpochsEffect, Epochs, Queue
<1>6. a = u => \/ EndNothing(u) \/ EndCommit(u) \/ Finalize(u) \/ FreeFront(u)
               \/ working'[u] = working[u] /\ chunks'[u] = chunks[u]
  BY DEF Acts, EpochStep, Start, Version, AccessLock, Inside, Abandon, AccessUnlock, WaitOnEpoch,
     Synchronized, Exit, Drain, Visit, epochVars
<1> QED BY <1>1, <1>2, <1>3, <1>4, <1>5, <1>6

LEMMA ReadersStep ==
    ASSUME Inv, Inv', EpochTypeOK, Owned, \A u \in Threads : Around(u),
           NEW a \in Threads, Acts(a), NEW t \in Threads, NEW u \in Threads,
           ReadersAreEarlier(t, u)
    PROVE  ReadersAreEarlier(t, u)'
<1>1. TypeOK /\ Versions
  BY DEF Inv, VersionsTellContents
<1>2. SeenEffect(t) /\ EpochsEffect(u)
  BY SeenStep, EpochsStep
<1>3. pc'[u] = "publish" =>
          \/ /\ pc[u] = "publish" /\ sync_epoch'[u] = sync_epoch[u]
             /\ Retiring(u)' = Retiring(u)
          \/ sync_epoch'[u] = clock
  <2>1. CASE a = u
    BY <1>1, <2>1, ActsOnTransactions, PublishesStep DEF Publishes
  <2>2. CASE a # u
    <3>1. Same(u)
      BY <1>1, <2>2, SameTransaction
    <3>2. Retiring(u)' = Retiring(u)
      BY <3>1 DEF Same, Retiring
    <3> QED BY <3>1, <3>2 DEF Same
  <2> QED BY <2>1, <2>2
<1>4. CASE seen'[t] = {}
  BY <1>4 DEF ReadersAreEarlier
<1>5. ASSUME version_'[t] = version_[t],
             \A o \in seen'[t] : o \in seen[t] \/ o \notin Retired(u)
      PROVE  ReadersAreEarlier(t, u)'
  <2>1. ASSUME NEW c \in Epochs(u)', c.objects \cap seen'[t] # {}
        PROVE  version_'[t] <= c.epoch
    <3>1. CASE c \in Epochs(u)
      <4>1. c.objects \subseteq Retired(u)
        BY <3>1, GarbageIs DEF Retired
      <4> QED BY <1>5, <2>1, <3>1, <4>1 DEF ReadersAreEarlier
    <3>2. CASE pc[u] = "publish" /\ c.objects \subseteq Retiring(u) /\ c.epoch = sync_epoch[u]
      BY <1>5, <2>1, <3>2 DEF ReadersAreEarlier, Retired
    <3> QED BY <1>2, <2>1, <3>1, <3>2 DEF EpochsEffect
  <2>2. ASSUME pc'[u] = "publish", Retiring(u)' \cap seen'[t] # {}
        PROVE  version_'[t] <= sync_epoch'[u]
    <3>1. CASE sync_epoch'[u] = clock
      BY <1>1, <1>5, <3>1 DEF Versions
    <3>2. CASE pc[u] = "publish" /\ sync_epoch'[u] = sync_epoch[u] /\ Retiring(u)' = Retiring(u)
      BY <1>5, <2>2, <3>2 DEF ReadersAreEarlier, Retired
    <3> QED BY <1>3, <2>2, <3>1, <3>2
  <2> QED BY <2>1, <2>2 DEF ReadersAreEarlier
<1>6. seen'[t] = {} \/ /\ version_'[t] = version_[t]
                       /\ \A o \in seen'[t] : o \in seen[t] \/ o \notin Retired(u)
  BY <1>2 DEF SeenEffect
<1> QED BY <1>4, <1>5, <1>6

-----------------------------------------------------------------------------
(* Grace periods *)

(* Who has seen what others may free is in its transaction, and says so. *)
LEMMA ReadersArePublished ==
    ASSUME Disciplined, TypeOK, NEW t \in Threads, NEW u \in Threads, t # u,
           Progress(t), ReadsAreCalled(t), Around(t), Published(t), seen[t] # {},
           EpochTypeOK
    PROVE  active[t] = {version_[t]} /\ u \notin Registrars
<1>1. Reads(t)
  BY DEF ReadsAreCalled
<1>2. t \notin Delayed /\ u \notin Registrars
  BY <1>1 DEF Disciplined
<1>3. pc[t] \notin {"idle", "top"}
  BY DEF Progress, Attempting
<1>4. at[t] = "inside"
  BY <1>3 DEF Around, EpochTypeOK, Places
<1> QED BY <1>2, <1>4 DEF Published

LEMMA VisitedByReader ==
    ASSUME EpochTypeOK, NEW t \in Threads, NEW u \in Threads,
           Visited(t, u), EpochSame(u), SeenEffect(t)
    PROVE  Visited(t, u)'
<1>1. CASE seen'[t] = {}
  BY <1>1 DEF Visited
<1>2. CASE version_'[t] = version_[t] /\ \A o \in seen'[t] : o \in seen[t] \/ o \notin Retired(u)
  <2>1. Queue(u)' = Queue(u)
    BY DEF EpochSame, Queue
  <2>2. \A c \in Queue(u) : c.objects \subseteq Retired(u)
    BY GarbageIs DEF Epochs, Retired
  <2>3. \A c \in Queue(u) : c.objects \cap seen'[t] # {} => c.objects \cap seen[t] # {}
    BY <1>2, <2>2
  <2> QED BY <1>2, <2>1, <2>3 DEF Visited, EpochSame
<1> QED BY <1>1, <1>2 DEF SeenEffect

LEMMA VisitedByWriter ==
    ASSUME EpochTypeOK, TypeOK, NEW t \in Threads, NEW u \in Threads, t # u,
           Around(u), Visited(t, u), Acts(u), Same(t),
           seen[t] # {} => active[t] = {version_[t]}
    PROVE  Visited(t, u)'
<1> DEFINE In == Waiting \cup {"freeing", "draining"}
<1>1. seen'[t] = seen[t] /\ version_'[t] = version_[t] /\ version_[t] \in Nat /\ epoch[u] \in Nat
  BY DEF Same, TypeOK, EpochTypeOK
<1>2. SUFFICES ASSUME at'[u] \in In, NEW c \in Queue(u)', c.objects \cap seen[t] # {}
               PROVE  /\ t \in slow'[u] => version_[t] <= epoch'[u]
                      /\ t \notin slow'[u] \cup nodes'[u] =>
                             version_[t] > epoch'[u] /\ version_[t] \in later'[u]
  BY <1>1 DEF Visited
<1>3. \A e : NotAfter(t, e) <=> version_[t] <= e
  BY <1>2 DEF NotAfter
<1>4. CASE Finalize(u) \/ Exit(u)
  <2>1. slow' = slow /\ (at[u] \notin Waiting => slow[u] = {})
    BY <1>4 DEF Finalize, Exit, Synchronize, sync, Around
  <2>2. nodes'[u] = Threads /\ at[u] \notin Waiting
    BY <1>2, <1>4 DEF Finalize, Exit, Synchronize, Move, EpochTypeOK, Waiting
  <2> QED BY <2>1, <2>2
<1>5. ASSUME at[u] \in In, Queue(u)' \subseteq Queue(u), slow'[u] = slow[u], nodes'[u] = nodes[u],
             epoch'[u] = epoch[u], later'[u] = later[u]
      PROVE  /\ t \in slow'[u] => version_[t] <= epoch'[u]
             /\ t \notin slow'[u] \cup nodes'[u] =>
                    version_[t] > epoch'[u] /\ version_[t] \in later'[u]
  BY <1>2, <1>5 DEF Visited
<1>6. CASE Synchronized(u) \/ Drain(u)
  <2>1. at[u] \in In /\ UNCHANGED <<chunks, sync>>
    BY <1>2, <1>6 DEF Synchronized, Drain, Move, Waiting
  <2> QED BY <1>5, <2>1 DEF Queue, sync
<1>7. CASE FreeFront(u)
  <2>1. /\ chunks'[u] = Tail(chunks[u]) /\ chunks[u] # <<>> /\ chunks[u] \in Seq(Chunk)
        /\ at[u] \in In
    BY <1>7 DEF FreeFront, Around, EpochTypeOK
  <2>2. UNCHANGED sync
    BY <1>2, <1>7 DEF FreeFront, Move, Waiting, EpochTypeOK
  <2>3. Queue(u)' \subseteq Queue(u)
    BY <2>1, TailIs DEF Queue
  <2> QED BY <1>5, <2>1, <2>2, <2>3 DEF sync
<1>8. ASSUME NEW w \in Threads, Visit(u, w)
      PROVE  /\ t \in slow'[u] => version_[t] <= epoch'[u]
             /\ t \notin slow'[u] \cup nodes'[u] =>
                    version_[t] > epoch'[u] /\ version_[t] \in later'[u]
  <2>1. /\ at[u] \in In /\ UNCHANGED <<chunks, epoch>> /\ slow[u] = {}
        /\ nodes'[u] = nodes[u] \ {w}
        /\ \/ NotAfter(w, epoch[u]) /\ slow'[u] = {w} /\ later'[u] = later[u]
           \/ ~NotAfter(w, epoch[u]) /\ slow'[u] = {} /\ later'[u] = later[u] \cup active[w]
    BY <1>8 DEF Visit, EpochTypeOK
  <2>2. Queue(u)' = Queue(u)
    BY <2>1 DEF Queue
  <2>3. t \notin slow[u] \cup nodes[u] => version_[t] > epoch[u] /\ version_[t] \in later[u]
    BY <1>2, <2>1, <2>2 DEF Visited
  <2>4. CASE w = t
    BY <1>1, <1>2, <1>3, <2>1, <2>4
  <2>5. CASE w # t
    BY <2>1, <2>3, <2>5
  <2> QED BY <2>4, <2>5
<1>9. CASE WaitOnEpoch(u)
  <2>1. /\ at[u] \in In /\ UNCHANGED <<chunks, epoch, nodes, later>> /\ slow'[u] = {}
    BY <1>2, <1>9 DEF WaitOnEpoch, EpochTypeOK
  <2>2. PICK w \in slow[u] : ~NotAfter(w, epoch[u])
    BY <1>9 DEF WaitOnEpoch
  <2>3. t \in slow[u] => w = t
    BY DEF EpochTypeOK, AtMostOne
  <2>4. Queue(u)' = Queue(u)
    BY <2>1 DEF Queue
  <2>5. t \notin slow[u]
    BY <1>2, <1>3, <2>1, <2>2, <2>3, <2>4 DEF Visited
  <2> QED BY <1>2, <2>1, <2>4, <2>5 DEF Visited
<1>10. ~(Start(u) \/ Version(u) \/ AccessLock(u) \/ Inside(u) \/ Abandon(u) \/ EndNothing(u)
         \/ EndCommit(u) \/ AccessUnlock(u))
  BY <1>2 DEF Start, Version, AccessLock, Inside, Abandon, EndNothing, EndCommit, AccessUnlock, Move,
     epochVars, Waiting, EpochTypeOK
<1> QED BY <1>4, <1>6, <1>7, <1>8, <1>9, <1>10 DEF Acts, EpochStep

LEMMA DueStep ==
    ASSUME EpochTypeOK, TypeOK, NEW u \in Threads, Around(u), Ordered(u), Due(u), Acts(u)
    PROVE  Due(u)'
<1> SUFFICES ASSUME u \notin Registrars
             PROVE  /\ at'[u] = "waiting" => Head(chunks'[u]).epoch <= epoch'[u]
                    /\ at'[u] = "freeing" =>
                           \/ Head(chunks'[u]).epoch <= epoch'[u]
                           \/ \A e \in later'[u] : Head(chunks'[u]).epoch < e
                    /\ at'[u] \in {"closing", "draining"} => \A c \in Queue(u)' : c.epoch <= epoch'[u]
  BY DEF Due
<1> DEFINE Goal == /\ at'[u] = "waiting" => Head(chunks'[u]).epoch <= epoch'[u]
                   /\ at'[u] = "freeing" =>
                          \/ Head(chunks'[u]).epoch <= epoch'[u]
                          \/ \A e \in later'[u] : Head(chunks'[u]).epoch < e
                   /\ at'[u] \in {"closing", "draining"} => \A c \in Queue(u)' : c.epoch <= epoch'[u]
<1> chunks[u] \in Seq(Chunk) /\ epoch[u] \in Nat
  BY DEF EpochTypeOK
<1>1. CASE Finalize(u)
  <2>1. at'[u] = "out" \/ (at'[u] = "waiting" /\ epoch'[u] = Head(chunks'[u]).epoch /\ working[u] # {})
    BY <1>1 DEF Finalize, Move, Synchronize, EpochTypeOK
  <2>2. working[u] # {} => Head(chunks'[u]).epoch \in Nat
    <3>1. working[u] # {} => \E c \in Chunk : chunks'[u] = Append(chunks[u], c)
      BY <1>1, FinalizedQueue
    <3>2. \A c \in Chunk : Head(Append(chunks[u], c)) \in Chunk
      OBVIOUS
    <3> QED BY <3>1, <3>2 DEF Chunk
  <2> QED BY <2>1, <2>2
<1>2. CASE Exit(u)
  <2>1. \/ at'[u] = "gone"
        \/ /\ at'[u] = "closing" /\ chunks' = chunks /\ chunks[u] # <<>>
           /\ epoch'[u] = chunks[u][Len(chunks[u])].epoch
    BY <1>2 DEF Exit, Move, Synchronize, EpochTypeOK
  <2>2. ASSUME chunks[u] # <<>>, NEW c \in Queue(u)
        PROVE  c.epoch <= chunks[u][Len(chunks[u])].epoch
    <3>1. PICK i \in DOMAIN chunks[u] : c = chunks[u][i]
      BY DEF Queue
    <3>2. i \in 1..Len(chunks[u]) /\ Len(chunks[u]) \in DOMAIN chunks[u]
      BY <2>2
    <3>3. c.objects # {} /\ chunks[u][Len(chunks[u])].objects # {}
      BY <3>1, <3>2 DEF Ordered, Epochs, Queue
    <3>4. c.epoch \in Nat /\ chunks[u][Len(chunks[u])].epoch \in Nat
      <4>1. c \in Chunk /\ chunks[u][Len(chunks[u])] \in Chunk
        BY <3>1, <3>2
      <4> QED BY <4>1 DEF Chunk
    <3>5. CASE i = Len(chunks[u])
      BY <3>1, <3>4, <3>5
    <3>6. CASE i < Len(chunks[u])
      BY <3>1, <3>2, <3>3, <3>4, <3>6 DEF Ordered
    <3> QED BY <3>2, <3>5, <3>6
  <2> QED BY <2>1, <2>2 DEF Queue
<1>3. CASE FreeFront(u)
  <2>1. chunks'[u] = Tail(chunks[u]) /\ chunks[u] # <<>>
    BY <1>3 DEF FreeFront, Around, EpochTypeOK
  <2>2. Queue(u)' \subseteq Queue(u)
    BY <2>1, TailIs DEF Queue
  <2>3. \/ at'[u] \in {"out", "gone"}
        \/ /\ at'[u] = at[u] /\ UNCHANGED sync /\ at[u] \in {"freeing", "draining"}
           /\ at[u] = "freeing" => \A e \in later[u] : Head(chunks'[u]).epoch < e
    BY <1>3, <2>1 DEF FreeFront, GoesOn, Move, EpochTypeOK
  <2> QED BY <2>2, <2>3 DEF Due, sync
<1>4. CASE Synchronized(u)
  <2>1. chunks'[u] = chunks[u] /\ epoch'[u] = epoch[u] /\ Queue(u)' = Queue(u)
    BY <1>4 DEF Synchronized, sync, Queue
  <2>2. \/ at[u] = "waiting" /\ at'[u] = "freeing"
        \/ at[u] = "closing" /\ at'[u] = "draining"
    <3>1. at \in [Threads -> Places]
      BY DEF EpochTypeOK
    <3> QED BY <1>4, <3>1 DEF Synchronized, Move
  <2> QED BY <2>1, <2>2 DEF Due
<1>5. ASSUME at'[u] = at[u], chunks'[u] = chunks[u], epoch'[u] = epoch[u],
             at[u] = "freeing" => later'[u] = later[u]
      PROVE  Goal
  BY <1>5 DEF Due, Queue
<1>6. CASE WaitOnEpoch(u) \/ \E w \in Threads : Visit(u, w)
  BY <1>5, <1>6 DEF WaitOnEpoch, Visit, Waiting
<1>7. CASE Drain(u)
  BY <1>5, <1>7 DEF Drain, sync
<1>8. CASE \/ Start(u) \/ Version(u) \/ AccessLock(u) \/ Inside(u) \/ Abandon(u) \/ EndNothing(u)
           \/ EndCommit(u) \/ AccessUnlock(u)
  <2>1. at'[u] \notin {"waiting", "freeing", "closing", "draining"}
    BY <1>8 DEF Start, Version, AccessLock, Inside, Abandon, EndNothing, EndCommit, AccessUnlock, Move,
       epochVars, EpochTypeOK
  <2> QED BY <2>1
<1> QED BY <1>1, <1>2, <1>3, <1>4, <1>6, <1>7, <1>8 DEF Acts, EpochStep

(* Nothing is freed that a running attempt has seen: its thread was in the *)
(* epoch waited for, or has an epoch later than that of the garbage.       *)
LEMMA UnfreedStep ==
    ASSUME Disciplined, EpochInv, Inv', NEW a \in Threads, Acts(a)
    PROVE  Unfreed'
<1>1. TypeOK /\ EpochTypeOK /\ Owned /\ \A u \in Threads : Progress(u)
  BY DEF EpochInv, GarbageInv, Inv, VersionsTellContents
<1>2. SUFFICES ASSUME NEW t \in Threads
               PROVE  seen'[t] \cap freed' = {}
  BY DEF Unfreed
<1>3. SeenEffect(t) /\ seen[t] \cap freed = {}
  BY SeenStep DEF EpochInv, GarbageInv, Unfreed
<1>4. CASE freed' = freed
  BY <1>3, <1>4 DEF SeenEffect
<1>5. CASE FreeFront(a)
  <2> DEFINE front == Head(chunks[a])
  <2>1. /\ UNCHANGED vars /\ freed' = freed \cup front.objects
        /\ chunks[a] # <<>> /\ chunks[a] \in Seq(Chunk) /\ at[a] \in {"freeing", "draining"}
        /\ nodes[a] = {} /\ slow[a] = {} /\ pc[a] = "idle"
    BY <1>5 DEF FreeFront, Around, EpochTypeOK, EpochInv, GarbageInv, Waiting
  <2>2. front \in Queue(a) /\ front \in Epochs(a) /\ front \in Chunk
    BY <2>1, TailIs DEF Queue, Epochs
  <2>3. seen'[t] = seen[t]
    BY <2>1 DEF vars, history
  <2>4. CASE t = a
    BY <1>1, <1>3, <2>1, <2>3, <2>4 DEF Progress, Attempting
  <2>5. ASSUME t # a, front.objects \cap seen[t] # {}
        PROVE  FALSE
    <3>1. a \notin Registrars
      BY <1>1, <2>5, ReadersArePublished DEF EpochInv, GarbageInv
    <3>2. version_[t] > epoch[a] /\ version_[t] \in later[a]
      BY <2>1, <2>2, <2>5 DEF EpochInv, Visited
    <3>3. version_[t] <= front.epoch
      BY <2>2, <2>5 DEF EpochInv, GarbageInv, ReadersAreEarlier
    <3>4. \/ front.epoch <= epoch[a]
          \/ \A e \in later[a] : front.epoch < e
      BY <2>1, <2>2, <3>1 DEF EpochInv, GarbageInv, Due
    <3>5. version_[t] \in Nat /\ epoch[a] \in Nat /\ front.epoch \in Nat
      BY <1>1, <2>2 DEF TypeOK, EpochTypeOK, Chunk
    <3> HIDE DEF front
    <3> QED BY <3>2, <3>3, <3>4, <3>5
  <2> QED BY <1>3, <2>1, <2>3, <2>4, <2>5
<1>6. FreeFront(a) \/ freed' = freed
  BY DEF Acts, EpochStep, Start, Version, AccessLock, Inside, Abandon, EndNothing, EndCommit,
     AccessUnlock, Finalize, WaitOnEpoch, Synchronized, Exit, Drain, Visit, epochVars
<1> QED BY <1>4, <1>5, <1>6

LEMMA GarbageInvInit == EpochInit => GarbageInv
<1> SUFFICES ASSUME EpochInit
             PROVE  GarbageInv
  OBVIOUS
<1>1. Inv /\ EpochTypeOK
  BY InvInit, EpochTypeInit DEF EpochInit
<1>2. ASSUME NEW t \in Threads
      PROVE  /\ at[t] = "out" /\ pc[t] = "idle" /\ seen[t] = {} /\ buffer[t] = <<>> /\ working[t] = {}
             /\ chunks[t] = <<>> /\ slow[t] = {} /\ write_set[t] = {} /\ done[t] = 0
  BY DEF EpochInit, Init
<1>3. \A t \in Threads : ReadsAreCalled(t) /\ Around(t) /\ Published(t) /\ Ordered(t) /\ Due(t)
  BY <1>2 DEF ReadsAreCalled, Around, Published, Ordered, Due, Epochs, Queue, Waiting
<1>4. \A t \in Threads : Garbage(t) = {} /\ Retired(t) = {}
  BY <1>2 DEF Garbage, Retired, Retiring
<1>5. freed = {} /\ \A v \in Vars : storage[v] = Initial
  BY DEF EpochInit, Init
<1>6. Owned
  <2>1. \A v \in Vars : ~Unborn(v, storage[v])
    BY <1>5, ConstantsAssumption DEF Unborn, Initial
  <2> QED BY <1>2, <1>4, <1>5, <2>1 DEF Owned
<1>7. \A t, u \in Threads : ReadersAreEarlier(t, u)
  BY <1>2 DEF ReadersAreEarlier
<1>8. Accounted
  BY <1>4, <1>5 DEF Accounted, Replacements, EpochInit
<1> QED BY <1>1, <1>3, <1>6, <1>7, <1>8 DEF GarbageInv

LEMMA GarbageInvStutters ==
    ASSUME GarbageInv, UNCHANGED allVars
    PROVE  GarbageInv'
<1> USE DEF allVars, epochVars, sync
<1>1. UNCHANGED vars
  OBVIOUS
<1>2. Inv'
  BY <1>1, InvStep DEF GarbageInv
<1>3. EpochTypeOK'
  BY DEF GarbageInv, EpochTypeOK
<1>4. /\ \A v, s : Unborn(v, s)' = Unborn(v, s)
      /\ \A u \in Threads : Retiring(u)' = Retiring(u)
      /\ storage' = storage
  BY <1>1, StillUnborn
<1>5. \A u \in Threads : /\ Garbage(u)' = Garbage(u) /\ Retired(u)' = Retired(u)
                         /\ Epochs(u)' = Epochs(u) /\ Queue(u)' = Queue(u)
  BY <1>4 DEF Garbage, Retired, Epochs, Queue
<1>6. UNCHANGED <<clock, pc, sync_epoch, seen, version_, what>>
  BY DEF vars, shared, history, call
<1>7. ASSUME NEW t \in Threads
      PROVE  ReadsAreCalled(t)' /\ Around(t)' /\ Published(t)' /\ Ordered(t)' /\ Due(t)'
  <2> ReadsAreCalled(t) /\ Around(t) /\ Published(t) /\ Ordered(t) /\ Due(t)
    BY DEF GarbageInv
  <2>1. ReadsAreCalled(t)' /\ Around(t)' /\ Published(t)'
    BY <1>6 DEF ReadsAreCalled, Reads, Around, Published
  <2>2. Ordered(t)' /\ Due(t)'
    BY <1>5, <1>6 DEF Ordered, Due
  <2> QED BY <2>1, <2>2
<1>8. Owned'
  <2>1. \A v \in Vars : ~Unborn(v, storage[v])'
    BY <1>4 DEF GarbageInv, Owned, Unborn
  <2> QED BY <1>4, <1>5, <2>1 DEF GarbageInv, Owned
<1>9. \A t, u \in Threads : ReadersAreEarlier(t, u)'
  BY <1>4, <1>5, <1>6 DEF GarbageInv, ReadersAreEarlier
<1>10. Accounted'
  BY <1>4, <1>5 DEF GarbageInv, Accounted, Replacements, Stored
<1> QED BY <1>2, <1>3, <1>7, <1>8, <1>9, <1>10 DEF GarbageInv

LEMMA ActsOrStutters ==
    ASSUME [EpochNext]_allVars
    PROVE  UNCHANGED allVars \/ (Remember /\ \E t \in Threads : Acts(t))
BY DEF EpochNext, Acts

LEMMA GarbageInvStep ==
    ASSUME GarbageInv, [EpochNext]_allVars
    PROVE  GarbageInv'
<1>1. Inv'
  BY InvStep, StepsOfTransactions DEF GarbageInv
<1>2. TypeOK /\ TypeOK' /\ \A t \in Threads : Progress(t)
  BY <1>1 DEF GarbageInv, Inv, VersionsTellContents
<1>3. EpochTypeOK'
  BY <1>2, EpochTypeStep DEF GarbageInv
<1>4. ASSUME NEW a \in Threads, Acts(a), Remember
      PROVE  GarbageInv'
  <2> EpochTypeOK /\ Inv /\ Owned /\ Accounted
    BY DEF GarbageInv
  <2> \A t \in Threads : ReadsAreCalled(t) /\ Around(t) /\ Published(t) /\ Ordered(t) /\ Due(t)
    BY DEF GarbageInv
  <2>1. \A t \in Threads : ReadsAreCalled(t)'
    BY <1>2, <1>4, ReadsAreCalledStep
  <2>2. \A t \in Threads : Around(t)'
    BY <1>2, <1>4, AroundStep
  <2>3. \A t \in Threads : Published(t)'
    BY <1>2, <1>4, PublishedStep
  <2>4. \A t \in Threads : Ordered(t)'
    BY <1>4, OrderedStep
  <2>5. ASSUME NEW t \in Threads
        PROVE  Due(t)'
    <3>1. CASE t = a
      BY <1>2, <1>4, <3>1, DueStep
    <3>2. CASE t # a
      <4>1. EpochSame(t)
        BY <1>4, <3>2, EpochFrame
      <4> QED BY <4>1 DEF EpochSame, Due, Queue
    <3> QED BY <3>1, <3>2
  <2>6. Owned'
    BY <1>4, OwnedStep
  <2>7. \A t, u \in Threads : ReadersAreEarlier(t, u)'
    BY <1>1, <1>4, ReadersStep DEF GarbageInv
  <2>8. Accounted'
    BY <1>4, AccountedStep
  <2> QED BY <1>1, <1>3, <2>1, <2>2, <2>3, <2>4, <2>5, <2>6, <2>7, <2>8 DEF GarbageInv
<1> QED BY <1>4, ActsOrStutters, GarbageInvStutters

LEMMA EpochInvInit == EpochInit => EpochInv
BY GarbageInvInit DEF EpochInit, Init, EpochInv, Visited, Unfreed, Waiting

LEMMA EpochInvStep ==
    ASSUME Disciplined, EpochInv, [EpochNext]_allVars
    PROVE  EpochInv'
<1>1. GarbageInv'
  BY GarbageInvStep DEF EpochInv
<1>2. Inv /\ Inv' /\ TypeOK /\ EpochTypeOK /\ Owned /\ \A t \in Threads : Progress(t)
  BY <1>1 DEF EpochInv, GarbageInv, Inv, VersionsTellContents
<1>3. CASE UNCHANGED allVars
  <2>1. /\ UNCHANGED <<at, chunks, epoch, nodes, slow, later, freed, seen, version_>>
    BY <1>3 DEF allVars, epochVars, sync, vars, history
  <2>2. \A t, u \in Threads : Visited(t, u)' = Visited(t, u)
    BY <2>1 DEF Visited, Queue
  <2> QED BY <1>1, <2>1, <2>2 DEF EpochInv, Unfreed
<1>4. ASSUME NEW a \in Threads, Acts(a)
      PROVE  EpochInv'
  <2>1. Unfreed'
    BY <1>2, <1>4, UnfreedStep
  <2>2. ASSUME NEW t \in Threads, NEW u \in Threads, t # u
        PROVE  Visited(t, u)'
    <3>1. Visited(t, u) /\ ReadsAreCalled(t) /\ Around(t) /\ Published(t) /\ Around(u)
      BY <2>2 DEF EpochInv, GarbageInv
    <3>2. CASE u = a
      <4>1. Same(t)
        BY <1>2, <1>4, <2>2, <3>2, SameTransaction
      <4>2. seen[t] # {} => active[t] = {version_[t]}
        BY <1>2, <2>2, <3>1, ReadersArePublished
      <4> QED BY <1>2, <1>4, <2>2, <3>1, <3>2, <4>1, <4>2, VisitedByWriter
    <3>3. CASE u # a
      <4>1. EpochSame(u) /\ SeenEffect(t)
        BY <1>2, <1>4, <3>3, EpochFrame, SeenStep
      <4> QED BY <1>2, <3>1, <4>1, VisitedByReader
    <3> QED BY <3>2, <3>3
  <2> QED BY <1>1, <2>1, <2>2 DEF EpochInv
<1> QED BY <1>3, <1>4, ActsOrStutters
-----------------------------------------------------------------------------
(* What holds *)

(* Queues, working epochs and the walks of reclaim fit together whatever   *)
(* is delayed: the invariant that needs no discipline of the threads.      *)
THEOREM GarbageCorrect == EpochSpec => []GarbageInv
<1>1. EpochInit => GarbageInv
  BY GarbageInvInit
<1>2. GarbageInv /\ [EpochNext]_allVars => GarbageInv'
  BY GarbageInvStep
<1> QED BY <1>1, <1>2, PTL DEF EpochSpec

(* Every variable of the reclamation keeps its type: a thread publishes at *)
(* most one epoch, has at most one working epoch, and waits for one node   *)
(* at a time.                                                              *)
THEOREM EpochTypeCorrect == EpochSpec => []EpochTypeOK
<1>1. GarbageInv => EpochTypeOK
  BY DEF GarbageInv
<1> QED BY <1>1, GarbageCorrect, PTL

(* Every object that commits have replaced, and no other, waits in one     *)
(* place until it is freed, once: with the commit, then in an epoch of its *)
(* thread.  None is dropped.                                               *)
THEOREM FreedOnceCorrect == EpochSpec => []FreedOnce
<1>1. GarbageInv => FreedOnce
  <2> SUFFICES ASSUME GarbageInv
               PROVE  FreedOnce
    OBVIOUS
  <2>1. Owned /\ Accounted
    BY DEF GarbageInv
  <2>2. Stored \cap Replacements = {}
    <3>1. CASE Threads = {}
      BY <2>1, <3>1 DEF Accounted, Replacements
    <3>2. CASE Threads # {}
      <4>1. ASSUME NEW v \in Vars \ AtomicVars
            PROVE  <<v, storage[v]>> \notin Replacements
        BY <2>1, <3>2 DEF Owned, Replacements
      <4> QED BY <4>1 DEF Stored
    <3> QED BY <3>1, <3>2
  <2>3. stored \ Stored = Replacements
    BY <2>1, <2>2 DEF Accounted
  <2> QED BY <2>1, <2>3 DEF Owned, FreedOnce, Replacements
<1> QED BY <1>1, GarbageCorrect, PTL

(* A thread frees in the order of its commits' epochs. *)
THEOREM ChunksOrdered == EpochSpec => []ChunksInOrder
<1>1. GarbageInv => ChunksInOrder
  BY DEF GarbageInv, Ordered, ChunksInOrder
<1> QED BY <1>1, GarbageCorrect, PTL

(* What an attempt has read stays allocated for as long as it runs, when   *)
(* the stores to active of the threads that read are not delayed, and no   *)
(* one waits for the earliest epoch on behalf of what others may read.     *)
THEOREM NothingUsedAfterFree ==
    ASSUME Disciplined
    PROVE  EpochSpec => []NoUseAfterFree
<1>1. EpochInit => EpochInv
  BY EpochInvInit
<1>2. EpochInv /\ [EpochNext]_allVars => EpochInv'
  BY EpochInvStep
<1>3. EpochInv => NoUseAfterFree
  BY DEF EpochInv, Unfreed, NoUseAfterFree
<1> QED BY <1>1, <1>2, <1>3, PTL DEF EpochSpec
=============================================================================
