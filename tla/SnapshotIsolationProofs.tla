------------------------ MODULE SnapshotIsolationProofs ------------------------
(***************************************************************************)
(* CommitAlgorithm implements SnapshotIsolation, for any number of         *)
(* threads, variables and transactions.                                    *)
(***************************************************************************)
EXTENDS CommitAlgorithmProofs

(* What a step of t does to the state of the promise, the memory aside. *)

Silent(t) ==
    Status(t)' = Status(t) /\ UNCHANGED <<snapshot, seen, write_set, done>>

Began(t) ==
    /\ GetClock(t) /\ Status(t) = "idle" /\ Status(t)' = "live"
    /\ snapshot' = [snapshot EXCEPT ![t] = Memory]
    /\ UNCHANGED <<seen, write_set, done>>

Added(t) ==
    /\ Status(t) = "live" /\ Status(t)' = "live" /\ cur[t] \in Vars
    /\ \/ /\ write_set' = [write_set EXCEPT ![t] = @ \cup {cur[t]}]
          /\ seen' = seen
       \/ /\ pc[t] \in {"fast", "slow"} /\ Valid(t, cur[t])
          /\ seen' = [seen EXCEPT ![t] = @ \cup {<<cur[t], loaded[t]>>}]
          /\ write_set' = write_set
    /\ UNCHANGED <<snapshot, done>>

Gone(t) ==
    /\ Status(t)' = "idle"
    /\ seen' = [seen EXCEPT ![t] = {}]
    /\ write_set' = [write_set EXCEPT ![t] = {}]
    /\ snapshot' = [snapshot EXCEPT ![t] = [v \in Vars |-> Initial]]

GaveUp(t) == Status(t) = "live" /\ Gone(t) /\ UNCHANGED done

Finished(t) == Status(t) # "idle" /\ Gone(t) /\ done' = [done EXCEPT ![t] = @ + 1]

Committed(t) ==
    /\ AllValid(t) /\ Status(t) = "live" /\ Status(t)' = "committed"
    /\ UNCHANGED <<snapshot, seen, write_set, done>>

AbstractStep(t) ==
    Silent(t) \/ Began(t) \/ Added(t) \/ GaveUp(t) \/ Finished(t) \/ Committed(t)

LEMMA AbstractStepLemma ==
    ASSUME TypeOK, NEW t \in Threads, Step(t)
    PROVE  AbstractStep(t)
<1>1. ASSUME NEW k \in {"read_write", "read_only"}, Invoke(t, k)
      PROVE  AbstractStep(t)
  BY <1>1 DEF Invoke, Goto, shared, sets, call, history, AbstractStep, Silent, Status,
       TypeOK
<1>2. ASSUME GetClock(t)
      PROVE  AbstractStep(t)
  BY <1>2 DEF GetClock, Goto, shared, sets, call, history, AbstractStep, Began, Status,
       TypeOK
<1>3. ASSUME Retry(t)
      PROVE  AbstractStep(t)
  BY <1>3 DEF Retry, Fail, EndAttempt, Returned, Goto, shared, AbstractStep, GaveUp, Gone,
       Status, TypeOK
<1>4. ASSUME Throw(t)
      PROVE  AbstractStep(t)
  BY <1>4 DEF Throw, Finish, EndAttempt, Returned, Goto, shared, AbstractStep, Finished,
       Gone, Status, TypeOK
<1>5. ASSUME NEW c \in Calls[t], ReadFast(t, c[1], c[2])
      PROVE  AbstractStep(t)
  BY <1>5 DEF ReadFast, Called, Goto, shared, sets, history, AbstractStep, Silent, Status,
       TypeOK
<1>6. ASSUME NEW c \in Calls[t], WriteFast(t, c[1], c[2])
      PROVE  AbstractStep(t)
  BY <1>6 DEF WriteFast, Called, Goto, shared, sets, history, AbstractStep, Silent, Status,
       TypeOK
<1>7. ASSUME NEW c \in Calls[t], SlowPath(t, c[1], c[2])
      PROVE  AbstractStep(t)
  BY <1>7 DEF SlowPath, Called, Goto, shared, sets, history, AbstractStep, Silent, Status,
       TypeOK
<1>8. ASSUME NEW c \in Calls[t], AccessPending(t, c[2])
      PROVE  AbstractStep(t)
  BY <1>8 DEF AccessPending, shared, sets, call, history, Fail, EndAttempt, Returned, Goto,
       AbstractStep, Silent, GaveUp, Gone, Status, TypeOK
<1>9. ASSUME Displace(t)
      PROVE  AbstractStep(t)
  BY <1>9 DEF Displace, Goto, Returned, shared, history, AbstractStep, Added, Status, TypeOK
<1>10. ASSUME Reload(t)
      PROVE  AbstractStep(t)
  BY <1>10 DEF Reload, Goto, shared, sets, history, AbstractStep, Silent, Status, TypeOK
<1>11. ASSUME CheckPasses(t)
      PROVE  AbstractStep(t)
  BY <1>11 DEF CheckPasses, Goto, Returned, shared, AbstractStep, Added, Status, TypeOK
<1>12. ASSUME CheckFails(t)
      PROVE  AbstractStep(t)
  BY <1>12 DEF CheckFails, shared, sets, call, history, Fail, EndAttempt, Returned, Goto,
       AbstractStep, Silent, GaveUp, Gone, Status, TypeOK
<1>13. ASSUME CommitNothing(t)
      PROVE  AbstractStep(t)
  BY <1>13 DEF CommitNothing, Finish, EndAttempt, Returned, Goto, shared, AbstractStep,
       Finished, Gone, Status, TypeOK
<1>14. ASSUME RemoveWritesFromReads(t)
      PROVE  AbstractStep(t)
  BY <1>14 DEF RemoveWritesFromReads, Goto, shared, call, history, AbstractStep, Silent,
       Status, TypeOK
<1>15. ASSUME NEW v \in Vars, LockLoad(t, v)
      PROVE  AbstractStep(t)
  <2>1. CASE Valid(t, v)
    BY <1>15, <2>1 DEF LockLoad, Goto, shared, Commit, sets, history, AbstractStep, Silent,
       Status, TypeOK
  <2>2. CASE ~Valid(t, v)
    BY <1>15, <2>2 DEF LockLoad, UnlockFrom, Goto, shared, Commit, sets, history,
       AbstractStep, Silent, Status, TypeOK
  <2> QED BY <2>1, <2>2
<1>16. ASSUME LockCas(t)
      PROVE  AbstractStep(t)
  <2>1. CASE SameWord(t, cur[t])
    BY <1>16, <2>1 DEF LockCas, Goto, Commit, sets, history, AbstractStep, Silent, Status,
       TypeOK
  <2>2. CASE ~SameWord(t, cur[t])
    BY <1>16, <2>2 DEF LockCas, UnlockFrom, Goto, Commit, sets, history, AbstractStep,
       Silent, Status, TypeOK
  <2> QED BY <2>1, <2>2
<1>17. ASSUME NEW v \in Vars, Unlock(t, v)
      PROVE  AbstractStep(t)
  BY <1>17 DEF Unlock, Commit, sets, history, AbstractStep, Silent, Status, TypeOK
<1>18. ASSUME CommitFailed(t)
      PROVE  AbstractStep(t)
  BY <1>18 DEF CommitFailed, Fail, EndAttempt, Returned, Goto, shared, AbstractStep,
       GaveUp, Gone, Status, TypeOK
<1>19. ASSUME AllLocked(t)
      PROVE  AbstractStep(t)
  BY <1>19 DEF AllLocked, NextLoop, Goto, shared, Commit, sets, history, AbstractStep,
       Silent, Status, TypeOK
<1>20. ASSUME NEW v \in Vars, ValidateRead(t, v)
      PROVE  AbstractStep(t)
  <2>1. CASE Valid(t, v)
    BY <1>20, <2>1 DEF ValidateRead, shared, Commit, sets, history, AbstractStep, Silent,
       Status, TypeOK
  <2>2. CASE ~Valid(t, v)
    BY <1>20, <2>2 DEF ValidateRead, UnlockFrom, Goto, shared, Commit, sets, history,
       AbstractStep, Silent, Status, TypeOK
  <2> QED BY <2>1, <2>2
<1>21. ASSUME AllValid(t)
      PROVE  AbstractStep(t)
  BY <1>21 DEF AllValid, NextLoop, Goto, shared, Commit, sets, history, AbstractStep,
       Committed, Status, TypeOK
<1>22. ASSUME NEW v \in Vars, DoWrite(t, v)
      PROVE  AbstractStep(t)
  BY <1>22 DEF DoWrite, Commit, sets, history, AbstractStep, Silent, Status, TypeOK
<1>23. ASSUME FetchAndBumpClock(t)
      PROVE  AbstractStep(t)
  BY <1>23 DEF FetchAndBumpClock, NextLoop, Goto, Commit, sets, history, AbstractStep,
       Silent, Status, TypeOK
<1>24. ASSUME NEW v \in Vars, Publish(t, v)
      PROVE  AbstractStep(t)
  BY <1>24 DEF Publish, WriteVersion, Commit, sets, history, AbstractStep, Silent, Status,
       TypeOK
<1>25. ASSUME CommitSucceeded(t)
      PROVE  AbstractStep(t)
  BY <1>25 DEF CommitSucceeded, Finish, EndAttempt, Returned, Goto, shared, AbstractStep,
       Finished, Gone, Status, TypeOK
<1> QED BY <1>1, <1>2, <1>3, <1>4, <1>5, <1>6, <1>7, <1>8, <1>9, <1>10, <1>11, <1>12,
       <1>13, <1>14, <1>15, <1>16, <1>17, <1>18, <1>19, <1>20, <1>21, <1>22, <1>23, <1>24,
       <1>25 DEF Step, User, Library
-----------------------------------------------------------------------------
(* The memory *)

(* A variable about to be stored counts as stored. *)
MemoryIs ==
    \A v \in Vars :
        /\ \A t \in Threads : pc[t] = "write" /\ v \in write_set[t] => Memory[v] = Fresh(t)
        /\ (\A t \in Threads : pc[t] = "write" => v \notin write_set[t]) => Memory[v] = storage[v]

LEMMA MemoryLemma == LockOwnership => MemoryIs
<1> SUFFICES ASSUME LockOwnership, NEW v \in Vars
             PROVE  /\ \A t \in Threads : pc[t] = "write" /\ v \in write_set[t] => Memory[v] = Fresh(t)
                    /\ (\A t \in Threads : pc[t] = "write" => v \notin write_set[t])
                           => Memory[v] = storage[v]
  BY DEF MemoryIs
<1>1. ASSUME NEW t \in Threads, pc[t] = "write", v \in write_set[t]
      PROVE  Memory[v] = Fresh(t)
  <2>1. \A u \in Threads : pc[u] = "write" /\ v \in write_set[u] => u = t
    BY <1>1 DEF LockOwnership, Held
  <2>2. (CHOOSE u \in Threads : pc[u] = "write" /\ v \in write_set[u]) = t
    BY <1>1, <2>1
  <2> QED BY <1>1, <2>2 DEF Memory
<1>2. (\A t \in Threads : pc[t] = "write" => v \notin write_set[t]) => Memory[v] = storage[v]
  BY DEF Memory
<1> QED BY <1>1, <1>2

LEMMA MemoryStep ==
    ASSUME Inv, Inv', NEW t \in Threads, Step(t)
    PROVE  Memory' = [v \in Vars |-> IF AllValid(t) /\ v \in write_set[t] THEN Fresh(t) ELSE Memory[v]]
<1>1. MemoryIs /\ MemoryIs'
  <2>1. LockOwnership => MemoryIs
    BY MemoryLemma
  <2>2. (LockOwnership => MemoryIs)'
    BY MemoryLemma, PTL
  <2> QED BY <2>1, <2>2 DEF Inv, VersionsTellContents
<1>2. TypeOK /\ Progress(t) /\ Progress(t)'
  BY DEF Inv, VersionsTellContents
<1>3. \A u \in Threads \ {t} : pc'[u] = pc[u] /\ write_set'[u] = write_set[u] /\ done'[u] = done[u]
  BY <1>2, Frame DEF Same
<1> SUFFICES ASSUME NEW v \in Vars
             PROVE  Memory'[v] = IF AllValid(t) /\ v \in write_set[t] THEN Fresh(t) ELSE Memory[v]
  BY DEF Memory
<1>4. CASE \E u \in Threads \ {t} : pc[u] = "write" /\ v \in write_set[u]
  <2>1. PICK u \in Threads \ {t} : pc[u] = "write" /\ v \in write_set[u]
    BY <1>4
  <2>2. Memory[v] = Fresh(u) /\ Memory'[v] = Fresh(u)
    BY <1>1, <1>3, <2>1 DEF MemoryIs, Fresh
  <2>3. ~(AllValid(t) /\ v \in write_set[t])
    BY <2>1 DEF AllValid, NextLoop, Held, LockOwnership, Inv, VersionsTellContents
  <2> QED BY <2>2, <2>3
<1>5. CASE \A u \in Threads \ {t} : pc[u] = "write" => v \notin write_set[u]
  <2>1. CASE Quiet(t)
    <3>1. Memory'[v] = storage'[v] /\ Memory[v] = storage[v]
      BY <1>1, <1>3, <1>5, <2>1 DEF MemoryIs, Quiet
    <3>2. ~AllValid(t)
      BY <1>2, <2>1 DEF AllValid, NextLoop, Goto, Quiet, TypeOK
    <3> QED BY <2>1, <3>1, <3>2 DEF Quiet
  <2>2. CASE AllValid(t)
    <3>1. /\ pc[t] # "write" /\ pc'[t] = "write" /\ UNCHANGED <<storage, write_set, done>>
      BY <1>2, <2>2 DEF AllValid, NextLoop, Goto, shared, Commit, sets, TypeOK
    <3>2. CASE v \in write_set[t]
      BY <1>1, <2>2, <3>1, <3>2 DEF MemoryIs, Fresh
    <3>3. CASE v \notin write_set[t]
      BY <1>1, <1>3, <1>5, <2>2, <3>1, <3>3 DEF MemoryIs
    <3> QED BY <3>2, <3>3
  <2>3. CASE FetchAndBumpClock(t)
    <3>1. /\ pc[t] = "write" /\ todo[t] = {} /\ pc'[t] = "publish" /\ storage' = storage
      BY <1>2, <2>3 DEF FetchAndBumpClock, NextLoop, Goto, TypeOK
    <3>2. Memory'[v] = storage[v]
      BY <1>1, <1>3, <1>5, <3>1 DEF MemoryIs
    <3>3. Memory[v] = storage[v]
      BY <1>1, <1>2, <1>5, <3>1 DEF MemoryIs, Progress
    <3> QED BY <3>1, <3>2, <3>3 DEF AllValid, NextLoop
  <2>4. ASSUME NEW w \in Vars, DoWrite(t, w)
        PROVE  Memory'[v] = IF AllValid(t) /\ v \in write_set[t] THEN Fresh(t) ELSE Memory[v]
    <3>1. /\ pc[t] = "write" /\ w \in write_set[t] /\ UNCHANGED <<pc, write_set, done>>
          /\ storage' = [storage EXCEPT ![w] = Fresh(t)]
      BY <1>2, <2>4 DEF DoWrite, Commit, sets, Progress
    <3>2. CASE v \in write_set[t]
      BY <1>1, <3>1, <3>2 DEF MemoryIs, Fresh, AllValid, NextLoop
    <3>3. CASE v \notin write_set[t]
      <4>1. Memory'[v] = storage'[v] /\ Memory[v] = storage[v]
        BY <1>1, <1>5, <3>1, <3>3 DEF MemoryIs
      <4> QED BY <1>2, <3>1, <3>3, <4>1 DEF TypeOK
    <3> QED BY <3>2, <3>3
  <2>5. ASSUME NEW w \in Vars, Publish(t, w)
        PROVE  Memory'[v] = IF AllValid(t) /\ v \in write_set[t] THEN Fresh(t) ELSE Memory[v]
    <3>1. pc[t] = "publish" /\ UNCHANGED <<pc, write_set, storage>>
      BY <2>5 DEF Publish, Commit, sets
    <3> QED BY <1>1, <1>5, <3>1 DEF MemoryIs, AllValid, NextLoop
  <2> QED BY <1>2, <2>1, <2>2, <2>3, <2>4, <2>5, QuietStep
<1> QED BY <1>4, <1>5

(* Nothing a commit replaces has changed since its snapshot. *)
LEMMA CommitUnchanged ==
    ASSUME Inv, NEW t \in Threads, AllValid(t), NEW v \in write_set[t]
    PROVE  Memory[v] = snapshot[t][v]
<1>1. TypeOK /\ LockOwnership /\ Versions /\ (\A u \in Threads : Progress(u))
      /\ \A u \in Attempting : Consistent(u)
  BY DEF Inv, VersionsTellContents
<1>2. pc[t] = "validate" /\ v \in Vars
  BY <1>1 DEF AllValid, NextLoop, TypeOK
<1>3. v \in Held(t) /\ t \in Attempting
  BY <1>2 DEF Held, Attempting
<1>4. \A u \in Threads : u # t => v \notin Held(u)
  BY <1>1, <1>3 DEF LockOwnership
<1>5. /\ \A u \in Threads : pc[u] = "write" => v \notin write_set[u]
      /\ \A u \in Threads : pc[u] = "publish" => v \notin todo[u]
  BY <1>1, <1>2, <1>4 DEF Held, Progress
<1>6. Settled(v, version_[t])
  BY <1>1, <1>2, <1>3, <1>5 DEF Settled, Versions
<1>7. Memory[v] = storage[v]
  BY <1>2, <1>5 DEF Memory
<1> QED BY <1>1, <1>2, <1>3, <1>6, <1>7 DEF Consistent
-----------------------------------------------------------------------------
(* The refinement *)

LEMMA RefinementInit == Init => Promise!Init
<1> SUFFICES ASSUME Init PROVE Promise!Init
  OBVIOUS
<1>1. Memory = [v \in Vars |-> Initial]
  BY DEF Init, Memory
<1>2. [t \in Threads |-> Status(t)] = [t \in Threads |-> "idle"]
  BY DEF Init, Status
<1> QED BY <1>1, <1>2 DEF Init, Promise!Init, Promise!Initial, Initial

LEMMA RefinementStep ==
    ASSUME Inv, Inv', NEW t \in Threads, Step(t)
    PROVE  [Promise!Next]_(Promise!vars)
<1> DEFINE status == [u \in Threads |-> Status(u)]
<1>1. TypeOK
  BY DEF Inv
<1>2. status' = [status EXCEPT ![t] = Status(t)']
  <2>1. \A u \in Threads \ {t} : Status(u)' = Status(u)
    BY <1>1, Frame DEF Same, Status
  <2> QED BY <2>1
<1>3. status[t] = Status(t)
  OBVIOUS
<1>4. ~AllValid(t) => Memory' = Memory
  BY MemoryStep DEF Memory
<1>5. AllValid(t) => Memory' = [v \in Vars |-> IF v \in write_set[t] THEN Fresh(t) ELSE Memory[v]]
  BY MemoryStep
<1> HIDE DEF status
<1>6. CASE Silent(t) /\ ~AllValid(t)
  <2>1. status' = status
    BY <1>2, <1>3, <1>6 DEF Silent, status
  <2> QED BY <1>4, <1>6, <2>1 DEF Silent, Promise!vars, status
<1>7. CASE Began(t)
  <2>1. ~AllValid(t)
    BY <1>7 DEF Began, GetClock, AllValid, NextLoop
  <2>2. Promise!Begin(t)
    BY <1>2, <1>3, <1>4, <1>7, <2>1 DEF Began, Promise!Begin, status
  <2> QED BY <2>2 DEF Promise!Next
<1>8. CASE Added(t)
  <2>1. ~AllValid(t) /\ status' = status
    <3>1. ~AllValid(t)
      BY <1>1, <1>8 DEF Added, AllValid, NextLoop, Goto, Status, TypeOK
    <3> QED BY <1>2, <1>3, <1>8, <3>1 DEF Added, status
  <2>2. CASE write_set' = [write_set EXCEPT ![t] = @ \cup {cur[t]}] /\ seen' = seen
    <3>1. Promise!Write(t, cur[t])
      BY <1>3, <1>4, <1>8, <2>1, <2>2 DEF Added, Promise!Write, status
    <3> QED BY <1>8, <3>1 DEF Added, Promise!Next
  <2>3. CASE /\ pc[t] \in {"fast", "slow"} /\ Valid(t, cur[t])
             /\ seen' = [seen EXCEPT ![t] = @ \cup {<<cur[t], loaded[t]>>}]
             /\ write_set' = write_set
    <3>1. loaded[t] = snapshot[t][cur[t]]
      <4>1. Settled(cur[t], version_[t]) /\ t \in Attempting /\ Consistent(t)
        BY <1>1, <1>8, <2>3, ValidSettled DEF Added, Inv, VersionsTellContents, Attempting
      <4> QED BY <1>8, <2>3, <4>1 DEF Added, Consistent
    <3>2. Promise!Read(t, cur[t])
      BY <1>3, <1>4, <1>8, <2>1, <2>3, <3>1 DEF Added, Promise!Read, status
    <3> QED BY <1>8, <3>2 DEF Added, Promise!Next
  <2> QED BY <1>8, <2>2, <2>3 DEF Added
<1>9. CASE GaveUp(t)
  <2>1. ~AllValid(t)
    BY <1>1, <1>9 DEF GaveUp, Gone, AllValid, NextLoop, Goto, Status, TypeOK
  <2>2. Promise!Fail(t)
    BY <1>2, <1>3, <1>4, <1>9, <2>1
       DEF GaveUp, Gone, Promise!Fail, Promise!Leave, Promise!Initial, Initial, status
  <2> QED BY <2>2 DEF Promise!Next
<1>10. CASE Finished(t)
  <2>1. ~AllValid(t)
    BY <1>1, <1>10 DEF Finished, Gone, AllValid, NextLoop, Goto, Status, TypeOK
  <2>2. Promise!Finish(t)
    BY <1>2, <1>3, <1>4, <1>10, <2>1
       DEF Finished, Gone, Promise!Finish, Promise!Leave, Promise!Initial, Initial, status
  <2> QED BY <2>2 DEF Promise!Next
<1>11. CASE Committed(t)
  <2>1. \A v \in write_set[t] : Memory[v] = snapshot[t][v]
    BY <1>11, CommitUnchanged DEF Committed
  <2>2. Promise!Commit(t)
    BY <1>2, <1>3, <1>5, <1>11, <2>1 DEF Committed, Promise!Commit, Promise!Fresh, Fresh, status
  <2> QED BY <2>2 DEF Promise!Next
<1>12. Silent(t) => ~AllValid(t)
  BY <1>1 DEF Silent, AllValid, NextLoop, Goto, Status, TypeOK
<1> QED BY <1>1, <1>6, <1>7, <1>8, <1>9, <1>10, <1>11, <1>12, AbstractStepLemma DEF AbstractStep

(* The commit algorithm keeps the promise of snapshot isolation: a         *)
(* commit takes effect at once, when its last read is validated.           *)
THEOREM Implements == Spec => ImplementsSnapshotIsolation
<1>1. Inv /\ Inv' /\ [Next]_vars => [Promise!Next]_(Promise!vars)
  <2>1. CASE UNCHANGED vars
    BY <2>1 DEF vars, shared, sets, history, Promise!vars, Memory, Status, Fresh
  <2> QED BY <2>1, RefinementStep DEF Next, Terminated
<1>2. Spec => []Inv
  BY InvCorrect
<1> QED BY <1>1, <1>2, RefinementInit, PTL DEF Spec, ImplementsSnapshotIsolation, Promise!Spec
=============================================================================
