------------------------ MODULE CommitAlgorithmProofs ------------------------
(***************************************************************************)
(* Proofs about CommitAlgorithm for any threads, variables, calls and      *)
(* bounds.                                                                 *)
(***************************************************************************)
EXTENDS CommitAlgorithm, TLAPS

LEMMA CallTypes ==
    ASSUME NEW t \in Threads, NEW c \in Calls[t]
    PROVE  c[1] \in {"read", "untracked", "write"} /\ c[2] \in Vars
BY ConstantsAssumption
-----------------------------------------------------------------------------
LEMMA TypeInit == Init => TypeOK
BY ConstantsAssumption DEF Init, Word, TypeOK, Storage, Initial, Labels

LEMMA TypeFail ==
    ASSUME TypeOK, NEW t \in Threads, Fail(t)
    PROVE  TypeOK'
BY DEF TypeOK, Fail, EndAttempt, Returned, Goto, shared, Storage, Initial, Labels

LEMMA TypeFinish ==
    ASSUME TypeOK, NEW t \in Threads, Finish(t)
    PROVE  TypeOK'
BY DEF TypeOK, Finish, EndAttempt, Returned, Goto, shared, Storage, Initial, Labels

LEMMA MemoryType ==
    ASSUME TypeOK
    PROVE  Memory \in [Vars -> Storage]
<1> SUFFICES ASSUME NEW v \in Vars,
                    \E t \in Threads : pc[t] = "write" /\ v \in write_set[t]
             PROVE  Fresh(CHOOSE t \in Threads : pc[t] = "write" /\ v \in write_set[t]) \in Storage
    BY DEF Memory, TypeOK
<1> (CHOOSE t \in Threads : pc[t] = "write" /\ v \in write_set[t]) \in Threads
    OBVIOUS
<1> QED BY DEF Fresh, Storage, TypeOK

LEMMA SetTypes ==
    ASSUME TypeOK, NEW t \in Threads, NEW S
    PROVE  /\ write_set[t] \in SUBSET Vars /\ write_set[t] \ S \in SUBSET Vars
           /\ read_set[t] \ S \in SUBSET Vars
           /\ todo[t] \ S \in SUBSET Vars
BY DEF TypeOK

LEMMA TypeAccessPending ==
    ASSUME TypeOK, NEW t \in Threads, NEW v \in Vars, AccessPending(t, v)
    PROVE  TypeOK'
<1>1. CASE Fail(t)
  BY <1>1, TypeFail
<1>2. CASE ~Fail(t)
  <2>1. ops' \in [Threads -> Nat]
    BY <1>2 DEF AccessPending, TypeOK
  <2>2. UNCHANGED <<shared, pc, kind, version_, sets, call, version_buf, todo,
                    sync_epoch, done, history>>
    BY <1>2 DEF AccessPending
  <2> QED BY <2>1, <2>2 DEF TypeOK, shared, sets, call, history
<1> QED BY <1>1, <1>2

LEMMA TypeStep ==
    ASSUME TypeOK, [Next]_vars
    PROVE  TypeOK'
<1>1. CASE UNCHANGED vars
    BY <1>1 DEF TypeOK, vars, shared, sets, call, history
<1>2. ASSUME NEW t \in Threads, Step(t)
      PROVE  TypeOK'
  <2>1. CASE Retry(t)
      BY <2>1, TypeFail, TypeFinish DEF Retry
  <2>2. CASE Throw(t)
      BY <2>2, TypeFail, TypeFinish DEF Throw
  <2>3. CASE CommitNothing(t)
      BY <2>3, TypeFail, TypeFinish DEF CommitNothing
  <2>4. CASE CommitFailed(t)
      BY <2>4, TypeFail, TypeFinish DEF CommitFailed
  <2>5. CASE CommitSucceeded(t)
      BY <2>5, TypeFail, TypeFinish DEF CommitSucceeded
  <2>6. ASSUME NEW k \in {"read_write", "read_only"}, Invoke(t, k) PROVE TypeOK'
      BY <2>6 DEF Invoke, TypeOK, Goto, shared, sets, call, history, Commit, Word, Storage, Labels
  <2>7. ASSUME NEW c \in Calls[t], ReadFast(t, c[1], c[2]) PROVE TypeOK'
      BY <2>7, CallTypes DEF ReadFast, Called, TypeOK, Goto, shared, sets, call, history, Commit, Word, Storage, Labels
  <2>8. ASSUME NEW c \in Calls[t], WriteFast(t, c[1], c[2]) PROVE TypeOK'
      BY <2>8, CallTypes DEF WriteFast, Called, TypeOK, Goto, shared, sets, call, history, Commit, Word, Storage, Labels
  <2>9. ASSUME NEW c \in Calls[t], SlowPath(t, c[1], c[2]) PROVE TypeOK'
      BY <2>9, CallTypes DEF SlowPath, Called, TypeOK, Goto, shared, sets, call, history, Commit, Word, Storage, Labels
  <2>10. ASSUME NEW c \in Calls[t], AccessPending(t, c[2]) PROVE TypeOK'
    BY <2>10, CallTypes, TypeAccessPending
  <2>11. CASE Displace(t)
      BY <2>11 DEF Displace, Returned, Initial, TypeOK, Goto, shared, sets, call, history, Commit, Word, Storage, Labels
  <2>12. CASE Reload(t)
      BY <2>12 DEF Reload, TypeOK, Goto, shared, sets, call, history, Commit, Word, Storage, Labels
  <2>13. CASE CheckPasses(t)
      BY <2>13 DEF CheckPasses, Returned, Initial, TypeOK, Goto, shared, sets, call, history, Commit, Word, Storage, Labels
  <2>14. CASE CheckFails(t)
      BY <2>14, TypeFail DEF CheckFails, TypeOK, Goto, shared, sets, call, history, Commit, Word, Storage, Labels
  <2>15. CASE LockCas(t)
    <3>1. todo' \in [Threads -> SUBSET Vars]
      <4>1. write_set[t] \ todo[t] \in SUBSET Vars /\ todo[t] \ {cur[t]} \in SUBSET Vars
        BY DEF TypeOK
      <4> QED BY <2>15, <4>1 DEF LockCas, UnlockFrom, TypeOK
    <3>2. version_buf' \in [Threads -> Nat] /\ cur' \in [Threads -> Vars \cup {Nobody}]
      BY <2>15 DEF LockCas, TypeOK, Commit
    <3>3. (\A u \in Threads :
              pc[u] \in {"fast", "reload", "slow", "displace", "cas"} => cur[u] \in Vars)'
      BY <2>15 DEF LockCas, TypeOK, Goto, UnlockFrom
    <3>4. pc' \in [Threads -> Labels]
      BY <2>15 DEF LockCas, TypeOK, Goto, UnlockFrom, Labels
    <3>5. version_lock' \in [Vars -> [version : Nat, locked : BOOLEAN]]
      <4>1. Word(version_buf[t], TRUE) \in [version : Nat, locked : BOOLEAN]
        BY DEF TypeOK, Word
      <4> QED BY <2>15, <4>1 DEF LockCas, TypeOK
    <3> QED BY <2>15, <3>1, <3>2, <3>3, <3>4, <3>5 DEF LockCas, TypeOK, shared, Commit, sets, history
  <2>16. CASE AllLocked(t)
      BY <2>16 DEF AllLocked, NextLoop, TypeOK, Goto, shared, sets, call, history, Commit, Word, Storage, Labels
  <2>17. CASE AllValid(t)
      BY <2>17 DEF AllValid, NextLoop, TypeOK, Goto, shared, sets, call, history, Commit, Word, Storage, Labels
  <2>18. CASE FetchAndBumpClock(t)
      BY <2>18 DEF FetchAndBumpClock, NextLoop, TypeOK, Goto, shared, sets, call, history, Commit, Word, Storage, Labels
  <2>19. CASE RemoveWritesFromReads(t)
      BY <2>19 DEF RemoveWritesFromReads, TypeOK, Goto, shared, sets, call, history, Commit, Word, Storage, Labels
  <2>20. CASE GetClock(t)
      BY <2>20, MemoryType DEF GetClock, TypeOK, Goto, shared, sets, call, history, Commit, Word, Storage, Labels
  <2>21. ASSUME NEW v \in Vars, LockLoad(t, v) PROVE TypeOK'
    <3>1. todo' \in [Threads -> SUBSET Vars]
      <4>1. write_set[t] \ todo[t] \in SUBSET Vars
        BY DEF TypeOK
      <4> QED BY <2>21, <4>1 DEF LockLoad, UnlockFrom, TypeOK
    <3>2. /\ version_buf' \in [Threads -> Nat]
          /\ cur' \in [Threads -> Vars \cup {Nobody}]
      <4>1. version_buf' \in [Threads -> Nat]
        BY <2>21 DEF LockLoad, TypeOK
      <4>2. cur' \in [Threads -> Vars \cup {Nobody}]
        BY <2>21 DEF LockLoad, TypeOK
      <4> QED BY <4>1, <4>2
    <3>3. (\A u \in Threads :
              pc[u] \in {"fast", "reload", "slow", "displace", "cas"} => cur[u] \in Vars)'
      BY <2>21 DEF LockLoad, TypeOK, Goto, UnlockFrom
    <3>4. pc' \in [Threads -> Labels]
      BY <2>21 DEF LockLoad, TypeOK, Goto, UnlockFrom, Labels
    <3>5. version_lock' \in [Vars -> [version : Nat, locked : BOOLEAN]]
      BY <2>21 DEF LockLoad, TypeOK, Word, shared
    <3> QED BY <2>21, <3>1, <3>2, <3>3, <3>4, <3>5 DEF LockLoad, TypeOK, shared, Commit, sets, history
  <2>22. ASSUME NEW v \in Vars, Unlock(t, v) PROVE TypeOK'
      BY <2>22 DEF Unlock, TypeOK, Goto, shared, sets, call, history, Commit, Word, Storage, Labels
  <2>23. ASSUME NEW v \in Vars, ValidateRead(t, v) PROVE TypeOK'
    <3>1. write_set[t] \in SUBSET Vars /\ todo[t] \ {v} \in SUBSET Vars
      BY SetTypes
    <3> QED BY <2>23, <3>1 DEF ValidateRead, UnlockFrom, TypeOK, Goto, shared, sets, call, history, Commit, Word, Storage, Labels
  <2>24. ASSUME NEW v \in Vars, DoWrite(t, v) PROVE TypeOK'
      BY <2>24 DEF DoWrite, Fresh, TypeOK, Goto, shared, sets, call, history, Commit, Word, Storage, Labels
  <2>25. ASSUME NEW v \in Vars, Publish(t, v) PROVE TypeOK'
      BY <2>25 DEF Publish, WriteVersion, TypeOK, Goto, shared, sets, call, history, Commit, Word, Storage, Labels
  <2> QED BY <1>2, <2>1, <2>2, <2>3, <2>4, <2>5, <2>6, <2>7, <2>8, <2>9, <2>10, <2>11, <2>12, <2>13, <2>14, <2>15, <2>16, <2>17, <2>18, <2>19, <2>20, <2>21, <2>22, <2>23, <2>24, <2>25 DEF Step, User, Library
<1> QED BY <1>1, <1>2 DEF Next, Terminated

(* Every variable of the specification keeps its type. *)
THEOREM TypeCorrect == Spec => []TypeOK
<1> QED BY TypeInit, TypeStep, PTL DEF Spec

(* What a step of one thread leaves alone of another. *)
Same(u) ==
    /\ pc'[u] = pc[u] /\ version_'[u] = version_[u]
    /\ read_set'[u] = read_set[u] /\ write_set'[u] = write_set[u] /\ displaced'[u] = displaced[u]
    /\ what'[u] = what[u] /\ cur'[u] = cur[u] /\ loaded'[u] = loaded[u] /\ version_buf'[u] = version_buf[u]
    /\ todo'[u] = todo[u] /\ sync_epoch'[u] = sync_epoch[u] /\ done'[u] = done[u]
    /\ snapshot'[u] = snapshot[u] /\ seen'[u] = seen[u]

LEMMA Frame ==
    ASSUME TypeOK, NEW t \in Threads, Step(t), NEW u \in Threads, u # t
    PROVE  Same(u)
<1> USE DEF TypeOK
<1>1. ASSUME NEW k \in {"read_write", "read_only"}, Invoke(t, k)
      PROVE  Same(u)
  BY <1>1 DEF Invoke, Goto, shared, sets, call, history, Same
<1>2. CASE GetClock(t)
  BY <1>2 DEF GetClock, Goto, shared, sets, call, history, Same
<1>3. CASE Retry(t)
  BY <1>3 DEF Retry, Fail, EndAttempt, Returned, Goto, shared, Same
<1>4. CASE Throw(t)
  BY <1>4 DEF Throw, Finish, EndAttempt, Returned, Goto, shared, Same
<1>5. ASSUME NEW c \in Calls[t], ReadFast(t, c[1], c[2])
      PROVE  Same(u)
  BY <1>5 DEF ReadFast, Called, Goto, shared, sets, history, Same
<1>6. ASSUME NEW c \in Calls[t], WriteFast(t, c[1], c[2])
      PROVE  Same(u)
  BY <1>6 DEF WriteFast, Called, Goto, shared, sets, history, Same
<1>7. ASSUME NEW c \in Calls[t], SlowPath(t, c[1], c[2])
      PROVE  Same(u)
  BY <1>7 DEF SlowPath, Called, Goto, shared, sets, history, Same
<1>8. ASSUME NEW c \in Calls[t], AccessPending(t, c[2])
      PROVE  Same(u)
  BY <1>8 DEF AccessPending, shared, sets, call, history, Fail, EndAttempt, Returned, Goto,
       Same
<1>9. CASE Displace(t)
  BY <1>9 DEF Displace, Goto, Returned, shared, history, Same
<1>10. CASE Reload(t)
  BY <1>10 DEF Reload, Goto, shared, sets, history, Same
<1>11. CASE CheckPasses(t)
  BY <1>11 DEF CheckPasses, Goto, Returned, shared, Same
<1>12. CASE CheckFails(t)
  BY <1>12 DEF CheckFails, shared, sets, call, history, Fail, EndAttempt, Returned, Goto,
       Same
<1>13. CASE CommitNothing(t)
  BY <1>13 DEF CommitNothing, Finish, EndAttempt, Returned, Goto, shared, Same
<1>14. CASE RemoveWritesFromReads(t)
  BY <1>14 DEF RemoveWritesFromReads, Goto, shared, call, history, Same
<1>15. ASSUME NEW v \in Vars, LockLoad(t, v)
      PROVE  Same(u)
  BY <1>15 DEF LockLoad, UnlockFrom, Goto, shared, Commit, sets, history, Same
<1>16. CASE LockCas(t)
  BY <1>16 DEF LockCas, UnlockFrom, Goto, Commit, sets, history, Same
<1>17. ASSUME NEW v \in Vars, Unlock(t, v)
      PROVE  Same(u)
  BY <1>17 DEF Unlock, Commit, sets, history, Same
<1>18. CASE CommitFailed(t)
  BY <1>18 DEF CommitFailed, Fail, EndAttempt, Returned, Goto, shared, Same
<1>19. CASE AllLocked(t)
  BY <1>19 DEF AllLocked, NextLoop, Goto, shared, Commit, sets, history, Same
<1>20. ASSUME NEW v \in Vars, ValidateRead(t, v)
      PROVE  Same(u)
  BY <1>20 DEF ValidateRead, UnlockFrom, Goto, shared, Commit, sets, history, Same
<1>21. CASE AllValid(t)
  BY <1>21 DEF AllValid, NextLoop, Goto, shared, Commit, sets, history, Same
<1>22. ASSUME NEW v \in Vars, DoWrite(t, v)
      PROVE  Same(u)
  BY <1>22 DEF DoWrite, Commit, sets, history, Same
<1>23. CASE FetchAndBumpClock(t)
  BY <1>23 DEF FetchAndBumpClock, NextLoop, Goto, Commit, sets, history, Same
<1>24. ASSUME NEW v \in Vars, Publish(t, v)
      PROVE  Same(u)
  BY <1>24 DEF Publish, WriteVersion, Commit, sets, history, Same
<1>25. CASE CommitSucceeded(t)
  BY <1>25 DEF CommitSucceeded, Finish, EndAttempt, Returned, Goto, shared, Same
<1> QED BY <1>1, <1>2, <1>3, <1>4, <1>5, <1>6, <1>7, <1>8, <1>9, <1>10, <1>11, <1>12,
       <1>13, <1>14, <1>15, <1>16, <1>17, <1>18, <1>19, <1>20, <1>21, <1>22, <1>23, <1>24,
       <1>25 DEF Step, User, Library


(* What a step does to the lock bits: nothing, or its thread takes a free  *)
(* variable, or it gives up one that it holds.                             *)
LockEffect(t) ==
    \/ UNCHANGED version_lock /\ Held(t)' = Held(t)
    \/ \E v \in Vars :
           /\ pc[t] = "cas" /\ version_lock[v] = Word(version_buf[t], FALSE)
           /\ version_lock' = [version_lock EXCEPT ![v] = Word(version_lock[v].version, TRUE)]
           /\ Held(t)' = Held(t) \cup {v}
    \/ \E v \in Held(t), n \in Nat :
           /\ pc[t] = "publish" => n = sync_epoch[t] + 1
           /\ pc[t] # "publish" => n = version_lock[v].version
           /\ version_lock' = [version_lock EXCEPT ![v] = Word(n, FALSE)]
           /\ Held(t)' = Held(t) \ {v}

LEMMA LockStep ==
    ASSUME TypeOK, NEW t \in Threads, Progress(t), LockOwnership, Step(t)
    PROVE  LockEffect(t)
<1>1. ASSUME NEW k \in {"read_write", "read_only"}, Invoke(t, k)
      PROVE  LockEffect(t)
  BY <1>1 DEF Invoke, Goto, shared, sets, call, history, LockEffect, Held, Progress, TypeOK
<1>2. CASE GetClock(t)
  BY <1>2 DEF GetClock, Goto, shared, sets, call, history, LockEffect, Held, Progress,
       TypeOK
<1>3. CASE Retry(t)
  BY <1>3 DEF Retry, Fail, EndAttempt, Returned, Goto, shared, LockEffect, Held, Progress,
       TypeOK
<1>4. CASE Throw(t)
  BY <1>4 DEF Throw, Finish, EndAttempt, Returned, Goto, shared, LockEffect, Held,
       Progress, TypeOK
<1>5. ASSUME NEW c \in Calls[t], ReadFast(t, c[1], c[2])
      PROVE  LockEffect(t)
  BY <1>5 DEF ReadFast, Called, Goto, shared, sets, history, LockEffect, Held, Progress,
       TypeOK
<1>6. ASSUME NEW c \in Calls[t], WriteFast(t, c[1], c[2])
      PROVE  LockEffect(t)
  BY <1>6 DEF WriteFast, Called, Goto, shared, sets, history, LockEffect, Held, Progress,
       TypeOK
<1>7. ASSUME NEW c \in Calls[t], SlowPath(t, c[1], c[2])
      PROVE  LockEffect(t)
  BY <1>7 DEF SlowPath, Called, Goto, shared, sets, history, LockEffect, Held, Progress,
       TypeOK
<1>8. ASSUME NEW c \in Calls[t], AccessPending(t, c[2])
      PROVE  LockEffect(t)
  BY <1>8 DEF AccessPending, shared, sets, call, history, Fail, EndAttempt, Returned, Goto,
       LockEffect, Held, Progress, TypeOK
<1>9. CASE Displace(t)
  BY <1>9 DEF Displace, Goto, Returned, shared, history, LockEffect, Held, Progress, TypeOK
<1>10. CASE Reload(t)
  BY <1>10 DEF Reload, Goto, shared, sets, history, LockEffect, Held, Progress, TypeOK
<1>11. CASE CheckPasses(t)
  BY <1>11 DEF CheckPasses, Goto, Returned, shared, LockEffect, Held, Progress, TypeOK
<1>12. CASE CheckFails(t)
  BY <1>12 DEF CheckFails, shared, sets, call, history, Fail, EndAttempt, Returned, Goto,
       LockEffect, Held, Progress, TypeOK
<1>13. CASE CommitNothing(t)
  BY <1>13 DEF CommitNothing, Finish, EndAttempt, Returned, Goto, shared, LockEffect, Held,
       Progress, TypeOK
<1>14. CASE RemoveWritesFromReads(t)
  BY <1>14 DEF RemoveWritesFromReads, Goto, shared, call, history, LockEffect, Held,
       Progress, TypeOK
<1>15. ASSUME NEW v \in Vars, LockLoad(t, v)
      PROVE  LockEffect(t)
  <2>1. UNCHANGED <<version_lock, write_set>>
    BY <1>15 DEF LockLoad, shared, Commit, sets
  <2>2. CASE Valid(t, v)
    BY <1>15, <2>1, <2>2 DEF LockLoad, LockEffect, Held, Goto, TypeOK
  <2>3. CASE ~Valid(t, v)
    <3>1. pc[t] = "lock" /\ pc'[t] = "unlock" /\ todo'[t] = write_set[t] \ todo[t]
      BY <1>15, <2>3 DEF LockLoad, UnlockFrom, Goto, TypeOK
    <3>2. Held(t)' = Held(t)
      BY <2>1, <3>1 DEF Held
    <3> QED BY <2>1, <3>2 DEF LockEffect
  <2> QED BY <2>2, <2>3
<1>16. CASE LockCas(t)
  <2> DEFINE v == cur[t]
  <2>1. CASE SameWord(t, v)
    <3>1. v \in Vars /\ v \in todo[t] /\ todo[t] \subseteq write_set[t]
      BY <1>16 DEF LockCas, TypeOK, Progress
    <3>2. version_lock[v] = Word(version_buf[t], FALSE)
      BY <2>1 DEF SameWord
    <3>3. ~version_lock[v].locked /\ version_lock[v].version = version_buf[t]
      BY <3>2 DEF Word
    <3>4. version_lock' = [version_lock EXCEPT ![v] = Word(version_lock[v].version, TRUE)]
      BY <1>16, <2>1, <3>3 DEF LockCas
    <3>5. Held(t)' = Held(t) \cup {v}
      BY <1>16, <2>1, <3>1 DEF LockCas, Held, Goto, Commit, sets, TypeOK
    <3> QED BY <1>16, <3>1, <3>2, <3>4, <3>5 DEF LockCas, LockEffect
  <2>2. CASE ~SameWord(t, v)
    <3>1. Held(t)' = Held(t)
      BY <1>16, <2>2 DEF LockCas, Held, UnlockFrom, Goto, Commit, sets, TypeOK
    <3> QED BY <1>16, <2>2, <3>1 DEF LockCas, LockEffect
  <2> QED BY <2>1, <2>2
<1>17. ASSUME NEW v \in Vars, Unlock(t, v)
      PROVE  LockEffect(t)
  <2>1. v \in Held(t) /\ version_lock[v].locked /\ version_lock[v].version \in Nat
    BY <1>17 DEF Unlock, Held, Progress, LockOwnership, TypeOK
  <2>2. version_lock' = [version_lock EXCEPT ![v] = Word(version_lock[v].version, FALSE)]
    BY <1>17, <2>1 DEF Unlock, TypeOK
  <2>3. Held(t)' = Held(t) \ {v}
    BY <1>17 DEF Unlock, Held, Commit, sets, TypeOK
  <2>4. pc[t] # "publish"
    BY <1>17 DEF Unlock
  <2> QED BY <2>1, <2>2, <2>3, <2>4 DEF LockEffect
<1>18. CASE CommitFailed(t)
  BY <1>18 DEF CommitFailed, Fail, EndAttempt, Returned, Goto, shared, LockEffect, Held,
       Progress, TypeOK
<1>19. CASE AllLocked(t)
  BY <1>19 DEF AllLocked, NextLoop, Goto, shared, Commit, sets, history, LockEffect, Held,
       Progress, TypeOK
<1>20. ASSUME NEW v \in Vars, ValidateRead(t, v)
      PROVE  LockEffect(t)
  BY <1>20 DEF ValidateRead, UnlockFrom, Goto, shared, Commit, sets, history, LockEffect,
       Held, Progress, TypeOK
<1>21. CASE AllValid(t)
  BY <1>21 DEF AllValid, NextLoop, Goto, shared, Commit, sets, history, LockEffect, Held,
       Progress, TypeOK
<1>22. ASSUME NEW v \in Vars, DoWrite(t, v)
      PROVE  LockEffect(t)
  BY <1>22 DEF DoWrite, Commit, sets, history, LockEffect, Held, Progress, TypeOK
<1>23. CASE FetchAndBumpClock(t)
  BY <1>23 DEF FetchAndBumpClock, NextLoop, Goto, Commit, sets, history, LockEffect, Held,
       Progress, TypeOK
<1>24. ASSUME NEW v \in Vars, Publish(t, v)
      PROVE  LockEffect(t)
  <2>1. v \in Held(t) /\ WriteVersion(t) \in Nat
    BY <1>24 DEF Publish, WriteVersion, Held, Progress, TypeOK
  <2>2. Held(t)' = Held(t) \ {v}
    BY <1>24 DEF Publish, Held, Commit, sets, TypeOK
  <2> QED BY <1>24, <2>1, <2>2 DEF Publish, WriteVersion, LockEffect
<1>25. CASE CommitSucceeded(t)
  BY <1>25 DEF CommitSucceeded, Finish, EndAttempt, Returned, Goto, shared, LockEffect,
       Held, Progress, TypeOK
<1> QED BY <1>1, <1>2, <1>3, <1>4, <1>5, <1>6, <1>7, <1>8, <1>9, <1>10, <1>11, <1>12,
       <1>13, <1>14, <1>15, <1>16, <1>17, <1>18, <1>19, <1>20, <1>21, <1>22, <1>23, <1>24,
       <1>25 DEF Step, User, Library


LEMMA OthersHold ==
    ASSUME TypeOK, NEW t \in Threads, Step(t), NEW u \in Threads, u # t
    PROVE  Held(u)' = Held(u)
BY Frame DEF Same, Held

LEMMA OwnershipStep ==
    ASSUME TypeOK, NEW t \in Threads, Progress(t), LockOwnership, Step(t)
    PROVE  LockOwnership'
<1>1. \A u \in Threads \ {t} : Held(u)' = Held(u)
  BY OthersHold
<1>2. LockEffect(t)
  BY LockStep
<1>3. CASE UNCHANGED version_lock /\ Held(t)' = Held(t)
  BY <1>1, <1>3 DEF LockOwnership
<1>4. ASSUME NEW v \in Vars,
             version_lock[v] = Word(version_buf[t], FALSE),
             version_lock' = [version_lock EXCEPT ![v] = Word(version_lock[v].version, TRUE)],
             Held(t)' = Held(t) \cup {v}
      PROVE  LockOwnership'
  <2>1. \A u \in Threads : v \notin Held(u)
    BY <1>4 DEF LockOwnership, Word
  <2>2. \A w \in Vars : version_lock'[w].locked <=> (w = v \/ version_lock[w].locked)
    BY <1>4 DEF TypeOK, Word
  <2>3. \A w \in Vars : version_lock'[w].locked <=> \E u \in Threads : w \in Held(u)'
    <3>1. \A w \in Vars, u \in Threads :
              w \in Held(u)' <=> (w \in Held(u) \/ (u = t /\ w = v))
      BY <1>1, <1>4
    <3>2. \A w \in Vars : version_lock[w].locked <=> \E u \in Threads : w \in Held(u)
      BY DEF LockOwnership
    <3> QED BY <2>2, <3>1, <3>2, Zenon
  <2>4. \A a, b \in Threads : a # b => Held(a)' \cap Held(b)' = {}
    BY <1>1, <1>4, <2>1 DEF LockOwnership
  <2> QED BY <2>3, <2>4 DEF LockOwnership
<1>5. ASSUME NEW v \in Held(t), NEW n \in Nat,
             version_lock' = [version_lock EXCEPT ![v] = Word(n, FALSE)],
             Held(t)' = Held(t) \ {v}
      PROVE  LockOwnership'
  <2>1. v \in Vars /\ \A u \in Threads \ {t} : v \notin Held(u)
    BY DEF LockOwnership, Held, TypeOK
  <2>2. \A w \in Vars : version_lock'[w].locked <=> (w # v /\ version_lock[w].locked)
    BY <1>5, <2>1 DEF TypeOK, Word
  <2>3. \A w \in Vars : version_lock'[w].locked <=> \E u \in Threads : w \in Held(u)'
    <3>1. \A w \in Vars, u \in Threads : w \in Held(u)' <=> (w \in Held(u) /\ w # v)
      BY <1>1, <1>5, <2>1
    <3>2. \A w \in Vars : version_lock[w].locked <=> \E u \in Threads : w \in Held(u)
      BY DEF LockOwnership
    <3> QED BY <2>2, <3>1, <3>2, Zenon
  <2>4. \A a, b \in Threads : a # b => Held(a)' \cap Held(b)' = {}
    BY <1>1, <1>5 DEF LockOwnership
  <2> QED BY <2>3, <2>4 DEF LockOwnership
<1> QED BY <1>2, <1>3, <1>4, <1>5 DEF LockEffect


(* Only do_writes stores, and only where its commit holds the lock. *)
LEMMA StorageStep ==
    ASSUME TypeOK, NEW t \in Threads, Progress(t), Step(t)
    PROVE  \/ UNCHANGED storage
           \/ /\ pc[t] = "write"
              /\ \E v \in Held(t) : storage' = [storage EXCEPT ![v] = Fresh(t)]
<1>1. ASSUME NEW k \in {"read_write", "read_only"}, Invoke(t, k)
      PROVE  UNCHANGED storage
  BY <1>1 DEF Invoke, Goto, shared, sets, call, history
<1>2. CASE GetClock(t)
  BY <1>2 DEF GetClock, Goto, shared, sets, call, history
<1>3. CASE Retry(t)
  BY <1>3 DEF Retry, Fail, EndAttempt, Returned, Goto, shared
<1>4. CASE Throw(t)
  BY <1>4 DEF Throw, Finish, EndAttempt, Returned, Goto, shared
<1>5. ASSUME NEW c \in Calls[t], ReadFast(t, c[1], c[2])
      PROVE  UNCHANGED storage
  BY <1>5 DEF ReadFast, Called, Goto, shared, sets, history
<1>6. ASSUME NEW c \in Calls[t], WriteFast(t, c[1], c[2])
      PROVE  UNCHANGED storage
  BY <1>6 DEF WriteFast, Called, Goto, shared, sets, history
<1>7. ASSUME NEW c \in Calls[t], SlowPath(t, c[1], c[2])
      PROVE  UNCHANGED storage
  BY <1>7 DEF SlowPath, Called, Goto, shared, sets, history
<1>8. ASSUME NEW c \in Calls[t], AccessPending(t, c[2])
      PROVE  UNCHANGED storage
  BY <1>8 DEF AccessPending, shared, sets, call, history, Fail, EndAttempt, Returned, Goto
<1>9. CASE Displace(t)
  BY <1>9 DEF Displace, Goto, Returned, shared, history
<1>10. CASE Reload(t)
  BY <1>10 DEF Reload, Goto, shared, sets, history
<1>11. CASE CheckPasses(t)
  BY <1>11 DEF CheckPasses, Goto, Returned, shared
<1>12. CASE CheckFails(t)
  BY <1>12 DEF CheckFails, shared, sets, call, history, Fail, EndAttempt, Returned, Goto
<1>13. CASE CommitNothing(t)
  BY <1>13 DEF CommitNothing, Finish, EndAttempt, Returned, Goto, shared
<1>14. CASE RemoveWritesFromReads(t)
  BY <1>14 DEF RemoveWritesFromReads, Goto, shared, call, history
<1>15. ASSUME NEW v \in Vars, LockLoad(t, v)
      PROVE  UNCHANGED storage
  BY <1>15 DEF LockLoad, UnlockFrom, Goto, shared, Commit, sets, history
<1>16. CASE LockCas(t)
  BY <1>16 DEF LockCas, UnlockFrom, Goto, Commit, sets, history
<1>17. ASSUME NEW v \in Vars, Unlock(t, v)
      PROVE  UNCHANGED storage
  BY <1>17 DEF Unlock, Commit, sets, history
<1>18. CASE CommitFailed(t)
  BY <1>18 DEF CommitFailed, Fail, EndAttempt, Returned, Goto, shared
<1>19. CASE AllLocked(t)
  BY <1>19 DEF AllLocked, NextLoop, Goto, shared, Commit, sets, history
<1>20. ASSUME NEW v \in Vars, ValidateRead(t, v)
      PROVE  UNCHANGED storage
  BY <1>20 DEF ValidateRead, UnlockFrom, Goto, shared, Commit, sets, history
<1>21. CASE AllValid(t)
  BY <1>21 DEF AllValid, NextLoop, Goto, shared, Commit, sets, history
<1>22. CASE FetchAndBumpClock(t)
  BY <1>22 DEF FetchAndBumpClock, NextLoop, Goto, Commit, sets, history
<1>23. ASSUME NEW v \in Vars, Publish(t, v)
      PROVE  UNCHANGED storage
  BY <1>23 DEF Publish, WriteVersion, Commit, sets, history
<1>24. CASE CommitSucceeded(t)
  BY <1>24 DEF CommitSucceeded, Finish, EndAttempt, Returned, Goto, shared
<1>25. ASSUME NEW v \in Vars, DoWrite(t, v)
       PROVE  /\ pc[t] = "write"
              /\ \E w \in Held(t) : storage' = [storage EXCEPT ![w] = Fresh(t)]
  BY <1>25 DEF DoWrite, Held, Progress
<1> QED BY <1>1, <1>2, <1>3, <1>4, <1>5, <1>6, <1>7, <1>8, <1>9, <1>10, <1>11, <1>12,
       <1>13, <1>14, <1>15, <1>16, <1>17, <1>18, <1>19, <1>20, <1>21, <1>22, <1>23, <1>24,
       <1>25 DEF Step, User, Library

LEMMA ProgressStep ==
    ASSUME TypeOK, \A u \in Threads : Progress(u), LockOwnership, NEW t \in Threads, Step(t)
    PROVE  \A u \in Threads : Progress(u)'
<1>1. Progress(t)
  OBVIOUS
<1>2. Progress(t)'
  <2>1. ASSUME NEW k \in {"read_write", "read_only"}, Invoke(t, k)
        PROVE  Progress(t)'
    BY <2>1, <1>1 DEF Invoke, Goto, shared, sets, call, history, Progress, Attempting,
         TypeOK, Labels, Fresh
  <2>2. CASE GetClock(t)
    BY <2>2, <1>1 DEF GetClock, Goto, shared, sets, call, history, Progress, Attempting,
         TypeOK, Labels, Fresh
  <2>3. CASE Retry(t)
    BY <2>3, <1>1 DEF Retry, Fail, EndAttempt, Returned, Goto, shared, Progress,
         Attempting, TypeOK, Labels, Fresh
  <2>4. CASE Throw(t)
    BY <2>4, <1>1 DEF Throw, Finish, EndAttempt, Returned, Goto, shared, Progress,
         Attempting, TypeOK, Labels, Fresh
  <2>5. ASSUME NEW c \in Calls[t], ReadFast(t, c[1], c[2])
        PROVE  Progress(t)'
    BY <2>5, <1>1 DEF ReadFast, Called, Goto, shared, sets, history, Progress, Attempting,
         TypeOK, Labels, Fresh
  <2>6. ASSUME NEW c \in Calls[t], WriteFast(t, c[1], c[2])
        PROVE  Progress(t)'
    BY <2>6, <1>1 DEF WriteFast, Called, Goto, shared, sets, history, Progress, Attempting,
         TypeOK, Labels, Fresh
  <2>7. ASSUME NEW c \in Calls[t], SlowPath(t, c[1], c[2])
        PROVE  Progress(t)'
    BY <2>7, <1>1 DEF SlowPath, Called, Goto, shared, sets, history, Progress, Attempting,
         TypeOK, Labels, Fresh
  <2>8. ASSUME NEW c \in Calls[t], AccessPending(t, c[2])
        PROVE  Progress(t)'
    BY <2>8, <1>1 DEF AccessPending, shared, sets, call, history, Fail, EndAttempt,
         Returned, Goto, Progress, Attempting, TypeOK, Labels, Fresh
  <2>9. CASE Displace(t)
    BY <2>9, <1>1 DEF Displace, Goto, Returned, shared, history, Progress, Attempting,
         TypeOK, Labels, Fresh
  <2>10. CASE Reload(t)
    BY <2>10, <1>1 DEF Reload, Goto, shared, sets, history, Progress, Attempting, TypeOK,
         Labels, Fresh
  <2>11. CASE CheckPasses(t)
    BY <2>11, <1>1 DEF CheckPasses, Goto, Returned, shared, Progress, Attempting, TypeOK,
         Labels, Fresh
  <2>12. CASE CheckFails(t)
    BY <2>12, <1>1 DEF CheckFails, shared, sets, call, history, Fail, EndAttempt, Returned,
         Goto, Progress, Attempting, TypeOK, Labels, Fresh
  <2>13. CASE CommitNothing(t)
    BY <2>13, <1>1 DEF CommitNothing, Finish, EndAttempt, Returned, Goto, shared, Progress,
         Attempting, TypeOK, Labels, Fresh
  <2>14. CASE RemoveWritesFromReads(t)
    BY <2>14, <1>1 DEF RemoveWritesFromReads, Goto, shared, call, history, Progress,
         Attempting, TypeOK, Labels, Fresh
  <2>15. ASSUME NEW v \in Vars, LockLoad(t, v)
        PROVE  Progress(t)'
    BY <2>15, <1>1 DEF LockLoad, UnlockFrom, Goto, shared, Commit, sets, history, Progress,
         Attempting, TypeOK, Labels, Fresh
  <2>16. CASE LockCas(t)
    <3> DEFINE v == cur[t]
    <3>1. /\ t \in Attempting /\ v \in todo[t] /\ todo[t] \subseteq write_set[t]
          /\ UNCHANGED <<write_set, seen, storage, done>>
      BY <2>16, <1>1 DEF LockCas, Progress, Attempting, Commit, sets, history
    <3>2. \/ pc'[t] = "lock" /\ todo'[t] = todo[t] \ {v}
          \/ pc'[t] = "unlock" /\ todo'[t] = write_set[t] \ todo[t]
      <4>1. CASE SameWord(t, v)
        BY <2>16, <4>1 DEF LockCas, Goto, TypeOK
      <4>2. CASE ~SameWord(t, v)
        BY <2>16, <4>2 DEF LockCas, UnlockFrom, Goto, TypeOK
      <4> QED BY <4>1, <4>2
    <3> QED BY <3>1, <3>2 DEF Progress, Attempting
  <2>17. ASSUME NEW v \in Vars, Unlock(t, v)
        PROVE  Progress(t)'
    BY <2>17, <1>1 DEF Unlock, Commit, sets, history, Progress, Attempting, TypeOK, Labels,
         Fresh
  <2>18. CASE CommitFailed(t)
    BY <2>18, <1>1 DEF CommitFailed, Fail, EndAttempt, Returned, Goto, shared, Progress,
         Attempting, TypeOK, Labels, Fresh
  <2>19. CASE AllLocked(t)
    BY <2>19, <1>1 DEF AllLocked, NextLoop, Goto, shared, Commit, sets, history, Progress,
         Attempting, TypeOK, Labels, Fresh
  <2>20. ASSUME NEW v \in Vars, ValidateRead(t, v)
        PROVE  Progress(t)'
    BY <2>20, <1>1 DEF ValidateRead, UnlockFrom, Goto, shared, Commit, sets, history,
         Progress, Attempting, TypeOK, Labels, Fresh
  <2>21. CASE AllValid(t)
    BY <2>21, <1>1 DEF AllValid, NextLoop, Goto, shared, Commit, sets, history, Progress,
         Attempting, TypeOK, Labels, Fresh
  <2>22. ASSUME NEW v \in Vars, DoWrite(t, v)
        PROVE  Progress(t)'
    BY <2>22, <1>1 DEF DoWrite, Commit, sets, history, Progress, Attempting, TypeOK,
         Labels, Fresh
  <2>23. CASE FetchAndBumpClock(t)
    BY <2>23, <1>1 DEF FetchAndBumpClock, NextLoop, Goto, Commit, sets, history, Progress,
         Attempting, TypeOK, Labels, Fresh
  <2>24. ASSUME NEW v \in Vars, Publish(t, v)
        PROVE  Progress(t)'
    BY <2>24, <1>1 DEF Publish, WriteVersion, Commit, sets, history, Progress, Attempting,
         TypeOK, Labels, Fresh
  <2>25. CASE CommitSucceeded(t)
    BY <2>25, <1>1 DEF CommitSucceeded, Finish, EndAttempt, Returned, Goto, shared,
         Progress, Attempting, TypeOK, Labels, Fresh
  <2> QED BY <2>1, <2>2, <2>3, <2>4, <2>5, <2>6, <2>7, <2>8, <2>9, <2>10, <2>11, <2>12,
         <2>13, <2>14, <2>15, <2>16, <2>17, <2>18, <2>19, <2>20, <2>21, <2>22, <2>23,
         <2>24, <2>25 DEF Step, User, Library
<1>3. ASSUME NEW u \in Threads, u # t
      PROVE  Progress(u)'
  <2>1. Same(u)
    BY <1>3, Frame
  <2>2. \A v \in Held(u) : storage'[v] = storage[v]
    <3>1. Held(u) \cap Held(t) = {} /\ Held(u) \subseteq Vars
      BY <1>3 DEF LockOwnership, Held, TypeOK
    <3>2. CASE UNCHANGED storage
      BY <3>2
    <3>3. ASSUME NEW w \in Held(t), storage' = [storage EXCEPT ![w] = Fresh(t)]
          PROVE  \A v \in Held(u) : storage'[v] = storage[v]
      BY <3>1, <3>3 DEF TypeOK
    <3> QED BY <1>1, <3>2, <3>3, StorageStep
  <2>3. Progress(u)
    OBVIOUS
  <2>4. pc[u] = "write" => \A v \in write_set[u] : v \in Held(u)
    BY DEF Held
  <2>5. pc[u] = "publish" => \A v \in todo[u] : v \in Held(u)
    BY <2>3 DEF Held, Progress
  <2> QED BY <2>1, <2>2, <2>3, <2>4, <2>5 DEF Progress, Same, Attempting, Fresh
<1> QED BY <1>2, <1>3


(* The steps that leave a thread somewhere between its first lock and the  *)
(* end of its validation.                                                  *)
LockingStep(t) ==
    pc'[t] \in {"lock", "cas", "validate"} =>
        /\ version_'[t] = version_[t]
        /\ \/ pc[t] = "run" /\ Held(t)' = {}
           \/ pc[t] \in {"lock", "cas", "validate"}

LEMMA LockingStepLemma ==
    ASSUME TypeOK, NEW t \in Threads, Step(t)
    PROVE  LockingStep(t)
<1>1. ASSUME NEW k \in {"read_write", "read_only"}, Invoke(t, k)
      PROVE  LockingStep(t)
  BY <1>1 DEF Invoke, Goto, shared, sets, call, history, LockingStep, Held, TypeOK
<1>2. CASE GetClock(t)
  BY <1>2 DEF GetClock, Goto, shared, sets, call, history, LockingStep, Held, TypeOK
<1>3. CASE Retry(t)
  BY <1>3 DEF Retry, Fail, EndAttempt, Returned, Goto, shared, LockingStep, Held, TypeOK
<1>4. CASE Throw(t)
  BY <1>4 DEF Throw, Finish, EndAttempt, Returned, Goto, shared, LockingStep, Held, TypeOK
<1>5. ASSUME NEW c \in Calls[t], ReadFast(t, c[1], c[2])
      PROVE  LockingStep(t)
  BY <1>5 DEF ReadFast, Called, Goto, shared, sets, history, LockingStep, Held, TypeOK
<1>6. ASSUME NEW c \in Calls[t], WriteFast(t, c[1], c[2])
      PROVE  LockingStep(t)
  BY <1>6 DEF WriteFast, Called, Goto, shared, sets, history, LockingStep, Held, TypeOK
<1>7. ASSUME NEW c \in Calls[t], SlowPath(t, c[1], c[2])
      PROVE  LockingStep(t)
  BY <1>7 DEF SlowPath, Called, Goto, shared, sets, history, LockingStep, Held, TypeOK
<1>8. ASSUME NEW c \in Calls[t], AccessPending(t, c[2])
      PROVE  LockingStep(t)
  BY <1>8 DEF AccessPending, shared, sets, call, history, Fail, EndAttempt, Returned, Goto,
       LockingStep, Held, TypeOK
<1>9. CASE Displace(t)
  BY <1>9 DEF Displace, Goto, Returned, shared, history, LockingStep, Held, TypeOK
<1>10. CASE Reload(t)
  BY <1>10 DEF Reload, Goto, shared, sets, history, LockingStep, Held, TypeOK
<1>11. CASE CheckPasses(t)
  BY <1>11 DEF CheckPasses, Goto, Returned, shared, LockingStep, Held, TypeOK
<1>12. CASE CheckFails(t)
  BY <1>12 DEF CheckFails, shared, sets, call, history, Fail, EndAttempt, Returned, Goto,
       LockingStep, Held, TypeOK
<1>13. CASE CommitNothing(t)
  BY <1>13 DEF CommitNothing, Finish, EndAttempt, Returned, Goto, shared, LockingStep,
       Held, TypeOK
<1>14. CASE RemoveWritesFromReads(t)
  BY <1>14 DEF RemoveWritesFromReads, Goto, shared, call, history, LockingStep, Held, TypeOK
<1>15. ASSUME NEW v \in Vars, LockLoad(t, v)
      PROVE  LockingStep(t)
  <2>1. version_' = version_ /\ pc[t] = "lock"
    BY <1>15 DEF LockLoad, Commit
  <2> QED BY <2>1 DEF LockingStep
<1>16. CASE LockCas(t)
  <2>1. version_' = version_ /\ pc[t] = "cas"
    BY <1>16 DEF LockCas, Commit
  <2> QED BY <2>1 DEF LockingStep
<1>17. ASSUME NEW v \in Vars, Unlock(t, v)
      PROVE  LockingStep(t)
  BY <1>17 DEF Unlock, Commit, sets, history, LockingStep, Held, TypeOK
<1>18. CASE CommitFailed(t)
  BY <1>18 DEF CommitFailed, Fail, EndAttempt, Returned, Goto, shared, LockingStep, Held,
       TypeOK
<1>19. CASE AllLocked(t)
  BY <1>19 DEF AllLocked, NextLoop, Goto, shared, Commit, sets, history, LockingStep, Held,
       TypeOK
<1>20. ASSUME NEW v \in Vars, ValidateRead(t, v)
      PROVE  LockingStep(t)
  BY <1>20 DEF ValidateRead, UnlockFrom, Goto, shared, Commit, sets, history, LockingStep,
       Held, TypeOK
<1>21. CASE AllValid(t)
  BY <1>21 DEF AllValid, NextLoop, Goto, shared, Commit, sets, history, LockingStep, Held,
       TypeOK
<1>22. ASSUME NEW v \in Vars, DoWrite(t, v)
      PROVE  LockingStep(t)
  BY <1>22 DEF DoWrite, Commit, sets, history, LockingStep, Held, TypeOK
<1>23. CASE FetchAndBumpClock(t)
  BY <1>23 DEF FetchAndBumpClock, NextLoop, Goto, Commit, sets, history, LockingStep, Held,
       TypeOK
<1>24. ASSUME NEW v \in Vars, Publish(t, v)
      PROVE  LockingStep(t)
  BY <1>24 DEF Publish, WriteVersion, Commit, sets, history, LockingStep, Held, TypeOK
<1>25. CASE CommitSucceeded(t)
  BY <1>25 DEF CommitSucceeded, Finish, EndAttempt, Returned, Goto, shared, LockingStep,
       Held, TypeOK
<1> QED BY <1>1, <1>2, <1>3, <1>4, <1>5, <1>6, <1>7, <1>8, <1>9, <1>10, <1>11, <1>12,
       <1>13, <1>14, <1>15, <1>16, <1>17, <1>18, <1>19, <1>20, <1>21, <1>22, <1>23, <1>24,
       <1>25 DEF Step, User, Library

(* The clock and the versions an attempt keeps. *)
LocalVersions(t) ==
    /\ version_[t] <= clock
    /\ pc[t] = "publish" => sync_epoch[t] < clock
    /\ pc[t] = "cas" => version_buf[t] <= version_[t]

LEMMA LocalVersionsStep ==
    ASSUME TypeOK, NEW t \in Threads, LocalVersions(t), Step(t)
    PROVE  clock <= clock' /\ LocalVersions(t)'
<1>1. ASSUME NEW k \in {"read_write", "read_only"}, Invoke(t, k)
      PROVE  clock <= clock' /\ LocalVersions(t)'
  BY <1>1 DEF Invoke, Goto, shared, sets, call, history, LocalVersions, TypeOK
<1>2. CASE GetClock(t)
  BY <1>2 DEF GetClock, Goto, shared, sets, call, history, LocalVersions, TypeOK
<1>3. CASE Retry(t)
  BY <1>3 DEF Retry, Fail, EndAttempt, Returned, Goto, shared, LocalVersions, TypeOK
<1>4. CASE Throw(t)
  BY <1>4 DEF Throw, Finish, EndAttempt, Returned, Goto, shared, LocalVersions, TypeOK
<1>5. ASSUME NEW c \in Calls[t], ReadFast(t, c[1], c[2])
      PROVE  clock <= clock' /\ LocalVersions(t)'
  BY <1>5 DEF ReadFast, Called, Goto, shared, sets, history, LocalVersions, TypeOK
<1>6. ASSUME NEW c \in Calls[t], WriteFast(t, c[1], c[2])
      PROVE  clock <= clock' /\ LocalVersions(t)'
  BY <1>6 DEF WriteFast, Called, Goto, shared, sets, history, LocalVersions, TypeOK
<1>7. ASSUME NEW c \in Calls[t], SlowPath(t, c[1], c[2])
      PROVE  clock <= clock' /\ LocalVersions(t)'
  BY <1>7 DEF SlowPath, Called, Goto, shared, sets, history, LocalVersions, TypeOK
<1>8. ASSUME NEW c \in Calls[t], AccessPending(t, c[2])
      PROVE  clock <= clock' /\ LocalVersions(t)'
  BY <1>8 DEF AccessPending, shared, sets, call, history, Fail, EndAttempt, Returned, Goto,
       LocalVersions, TypeOK
<1>9. CASE Displace(t)
  BY <1>9 DEF Displace, Goto, Returned, shared, history, LocalVersions, TypeOK
<1>10. CASE Reload(t)
  BY <1>10 DEF Reload, Goto, shared, sets, history, LocalVersions, TypeOK
<1>11. CASE CheckPasses(t)
  BY <1>11 DEF CheckPasses, Goto, Returned, shared, LocalVersions, TypeOK
<1>12. CASE CheckFails(t)
  BY <1>12 DEF CheckFails, shared, sets, call, history, Fail, EndAttempt, Returned, Goto,
       LocalVersions, TypeOK
<1>13. CASE CommitNothing(t)
  BY <1>13 DEF CommitNothing, Finish, EndAttempt, Returned, Goto, shared, LocalVersions,
       TypeOK
<1>14. CASE RemoveWritesFromReads(t)
  BY <1>14 DEF RemoveWritesFromReads, Goto, shared, call, history, LocalVersions, TypeOK
<1>15. ASSUME NEW v \in Vars, LockLoad(t, v)
      PROVE  clock <= clock' /\ LocalVersions(t)'
  <2>1. UNCHANGED <<clock, version_, sync_epoch>>
    BY <1>15 DEF LockLoad, Commit, shared
  <2>2. CASE Valid(t, v)
    BY <1>15, <2>1, <2>2 DEF LockLoad, Valid, Goto, LocalVersions, TypeOK
  <2>3. CASE ~Valid(t, v)
    BY <1>15, <2>1, <2>3 DEF LockLoad, UnlockFrom, Goto, LocalVersions, TypeOK
  <2> QED BY <2>2, <2>3
<1>16. CASE LockCas(t)
  <2>1. UNCHANGED <<clock, version_, sync_epoch>>
    BY <1>16 DEF LockCas, Commit
  <2>2. pc'[t] \in {"lock", "unlock"}
    <3>1. CASE SameWord(t, cur[t])
      BY <1>16, <3>1 DEF LockCas, Goto, TypeOK
    <3>2. CASE ~SameWord(t, cur[t])
      BY <1>16, <3>2 DEF LockCas, UnlockFrom, Goto, TypeOK
    <3> QED BY <3>1, <3>2
  <2> QED BY <2>1, <2>2 DEF LocalVersions, TypeOK
<1>17. ASSUME NEW v \in Vars, Unlock(t, v)
      PROVE  clock <= clock' /\ LocalVersions(t)'
  BY <1>17 DEF Unlock, Commit, sets, history, LocalVersions, TypeOK
<1>18. CASE CommitFailed(t)
  BY <1>18 DEF CommitFailed, Fail, EndAttempt, Returned, Goto, shared, LocalVersions, TypeOK
<1>19. CASE AllLocked(t)
  BY <1>19 DEF AllLocked, NextLoop, Goto, shared, Commit, sets, history, LocalVersions,
       TypeOK
<1>20. ASSUME NEW v \in Vars, ValidateRead(t, v)
      PROVE  clock <= clock' /\ LocalVersions(t)'
  BY <1>20 DEF ValidateRead, UnlockFrom, Goto, shared, Commit, sets, history,
       LocalVersions, TypeOK
<1>21. CASE AllValid(t)
  BY <1>21 DEF AllValid, NextLoop, Goto, shared, Commit, sets, history, LocalVersions,
       TypeOK
<1>22. ASSUME NEW v \in Vars, DoWrite(t, v)
      PROVE  clock <= clock' /\ LocalVersions(t)'
  BY <1>22 DEF DoWrite, Commit, sets, history, LocalVersions, TypeOK
<1>23. CASE FetchAndBumpClock(t)
  BY <1>23 DEF FetchAndBumpClock, NextLoop, Goto, Commit, sets, history, LocalVersions,
       TypeOK
<1>24. ASSUME NEW v \in Vars, Publish(t, v)
      PROVE  clock <= clock' /\ LocalVersions(t)'
  BY <1>24 DEF Publish, WriteVersion, Commit, sets, history, LocalVersions, TypeOK
<1>25. CASE CommitSucceeded(t)
  BY <1>25 DEF CommitSucceeded, Finish, EndAttempt, Returned, Goto, shared, LocalVersions,
       TypeOK
<1> QED BY <1>1, <1>2, <1>3, <1>4, <1>5, <1>6, <1>7, <1>8, <1>9, <1>10, <1>11, <1>12,
       <1>13, <1>14, <1>15, <1>16, <1>17, <1>18, <1>19, <1>20, <1>21, <1>22, <1>23, <1>24,
       <1>25 DEF Step, User, Library

LEMMA VersionsStep ==
    ASSUME TypeOK, \A u \in Threads : Progress(u), LockOwnership, Versions,
           NEW t \in Threads, Step(t)
    PROVE  Versions'
<1>1. LockEffect(t) /\ LockingStep(t) /\ clock <= clock' /\ LocalVersions(t) /\ LocalVersions(t)'
  BY LockStep, LockingStepLemma, LocalVersionsStep DEF Versions, LocalVersions
<1>2. clock \in Nat /\ clock' \in Nat /\ sync_epoch[t] \in Nat
  <2>1. TypeOK'
    BY TypeStep DEF Next
  <2> QED BY <2>1 DEF TypeOK
<1>3. ASSUME NEW v \in Vars
      PROVE  version_lock'[v].version <= clock'
  <2>1. version_lock[v].version \in Nat /\ version_lock[v].version <= clock
    BY DEF Versions, TypeOK
  <2>2. \/ version_lock'[v].version = version_lock[v].version
        \/ version_lock'[v].version = sync_epoch[t] + 1 /\ pc[t] = "publish"
    BY <1>1 DEF LockEffect, Word, TypeOK
  <2> QED BY <1>1, <1>2, <2>1, <2>2 DEF LocalVersions
<1>4. ASSUME NEW u \in Threads, u # t
      PROVE  /\ LocalVersions(u)'
             /\ pc'[u] \in {"lock", "cas", "validate"} =>
                    \A v \in Held(u)' : version_lock'[v].version <= version_'[u]
  <2>1. Same(u) /\ Held(u)' = Held(u)
    BY <1>4, Frame, OthersHold
  <2>2. LocalVersions(u)'
    <3>1. LocalVersions(u) /\ version_[u] \in Nat /\ sync_epoch[u] \in Nat
      BY DEF Versions, LocalVersions, TypeOK
    <3> QED BY <1>1, <1>2, <2>1, <3>1 DEF LocalVersions, Same
  <2>3. \A v \in Held(u) : version_lock'[v] = version_lock[v]
    <3>1. \A v \in Held(u) : v \in Vars /\ version_lock[v].locked /\ v \notin Held(t)
      BY <1>4 DEF LockOwnership, Held, TypeOK
    <3> QED BY <1>1, <3>1 DEF LockEffect, Word, TypeOK
  <2> QED BY <2>1, <2>2, <2>3 DEF Versions, Same
<1>5. pc'[t] \in {"lock", "cas", "validate"} =>
          \A v \in Held(t)' : version_lock'[v].version <= version_'[t]
  <2> SUFFICES ASSUME pc'[t] \in {"lock", "cas", "validate"}, pc[t] \in {"lock", "cas", "validate"},
                      version_'[t] = version_[t],
                      NEW v \in Held(t)'
               PROVE  version_lock'[v].version <= version_[t]
    BY <1>1 DEF LockingStep
  <2>1. \A w \in Held(t) : w \in Vars /\ version_lock[w].version <= version_[t]
    BY DEF Versions, Held, TypeOK
  <2>2. CASE UNCHANGED version_lock /\ Held(t)' = Held(t)
    BY <2>1, <2>2
  <2>3. ASSUME NEW w \in Vars,
               pc[t] = "cas", version_lock[w] = Word(version_buf[t], FALSE),
               version_lock' = [version_lock EXCEPT ![w] = Word(version_lock[w].version, TRUE)],
               Held(t)' = Held(t) \cup {w}
        PROVE  version_lock'[v].version <= version_[t]
    BY <1>1, <2>1, <2>3 DEF LocalVersions, Word, TypeOK
  <2>4. ASSUME NEW w \in Held(t), NEW n \in Nat,
               version_lock' = [version_lock EXCEPT ![w] = Word(n, FALSE)],
               Held(t)' = Held(t) \ {w}
        PROVE  version_lock'[v].version <= version_[t]
    BY <2>1, <2>4 DEF TypeOK
  <2> QED BY <1>1, <2>2, <2>3, <2>4 DEF LockEffect
<1> QED BY <1>1, <1>3, <1>4, <1>5 DEF Versions, LocalVersions


(* Most steps change no content and no version. *)
Quiet(t) ==
    /\ pc[t] # "write" /\ pc'[t] \notin {"write", "publish"}
    /\ pc[t] = "publish" => todo[t] = {}
    /\ storage' = storage
    /\ \A v \in Vars : version_lock'[v].version = version_lock[v].version

LEMMA QuietStep ==
    ASSUME TypeOK, NEW t \in Threads, Step(t)
    PROVE  \/ Quiet(t) \/ AllValid(t) \/ FetchAndBumpClock(t)
           \/ \E v \in Vars : DoWrite(t, v) \/ Publish(t, v)
<1>1. ASSUME NEW k \in {"read_write", "read_only"}, Invoke(t, k)
      PROVE  Quiet(t)
  BY <1>1 DEF Invoke, Goto, shared, sets, call, history, Quiet, Word, TypeOK
<1>2. CASE GetClock(t)
  BY <1>2 DEF GetClock, Goto, shared, sets, call, history, Quiet, Word, TypeOK
<1>3. CASE Retry(t)
  BY <1>3 DEF Retry, Fail, EndAttempt, Returned, Goto, shared, Quiet, Word, TypeOK
<1>4. CASE Throw(t)
  BY <1>4 DEF Throw, Finish, EndAttempt, Returned, Goto, shared, Quiet, Word, TypeOK
<1>5. ASSUME NEW c \in Calls[t], ReadFast(t, c[1], c[2])
      PROVE  Quiet(t)
  BY <1>5 DEF ReadFast, Called, Goto, shared, sets, history, Quiet, Word, TypeOK
<1>6. ASSUME NEW c \in Calls[t], WriteFast(t, c[1], c[2])
      PROVE  Quiet(t)
  BY <1>6 DEF WriteFast, Called, Goto, shared, sets, history, Quiet, Word, TypeOK
<1>7. ASSUME NEW c \in Calls[t], SlowPath(t, c[1], c[2])
      PROVE  Quiet(t)
  BY <1>7 DEF SlowPath, Called, Goto, shared, sets, history, Quiet, Word, TypeOK
<1>8. ASSUME NEW c \in Calls[t], AccessPending(t, c[2])
      PROVE  Quiet(t)
  BY <1>8 DEF AccessPending, shared, sets, call, history, Fail, EndAttempt, Returned, Goto,
       Quiet, Word, TypeOK
<1>9. CASE Displace(t)
  BY <1>9 DEF Displace, Goto, Returned, shared, history, Quiet, Word, TypeOK
<1>10. CASE Reload(t)
  BY <1>10 DEF Reload, Goto, shared, sets, history, Quiet, Word, TypeOK
<1>11. CASE CheckPasses(t)
  BY <1>11 DEF CheckPasses, Goto, Returned, shared, Quiet, Word, TypeOK
<1>12. CASE CheckFails(t)
  BY <1>12 DEF CheckFails, shared, sets, call, history, Fail, EndAttempt, Returned, Goto,
       Quiet, Word, TypeOK
<1>13. CASE CommitNothing(t)
  BY <1>13 DEF CommitNothing, Finish, EndAttempt, Returned, Goto, shared, Quiet, Word,
       TypeOK
<1>14. CASE RemoveWritesFromReads(t)
  BY <1>14 DEF RemoveWritesFromReads, Goto, shared, call, history, Quiet, Word, TypeOK
<1>15. ASSUME NEW v \in Vars, LockLoad(t, v)
      PROVE  Quiet(t)
  <2>1. UNCHANGED shared /\ pc[t] = "lock" /\ pc'[t] \in {"cas", "unlock"}
    <3>1. CASE Valid(t, v)
      BY <1>15, <3>1 DEF LockLoad, Goto, TypeOK
    <3>2. CASE ~Valid(t, v)
      BY <1>15, <3>2 DEF LockLoad, UnlockFrom, Goto, TypeOK
    <3> QED BY <3>1, <3>2
  <2> QED BY <2>1 DEF Quiet, shared
<1>16. CASE LockCas(t)
  <2>1. storage' = storage /\ pc[t] = "cas" /\ cur[t] \in Vars
    BY <1>16 DEF LockCas, TypeOK
  <2>2. CASE SameWord(t, cur[t])
    <3>1. version_lock[cur[t]].version = version_buf[t]
      BY <2>2 DEF SameWord, Word
    <3>2. version_lock' = [version_lock EXCEPT ![cur[t]] = Word(version_buf[t], TRUE)]
          /\ pc'[t] = "lock"
      BY <1>16, <2>2 DEF LockCas, Goto, TypeOK
    <3> QED BY <2>1, <3>1, <3>2 DEF Quiet, Word, TypeOK
  <2>3. CASE ~SameWord(t, cur[t])
    <3>1. version_lock' = version_lock /\ pc'[t] = "unlock"
      BY <1>16, <2>3 DEF LockCas, UnlockFrom, Goto, TypeOK
    <3> QED BY <2>1, <3>1 DEF Quiet
  <2> QED BY <2>2, <2>3
<1>17. ASSUME NEW v \in Vars, Unlock(t, v)
      PROVE  Quiet(t)
  BY <1>17 DEF Unlock, Commit, sets, history, Quiet, Word, TypeOK
<1>18. CASE CommitFailed(t)
  BY <1>18 DEF CommitFailed, Fail, EndAttempt, Returned, Goto, shared, Quiet, Word, TypeOK
<1>19. CASE AllLocked(t)
  BY <1>19 DEF AllLocked, NextLoop, Goto, shared, Commit, sets, history, Quiet, Word, TypeOK
<1>20. ASSUME NEW v \in Vars, ValidateRead(t, v)
      PROVE  Quiet(t)
  BY <1>20 DEF ValidateRead, UnlockFrom, Goto, shared, Commit, sets, history, Quiet, Word,
       TypeOK
<1>21. CASE CommitSucceeded(t)
  BY <1>21 DEF CommitSucceeded, Finish, EndAttempt, Returned, Goto, shared, Quiet, Word,
       TypeOK
<1> QED BY <1>1, <1>2, <1>3, <1>4, <1>5, <1>6, <1>7, <1>8, <1>9, <1>10, <1>11, <1>12,
       <1>13, <1>14, <1>15, <1>16, <1>17, <1>18, <1>19, <1>20, <1>21 DEF Step, User,
       Library

(* The argument of the whole algorithm: what is settled for a version that *)
(* was current before a step was settled before it, and keeps its storage. *)
LEMMA SettledStep ==
    ASSUME TypeOK, \A u \in Threads : Progress(u), LockOwnership, Versions,
           NEW t \in Threads, Step(t),
           NEW v \in Vars, NEW r \in Nat, r <= clock, Settled(v, r)'
    PROVE  Settled(v, r) /\ storage'[v] = storage[v]
<1>1. \A u \in Threads \ {t} :
          pc'[u] = pc[u] /\ write_set'[u] = write_set[u] /\ todo'[u] = todo[u]
          /\ sync_epoch'[u] = sync_epoch[u]
  BY Frame DEF Same
<1>2. CASE Quiet(t)
  BY <1>1, <1>2 DEF Quiet, Settled
<1>3. CASE AllValid(t)
  <2>1. pc[t] = "validate" /\ pc'[t] = "write" /\ UNCHANGED <<version_lock, storage>>
    BY <1>3 DEF AllValid, NextLoop, Goto, shared, TypeOK
  <2> QED BY <1>1, <2>1 DEF Settled
<1>4. CASE FetchAndBumpClock(t)
  <2>1. /\ pc[t] = "write" /\ pc'[t] = "publish" /\ todo'[t] = write_set[t]
        /\ sync_epoch'[t] = clock /\ UNCHANGED <<version_lock, storage>>
    BY <1>4 DEF FetchAndBumpClock, NextLoop, Goto, TypeOK
  <2>2. v \notin write_set[t]
    BY <2>1 DEF Settled, TypeOK
  <2> QED BY <1>1, <2>1, <2>2 DEF Settled
<1>5. ASSUME NEW w \in Vars, DoWrite(t, w)
      PROVE  Settled(v, r) /\ storage'[v] = storage[v]
  <2>1. /\ pc[t] = "write" /\ w \in write_set[t] /\ UNCHANGED <<version_lock, pc, write_set>>
        /\ storage' = [storage EXCEPT ![w] = Fresh(t)]
    BY <1>5 DEF DoWrite, Commit, sets, Progress
  <2>2. v # w
    BY <2>1 DEF Settled
  <2> QED BY <1>1, <2>1, <2>2 DEF Settled, TypeOK
<1>6. ASSUME NEW w \in Vars, Publish(t, w)
      PROVE  Settled(v, r) /\ storage'[v] = storage[v]
  <2>1. /\ pc[t] = "publish" /\ w \in todo[t] /\ UNCHANGED <<pc, write_set, sync_epoch, storage>>
        /\ todo'[t] = todo[t] \ {w}
        /\ version_lock' = [version_lock EXCEPT ![w] = Word(sync_epoch[t] + 1, FALSE)]
    BY <1>6 DEF Publish, WriteVersion, Commit, sets, TypeOK
  <2>2. CASE v # w
    BY <1>1, <2>1, <2>2 DEF Settled, TypeOK
  <2>3. CASE v = w
    <3>1. \A u \in Threads \ {t} : pc[u] = "publish" => v \notin todo[u]
      <4>1. \A u \in Threads : pc[u] = "publish" /\ v \in todo[u] => v \in Held(u)
        BY DEF Held, Progress
      <4> QED BY <2>1, <2>3, <4>1 DEF LockOwnership
    <3>2. version_lock'[v].version = sync_epoch[t] + 1
      BY <2>1, <2>3 DEF Word, TypeOK
    <3>3. \A u \in Threads : pc'[u] = "publish" => v \notin todo'[u]
      BY <1>1, <2>1, <2>3, <3>1
    <3>4. sync_epoch[t] + 1 <= r
      BY <3>2, <3>3 DEF Settled
    <3> QED BY <1>1, <2>1, <2>3, <3>1, <3>4 DEF Settled
  <2> QED BY <2>2, <2>3
<1> QED BY <1>2, <1>3, <1>4, <1>5, <1>6, QuietStep

(* What an attempt reads, and when: a load gives it the storage of the     *)
(* moment, a passed check turns what it has loaded into a read or a write. *)
ReadStep(t) ==
    /\ t \in Attempting' =>
        /\ \/ t \in Attempting /\ version_'[t] = version_[t] /\ snapshot'[t] = snapshot[t]
           \/ /\ t \notin Attempting /\ version_'[t] = clock /\ snapshot'[t] = Memory
              /\ write_set'[t] = write_set[t] /\ storage' = storage
              /\ pc'[t] \notin {"fast", "slow"}
        /\ pc'[t] \in {"fast", "slow"} => loaded'[t] = storage[cur'[t]]
        /\ \A v \in write_set'[t] \ AtomicVars :
               \/ v \in write_set[t] /\ displaced'[t][v] = displaced[t][v]
               \/ displaced'[t][v] = storage[v]
               \/ pc[t] \in {"fast", "slow"} /\ cur[t] = v /\ displaced'[t][v] = loaded[t]
    /\ \/ seen'[t] = {}
       \/ seen'[t] = seen[t] /\ (t \in Attempting => snapshot'[t] = snapshot[t])
       \/ /\ seen'[t] = seen[t] \cup {<<cur[t], loaded[t]>>} /\ snapshot'[t] = snapshot[t]
          /\ pc[t] \in {"fast", "slow"} /\ Valid(t, cur[t])

LEMMA ReadStepLemma ==
    ASSUME TypeOK, NEW t \in Threads, Step(t)
    PROVE  ReadStep(t)
<1>1. ASSUME NEW k \in {"read_write", "read_only"}, Invoke(t, k)
      PROVE  ReadStep(t)
  BY <1>1 DEF Invoke, Goto, shared, sets, call, history, ReadStep, Attempting, TypeOK
<1>2. CASE GetClock(t)
  BY <1>2 DEF GetClock, Goto, shared, sets, call, history, ReadStep, Attempting, TypeOK
<1>3. CASE Retry(t)
  BY <1>3 DEF Retry, Fail, EndAttempt, Returned, Goto, shared, ReadStep, Attempting, TypeOK
<1>4. CASE Throw(t)
  BY <1>4 DEF Throw, Finish, EndAttempt, Returned, Goto, shared, ReadStep, Attempting,
       TypeOK
<1>5. ASSUME NEW c \in Calls[t], ReadFast(t, c[1], c[2])
      PROVE  ReadStep(t)
  BY <1>5 DEF ReadFast, Called, Goto, shared, sets, history, ReadStep, Attempting, TypeOK
<1>6. ASSUME NEW c \in Calls[t], WriteFast(t, c[1], c[2])
      PROVE  ReadStep(t)
  BY <1>6 DEF WriteFast, Called, Goto, shared, sets, history, ReadStep, Attempting, TypeOK
<1>7. ASSUME NEW c \in Calls[t], SlowPath(t, c[1], c[2])
      PROVE  ReadStep(t)
  BY <1>7 DEF SlowPath, Called, Goto, shared, sets, history, ReadStep, Attempting, TypeOK
<1>8. ASSUME NEW c \in Calls[t], AccessPending(t, c[2])
      PROVE  ReadStep(t)
  BY <1>8 DEF AccessPending, shared, sets, call, history, Fail, EndAttempt, Returned, Goto,
       ReadStep, Attempting, TypeOK
<1>9. CASE Displace(t)
  BY <1>9 DEF Displace, Goto, Returned, shared, history, ReadStep, Attempting, TypeOK
<1>10. CASE Reload(t)
  BY <1>10 DEF Reload, Goto, shared, sets, history, ReadStep, Attempting, TypeOK
<1>11. CASE CheckPasses(t)
  BY <1>11 DEF CheckPasses, Goto, Returned, shared, ReadStep, Attempting, TypeOK
<1>12. CASE CheckFails(t)
  BY <1>12 DEF CheckFails, shared, sets, call, history, Fail, EndAttempt, Returned, Goto,
       ReadStep, Attempting, TypeOK
<1>13. CASE CommitNothing(t)
  BY <1>13 DEF CommitNothing, Finish, EndAttempt, Returned, Goto, shared, ReadStep,
       Attempting, TypeOK
<1>14. CASE RemoveWritesFromReads(t)
  BY <1>14 DEF RemoveWritesFromReads, Goto, shared, call, history, ReadStep, Attempting,
       TypeOK
<1>15. ASSUME NEW v \in Vars, LockLoad(t, v)
      PROVE  ReadStep(t)
  <2>1. /\ UNCHANGED <<version_, snapshot, write_set, displaced, loaded, seen>>
        /\ pc[t] = "lock" /\ pc'[t] \in {"cas", "unlock"}
    <3>1. CASE Valid(t, v)
      BY <1>15, <3>1 DEF LockLoad, Goto, Commit, sets, history, TypeOK
    <3>2. CASE ~Valid(t, v)
      BY <1>15, <3>2 DEF LockLoad, UnlockFrom, Goto, Commit, sets, history, TypeOK
    <3> QED BY <3>1, <3>2
  <2> QED BY <2>1 DEF ReadStep, Attempting
<1>16. CASE LockCas(t)
  <2>1. /\ UNCHANGED <<version_, snapshot, write_set, displaced, loaded, seen>>
        /\ pc[t] = "cas" /\ pc'[t] \in {"lock", "unlock"}
    <3>1. CASE SameWord(t, cur[t])
      BY <1>16, <3>1 DEF LockCas, Goto, Commit, sets, history, TypeOK
    <3>2. CASE ~SameWord(t, cur[t])
      BY <1>16, <3>2 DEF LockCas, UnlockFrom, Goto, Commit, sets, history, TypeOK
    <3> QED BY <3>1, <3>2
  <2> QED BY <2>1 DEF ReadStep, Attempting
<1>17. ASSUME NEW v \in Vars, Unlock(t, v)
      PROVE  ReadStep(t)
  BY <1>17 DEF Unlock, Commit, sets, history, ReadStep, Attempting, TypeOK
<1>18. CASE CommitFailed(t)
  BY <1>18 DEF CommitFailed, Fail, EndAttempt, Returned, Goto, shared, ReadStep,
       Attempting, TypeOK
<1>19. CASE AllLocked(t)
  BY <1>19 DEF AllLocked, NextLoop, Goto, shared, Commit, sets, history, ReadStep,
       Attempting, TypeOK
<1>20. ASSUME NEW v \in Vars, ValidateRead(t, v)
      PROVE  ReadStep(t)
  BY <1>20 DEF ValidateRead, UnlockFrom, Goto, shared, Commit, sets, history, ReadStep,
       Attempting, TypeOK
<1>21. CASE AllValid(t)
  BY <1>21 DEF AllValid, NextLoop, Goto, shared, Commit, sets, history, ReadStep,
       Attempting, TypeOK
<1>22. ASSUME NEW v \in Vars, DoWrite(t, v)
      PROVE  ReadStep(t)
  BY <1>22 DEF DoWrite, Commit, sets, history, ReadStep, Attempting, TypeOK
<1>23. CASE FetchAndBumpClock(t)
  BY <1>23 DEF FetchAndBumpClock, NextLoop, Goto, Commit, sets, history, ReadStep,
       Attempting, TypeOK
<1>24. ASSUME NEW v \in Vars, Publish(t, v)
      PROVE  ReadStep(t)
  BY <1>24 DEF Publish, WriteVersion, Commit, sets, history, ReadStep, Attempting, TypeOK
<1>25. CASE CommitSucceeded(t)
  BY <1>25 DEF CommitSucceeded, Finish, EndAttempt, Returned, Goto, shared, ReadStep,
       Attempting, TypeOK
<1> QED BY <1>1, <1>2, <1>3, <1>4, <1>5, <1>6, <1>7, <1>8, <1>9, <1>10, <1>11, <1>12,
       <1>13, <1>14, <1>15, <1>16, <1>17, <1>18, <1>19, <1>20, <1>21, <1>22, <1>23, <1>24,
       <1>25 DEF Step, User, Library

(* A check that passes finds a settled variable: its version_lock would be *)
(* locked if a commit were between its validation and its publication.     *)
LEMMA ValidSettled ==
    ASSUME TypeOK, \A u \in Threads : Progress(u), LockOwnership,
           NEW t \in Threads, NEW v \in Vars, Valid(t, v)
    PROVE  Settled(v, version_[t])
<1>1. \A u \in Threads : v \notin Held(u)
  BY DEF LockOwnership, Valid
<1>2. \A u \in Threads : pc[u] = "write" => v \notin write_set[u]
  BY <1>1 DEF Held
<1>3. \A u \in Threads : pc[u] = "publish" => v \notin todo[u]
  BY <1>1 DEF Held, Progress
<1> QED BY <1>2, <1>3 DEF Settled, Valid

(* SettledStep, for the version an attempt has after the step. *)
LEMMA SettledBefore ==
    ASSUME TypeOK, \A u \in Threads : Progress(u), LockOwnership, Versions,
           NEW t \in Threads, Step(t),
           NEW v \in Vars, NEW u \in Threads, version_'[u] <= clock, Settled(v, version_[u])'
    PROVE  Settled(v, version_'[u]) /\ storage'[v] = storage[v]
<1>1. TypeOK'
  BY TypeStep DEF Next
<1>2. PICK r \in Nat : r = version_'[u]
  BY <1>1 DEF TypeOK
<1>3. Settled(v, r)'
  BY <1>2 DEF Settled
<1> QED BY <1>2, <1>3, SettledStep

LEMMA ConsistentStep ==
    ASSUME TypeOK, VersionsTellContents, NEW t \in Threads, Step(t)
    PROVE  \A u \in Attempting' : Consistent(u)'
<1>1. /\ \A u \in Threads : Progress(u)
      /\ LockOwnership /\ Versions /\ \A u \in Attempting : Consistent(u)
  BY DEF VersionsTellContents
<1>2. ASSUME NEW u \in Attempting', u # t
      PROVE  Consistent(u)'
  <2>1. u \in Threads /\ Same(u) /\ u \in Attempting
    BY <1>2, Frame DEF Attempting, Same
  <2> SUFFICES ASSUME NEW v \in Vars, Settled(v, version_[u])'
               PROVE  /\ storage'[v] = snapshot'[u][v]
                      /\ pc'[u] \in {"fast", "slow"} /\ cur'[u] = v => loaded'[u] = snapshot'[u][v]
                      /\ v \in write_set'[u] \ AtomicVars => displaced'[u][v] = snapshot'[u][v]
    BY DEF Consistent
  <2>2. version_'[u] = version_[u] /\ version_[u] <= clock
    BY <1>1, <2>1 DEF Same, Versions
  <2>3. Settled(v, version_[u]) /\ storage'[v] = storage[v]
    BY <1>1, <2>1, <2>2, SettledBefore
  <2> QED BY <1>1, <2>1, <2>3 DEF Consistent, Same
<1>3. ASSUME t \in Attempting'
      PROVE  Consistent(t)'
  <2> SUFFICES ASSUME NEW v \in Vars, Settled(v, version_[t])'
               PROVE  /\ storage'[v] = snapshot'[t][v]
                      /\ pc'[t] \in {"fast", "slow"} /\ cur'[t] = v => loaded'[t] = snapshot'[t][v]
                      /\ v \in write_set'[t] \ AtomicVars => displaced'[t][v] = snapshot'[t][v]
    BY DEF Consistent
  <2>1. ReadStep(t)
    BY ReadStepLemma
  <2>2. CASE t \in Attempting /\ version_'[t] = version_[t] /\ snapshot'[t] = snapshot[t]
    <3>1. version_'[t] <= clock
      BY <1>1, <2>2 DEF Versions
    <3>2. Settled(v, version_[t]) /\ storage'[v] = storage[v]
      BY <1>1, <2>2, <3>1, SettledBefore
    <3>3. /\ storage[v] = snapshot[t][v]
          /\ pc[t] \in {"fast", "slow"} /\ cur[t] = v => loaded[t] = snapshot[t][v]
          /\ v \in write_set[t] \ AtomicVars => displaced[t][v] = snapshot[t][v]
      BY <1>1, <2>2, <3>2 DEF Consistent
    <3> QED BY <1>3, <2>1, <2>2, <3>2, <3>3 DEF ReadStep
  <2>3. CASE /\ t \notin Attempting /\ version_'[t] = clock /\ snapshot'[t] = Memory
             /\ write_set'[t] = write_set[t] /\ storage' = storage
             /\ pc'[t] \notin {"fast", "slow"}
    <3>1. version_'[t] <= clock
      BY <2>3 DEF TypeOK
    <3>2. Settled(v, version_'[t])
      BY <1>1, <3>1, SettledBefore
    <3>3. Memory[v] = storage[v]
      BY <3>2 DEF Settled, Memory
    <3>4. write_set'[t] = {}
      BY <1>1, <2>3 DEF Progress
    <3> QED BY <2>3, <3>3, <3>4
  <2> QED BY <1>3, <2>1, <2>2, <2>3 DEF ReadStep
<1> QED BY <1>2, <1>3

(* A read returns what its check has found settled. *)
LEMMA OpacityStep ==
    ASSUME TypeOK, VersionsTellContents, Opacity, NEW t \in Threads, Step(t)
    PROVE  Opacity'
<1>1. /\ \A u \in Threads : Progress(u)
      /\ LockOwnership /\ Versions /\ \A u \in Attempting : Consistent(u)
  BY DEF VersionsTellContents
<1>2. ASSUME NEW u \in Threads, NEW r \in seen'[u]
      PROVE  r[2] = snapshot'[u][r[1]]
  <2>1. CASE u # t
    BY <1>2, <2>1, Frame DEF Same, Opacity
  <2>2. CASE u = t
    <3>1. ReadStep(t)
      BY ReadStepLemma
    <3>2. CASE seen'[t] = seen[t] /\ (t \in Attempting => snapshot'[t] = snapshot[t])
      <4>1. t \in Attempting
        BY <1>1, <1>2, <2>2, <3>2 DEF Progress
      <4> QED BY <1>2, <2>2, <3>2, <4>1 DEF Opacity
    <3>3. CASE /\ seen'[t] = seen[t] \cup {<<cur[t], loaded[t]>>} /\ snapshot'[t] = snapshot[t]
               /\ pc[t] \in {"fast", "slow"} /\ Valid(t, cur[t])
      <4>1. cur[t] \in Vars /\ t \in Attempting
        BY <3>3 DEF TypeOK, Attempting
      <4>2. Settled(cur[t], version_[t])
        BY <1>1, <3>3, <4>1, ValidSettled
      <4>3. loaded[t] = snapshot[t][cur[t]]
        BY <1>1, <3>3, <4>1, <4>2 DEF Consistent
      <4> QED BY <1>2, <2>2, <3>3, <4>3 DEF Opacity
    <3> QED BY <1>2, <2>2, <3>1, <3>2, <3>3 DEF ReadStep
  <2> QED BY <2>1, <2>2
<1> QED BY <1>2 DEF Opacity

(* What the callbacks free was checked when the reads were validated: the  *)
(* versions of the locked variables were still the snapshot's.             *)
LEMMA FreesStep ==
    ASSUME TypeOK, VersionsTellContents, FreesWhatItReplaces, NEW t \in Threads, Step(t)
    PROVE  FreesWhatItReplaces'
<1>1. /\ \A u \in Threads : Progress(u)
      /\ LockOwnership /\ Versions /\ \A u \in Attempting : Consistent(u)
  BY DEF VersionsTellContents
<1>2. ASSUME NEW u \in Threads, u # t, pc'[u] = "write", NEW v \in todo'[u] \ AtomicVars
      PROVE  displaced'[u][v] = storage'[v]
  <2>1. Same(u)
    BY <1>2, Frame
  <2>2. displaced[u][v] = storage[v] /\ v \in Held(u) /\ v \in Vars
    BY <1>1, <1>2, <2>1 DEF Same, FreesWhatItReplaces, Held, Progress, TypeOK
  <2>3. v \notin Held(t)
    BY <1>1, <1>2, <2>2 DEF LockOwnership
  <2>4. storage'[v] = storage[v]
    <3>1. CASE \E w \in Held(t) : storage' = [storage EXCEPT ![w] = Fresh(t)]
      BY <2>2, <2>3, <3>1 DEF TypeOK
    <3> QED BY <1>1, <2>2, <3>1, StorageStep
  <2> QED BY <2>1, <2>2, <2>4 DEF Same
<1>3. ASSUME pc'[t] = "write", NEW v \in todo'[t] \ AtomicVars
      PROVE  displaced'[t][v] = storage'[v]
  <2>1. CASE AllValid(t)
    <3>1. /\ pc[t] = "validate" /\ todo'[t] = write_set[t]
          /\ UNCHANGED <<displaced, storage>> /\ v \in Vars
      BY <1>3, <2>1 DEF AllValid, NextLoop, shared, Commit, sets, TypeOK
    <3>2. v \in Held(t) /\ t \in Attempting
      BY <1>3, <3>1 DEF Held, Attempting
    <3>3. \A u \in Threads : u # t => v \notin Held(u)
      BY <1>1, <3>2 DEF LockOwnership
    <3>4. /\ \A u \in Threads : pc[u] = "write" => v \notin write_set[u]
          /\ \A u \in Threads : pc[u] = "publish" => v \notin todo[u]
      BY <1>1, <3>1, <3>3 DEF Held, Progress
    <3>5. Settled(v, version_[t])
      BY <1>1, <3>1, <3>2, <3>4 DEF Settled, Versions
    <3> QED BY <1>1, <1>3, <3>1, <3>2, <3>5 DEF Consistent
  <2>2. ASSUME NEW w \in Vars, DoWrite(t, w)
        PROVE  displaced'[t][v] = storage'[v]
    <3>1. /\ pc[t] = "write" /\ storage' = [storage EXCEPT ![w] = Fresh(t)]
          /\ todo'[t] = todo[t] \ {w} /\ displaced' = displaced
      BY <2>2 DEF DoWrite, Commit, sets, TypeOK
    <3>2. v # w /\ v \in todo[t] /\ v \in Vars
      BY <1>3, <3>1 DEF TypeOK
    <3> QED BY <1>3, <3>1, <3>2 DEF FreesWhatItReplaces, TypeOK
  <2>3. FetchAndBumpClock(t) \/ (\E w \in Vars : Publish(t, w)) => pc'[t] = "publish"
    BY DEF FetchAndBumpClock, NextLoop, Goto, Publish, TypeOK
  <2> QED BY <1>3, <2>1, <2>2, <2>3, QuietStep DEF Quiet
<1> QED BY <1>2, <1>3 DEF FreesWhatItReplaces

-----------------------------------------------------------------------------
(* The inductive invariant, and the properties the runs check *)

Inv == TypeOK /\ VersionsTellContents /\ Opacity /\ FreesWhatItReplaces

LEMMA InvInit == Init => Inv
<1> SUFFICES ASSUME Init PROVE Inv
  OBVIOUS
<1>1. TypeOK
  BY TypeInit
<1>2. \A t \in Threads : Progress(t) /\ Held(t) = {} /\ t \notin Attempting /\ pc[t] = "idle"
  BY DEF Init, Progress, Held, Attempting
<1>3. LockOwnership
  BY <1>2 DEF Init, LockOwnership, Word
<1>4. Versions
  BY <1>2 DEF Init, Versions, Word
<1> QED BY <1>1, <1>2, <1>3, <1>4 DEF Init, Inv, VersionsTellContents, Opacity, FreesWhatItReplaces, Attempting

LEMMA InvStep == Inv /\ [Next]_vars => Inv'
<1> SUFFICES ASSUME Inv, [Next]_vars PROVE Inv'
  OBVIOUS
<1>1. ASSUME NEW t \in Threads, Step(t)
      PROVE  Inv'
  <2>1. TypeOK'
    BY <1>1, TypeStep DEF Inv, Next
  <2>2. (\A u \in Threads : Progress(u)') /\ LockOwnership' /\ Versions'
    BY <1>1, ProgressStep, OwnershipStep, VersionsStep DEF Inv, VersionsTellContents
  <2>3. (\A u \in Attempting' : Consistent(u)') /\ Opacity' /\ FreesWhatItReplaces'
    BY <1>1, ConsistentStep, OpacityStep, FreesStep DEF Inv
  <2> QED BY <2>1, <2>2, <2>3 DEF Inv, VersionsTellContents
<1>2. CASE UNCHANGED vars
  <2>1. TypeOK'
    BY <1>2, TypeStep DEF Inv
  <2> QED BY <1>2, <2>1 DEF Inv, vars, shared, sets, call, history, VersionsTellContents, Opacity,
           FreesWhatItReplaces, Progress, LockOwnership, Versions, Held, Attempting, Consistent,
           Settled, Fresh
<1> QED BY <1>1, <1>2 DEF Next, Terminated

THEOREM InvCorrect == Spec => []Inv
<1> QED BY InvInit, InvStep, PTL DEF Spec

(* unlock() and unlock_as_version() meet a locked word, one commit's own,  *)
(* for any number of threads, variables and transactions.                  *)
THEOREM LocksOwned == Spec => []LockOwnership
<1>1. Inv => LockOwnership
  BY DEF Inv, VersionsTellContents
<1> QED BY <1>1, InvCorrect, PTL

(* Versions tell contents: the invariant itself. *)
THEOREM VersionsTell == Spec => []VersionsTellContents
<1>1. Inv => VersionsTellContents
  BY DEF Inv
<1> QED BY <1>1, InvCorrect, PTL

(* No read of any attempt, doomed or not, is outside its snapshot. *)
THEOREM Opaque == Spec => []Opacity
<1>1. Inv => Opacity
  BY DEF Inv
<1> QED BY <1>1, InvCorrect, PTL

(* A success callback frees what the commit replaced. *)
THEOREM FreesReplaced == Spec => []FreesWhatItReplaces
<1>1. Inv => FreesWhatItReplaces
  BY DEF Inv
<1> QED BY <1>1, InvCorrect, PTL

=============================================================================
