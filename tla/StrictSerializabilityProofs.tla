---------------------- MODULE StrictSerializabilityProofs ----------------------
(***************************************************************************)
(* Transactions are strictly serializable, for any threads, variables,     *)
(* calls and bounds.                                                       *)
(***************************************************************************)
EXTENDS StrictSerializability, SnapshotIsolationProofs, SequenceTheorems, FiniteSetTheorems

Records == [tx : Storage, reads : SUBSET (Vars \X Storage), writes : SUBSET Vars]

Types ==
    /\ serial \in Seq(Records)
    /\ born \in [Threads -> Nat]
    /\ \A t \in Threads : born[t] <= Len(serial)

(* Nobody is in the order twice. *)
Order ==
    /\ \A i, j \in DOMAIN serial : serial[i].tx = serial[j].tx => i = j
    /\ \A i \in DOMAIN serial :
           /\ serial[i].tx[1] \in Threads
           /\ serial[i].tx[2] <= done[serial[i].tx[1]]

(* The place of t's commit: behind those that came before its attempt.     *)
Place(t) ==
    /\ pc[t] \in {"validate", "write", "publish"} => \E i \in DOMAIN serial : serial[i].tx = Fresh(t)
    /\ \A i \in DOMAIN serial : serial[i].tx = Fresh(t) =>
           /\ pc[t] \in {"validate", "write", "publish", "unlock"}
           /\ born[t] < i
           /\ serial[i].writes = write_set[t]
           /\ \A r \in serial[i].reads : r[2] = snapshot[t][r[1]]

(* A commit that may still succeed. *)
Pending(e) == pc[e.tx[1]] = "validate" /\ e.tx[2] = done[e.tx[1]]

(* The read r is what the first n transactions leave, whoever of them      *)
(* succeeds in the end.                                                    *)
ReadsFrom(n, r) ==
    /\ r[2] = After(n)[r[1]]
    /\ \A j \in DOMAIN serial : j <= n /\ Pending(serial[j]) => r[1] \notin serial[j].writes

Serialized ==
    \A i \in DOMAIN serial : Decided(serial[i]) =>
        \A r \in serial[i].reads : ReadsFrom(i - 1, r)

Validated(t) ==
    \A i \in DOMAIN serial : serial[i].tx = Fresh(t) /\ pc[t] = "validate" =>
        \A r \in serial[i].reads : r[1] \notin todo[t] => ReadsFrom(i - 1, r)

Seen(t) == \A r \in seen[t] : ReadsFrom(born[t], r)

(* The snapshot of an attempt is what those before it leave, but for what  *)
(* they replace only after it began; who comes after it replaces nothing   *)
(* that is settled.                                                        *)
Snapped(t) ==
    \A v \in Vars : Settled(v, version_[t]) =>
        /\ snapshot[t][v] = After(born[t])[v]
        /\ \A j \in DOMAIN serial : born[t] < j /\ Decided(serial[j]) => v \notin serial[j].writes

SerialInv ==
    /\ Types /\ Order /\ Serialized
    /\ \A t \in Threads : Place(t) /\ Validated(t) /\ Seen(t)
    /\ \A t \in Attempting : Snapped(t)
    /\ Memory = After(Len(serial))
-----------------------------------------------------------------------------
(* Places in the order *)

(* A set of numbers that has 0 and the successor of each of its members    *)
(* has all of them.                                                        *)
LEMMA Induction ==
    ASSUME NEW S \in SUBSET Nat, 0 \in S, \A n \in S : n + 1 \in S
    PROVE  S = Nat
<1> SUFFICES ASSUME NEW n \in Nat, n \notin S
             PROVE  FALSE
  OBVIOUS
<1> DEFINE U == S \cap (0 .. n)
           f == [i \in U |-> i + 1]
<1>1. IsFiniteSet(U)
  <2>1. IsFiniteSet(0 .. n)
    BY FS_Interval
  <2> QED BY <2>1, FS_Subset
<1>2. f \in Injection(U, U \ {0})
  <2>1. \A i \in U : i < n /\ i + 1 \in U /\ i + 1 # 0
    OBVIOUS
  <2> QED BY <2>1 DEF Injection, IsInjective
<1>3. IsFiniteSet(U \ {0}) /\ Cardinality(U \ {0}) = Cardinality(U) - 1
  BY <1>1, FS_RemoveElement
<1>4. Cardinality(U) <= Cardinality(U \ {0})
  BY <1>2, <1>3, FS_Injection
<1>5. Cardinality(U) \in Nat
  BY <1>1, FS_CardinalityType
<1> QED BY <1>3, <1>4, <1>5

LEMMA MaxIs ==
    ASSUME NEW n \in Nat, NEW W \in SUBSET (1 .. n), W # {}
    PROVE  Max(W) \in W /\ \A j \in W : j <= Max(W)
<1> DEFINE S == {k \in Nat : \A T \in SUBSET (1 .. k) :
                                 T # {} => \E m \in T : \A j \in T : j <= m}
<1>1. 0 \in S
  <2>1. \A T \in SUBSET (1 .. 0) : T = {}
    OBVIOUS
  <2> QED BY <2>1
<1>2. ASSUME NEW k \in S
      PROVE  k + 1 \in S
  <2> SUFFICES ASSUME NEW T \in SUBSET (1 .. (k + 1)), T # {}
               PROVE  \E m \in T : \A j \in T : j <= m
    OBVIOUS
  <2>1. CASE k + 1 \in T
    BY <2>1
  <2>2. CASE k + 1 \notin T
    <3>1. T \in SUBSET (1 .. k)
      BY <2>2
    <3> QED BY <3>1
  <2> QED BY <2>1, <2>2
<1>3. S = Nat
  <2> HIDE DEF S
  <2>1. S \in SUBSET Nat
    BY DEF S
  <2> QED BY <1>1, <1>2, <2>1, Induction
<1>4. \E m \in W : \A j \in W : j <= m
  BY <1>3
<1>5. PICK m \in W : \A j \in W : m >= j
  BY <1>4
<1> QED BY <1>5 DEF Max

(* The place of a transaction that has replaced v, or is about to. *)
Wrote(i, v) == v \in serial[i].writes /\ Decided(serial[i])

AfterMeans ==
    \A n \in 0 .. Len(serial), v \in Vars :
        /\ (\A i \in 1 .. n : ~Wrote(i, v)) => After(n)[v] = Initial
        /\ \A i \in 1 .. n :
               Wrote(i, v) /\ (\A j \in 1 .. n : Wrote(j, v) => j <= i)
                   => After(n)[v] = serial[i].tx
        /\ \/ \A i \in 1 .. n : ~Wrote(i, v)
           \/ \E i \in 1 .. n : Wrote(i, v) /\ \A j \in 1 .. n : Wrote(j, v) => j <= i

LEMMA AfterIs == Types => AfterMeans
<1> SUFFICES ASSUME Types, NEW n \in 0 .. Len(serial), NEW v \in Vars
             PROVE  /\ (\A i \in 1 .. n : ~Wrote(i, v)) => After(n)[v] = Initial
                    /\ \A i \in 1 .. n :
                           Wrote(i, v) /\ (\A j \in 1 .. n : Wrote(j, v) => j <= i)
                               => After(n)[v] = serial[i].tx
                    /\ \/ \A i \in 1 .. n : ~Wrote(i, v)
                       \/ \E i \in 1 .. n : Wrote(i, v) /\ \A j \in 1 .. n : Wrote(j, v) => j <= i
  BY DEF AfterMeans
<1> DEFINE W == {i \in 1 .. n : Wrote(i, v)}
<1>1. After(n)[v] = IF W = {} THEN Initial ELSE serial[Max(W)].tx
  BY DEF After, Wrote
<1>2. n \in Nat /\ W \in SUBSET (1 .. n)
  BY DEF Types
<1>3. W # {} => Max(W) \in W /\ \A j \in W : j <= Max(W)
  BY <1>2, MaxIs
<1>4. ASSUME NEW i \in 1 .. n, Wrote(i, v), \A j \in 1 .. n : Wrote(j, v) => j <= i
      PROVE  After(n)[v] = serial[i].tx
  <2>1. i \in W /\ \A j \in W : j <= i
    BY <1>4
  <2>2. Max(W) = i
    <3> DEFINE m == Max(W)
    <3>1. m \in W /\ i <= m
      BY <1>3, <2>1
    <3>2. m <= i /\ m \in Nat /\ i \in Nat
      BY <1>2, <2>1, <3>1
    <3> HIDE DEF m
    <3>3. m = i
      BY <3>1, <3>2
    <3> QED BY <3>3 DEF m
  <2> HIDE DEF W
  <2> QED BY <1>1, <2>1, <2>2
<1>5. (\A i \in 1 .. n : ~Wrote(i, v)) => After(n)[v] = Initial
  BY <1>1
<1>6. \/ \A i \in 1 .. n : ~Wrote(i, v)
      \/ \E i \in 1 .. n : Wrote(i, v) /\ \A j \in 1 .. n : Wrote(j, v) => j <= i
  BY <1>3
<1> QED BY <1>4, <1>5, <1>6

(* What stands before a place and after it in a step: f maps the places    *)
(* that stay.                                                              *)
LEMMA AfterMoved ==
    ASSUME Types, Types', NEW n \in 0 .. Len(serial), NEW m \in 0 .. Len(serial'), NEW v \in Vars,
           NEW S \in SUBSET (1 .. n), NEW f \in [S -> 1 .. m],
           \A i, j \in S : i < j => f[i] < f[j],
           \A i \in S : serial'[f[i]].tx = serial[i].tx /\ (Wrote(f[i], v)' <=> Wrote(i, v)),
           \A i \in 1 .. n : Wrote(i, v) => i \in S,
           \A k \in 1 .. m : Wrote(k, v)' => \E i \in S : f[i] = k
    PROVE  After(m)'[v] = After(n)[v]
<1>1. AfterMeans
  BY AfterIs
<1>2. AfterMeans'
  BY AfterIs, PTL
<1>3. CASE \A i \in 1 .. n : ~Wrote(i, v)
  <2>1. After(n)[v] = Initial
    BY <1>1, <1>3 DEF AfterMeans
  <2>2. \A k \in 1 .. m : ~Wrote(k, v)'
    BY <1>3
  <2>3. After(m)'[v] = Initial
    BY <1>2, <2>2 DEF AfterMeans
  <2> QED BY <2>1, <2>3
<1>4. CASE \E i \in 1 .. n : Wrote(i, v) /\ \A j \in 1 .. n : Wrote(j, v) => j <= i
  <2>1. PICK i \in 1 .. n : Wrote(i, v) /\ \A j \in 1 .. n : Wrote(j, v) => j <= i
    BY <1>4
  <2>2. After(n)[v] = serial[i].tx
    BY <1>1, <2>1 DEF AfterMeans
  <2>3. i \in S /\ f[i] \in 1 .. m /\ Wrote(f[i], v)'
    BY <2>1
  <2>4. ASSUME NEW k \in 1 .. m, Wrote(k, v)'
        PROVE  k <= f[i]
    <3>1. PICK j \in S : f[j] = k
      BY <2>4
    <3>2. Wrote(j, v) /\ j \in 1 .. n
      BY <2>4, <3>1
    <3>3. j <= i
      BY <2>1, <3>2
    <3>4. j = i \/ j < i
      BY <3>3
    <3> QED BY <2>3, <3>1, <3>4
  <2>5. After(m)'[v] = serial'[f[i]].tx
    BY <1>2, <2>3, <2>4 DEF AfterMeans
  <2> QED BY <2>2, <2>3, <2>5
<1> QED BY <1>1, <1>3, <1>4 DEF AfterMeans
-----------------------------------------------------------------------------
(* The steps, as far as the order is concerned *)

Committing == {"validate", "write", "publish", "unlock"}

Ends(t) ==
    /\ pc[t] = "run" /\ pc'[t] = "idle" /\ done' = [done EXCEPT ![t] = @ + 1]
    /\ seen'[t] = {}

GivesUp(t) == pc[t] = "unlock" /\ pc'[t] = "top" /\ done' = done /\ seen'[t] = {}

Outside(t) ==
    /\ pc[t] \notin Committing /\ pc'[t] \notin {"validate", "write", "publish"}
    /\ ~(pc[t] = "run" /\ pc'[t] = "idle") /\ done' = done
    /\ t \in Attempting' => t \in Attempting

Validates(t) ==
    /\ pc[t] = "validate" /\ pc'[t] \in {"validate", "unlock"}
    /\ pc'[t] = "validate" => \A v \in todo[t] \ todo'[t] : Valid(t, v)
    /\ UNCHANGED <<done, write_set, snapshot, seen>>

GoesOn(t) ==
    /\ pc[t] \in {"write", "publish", "unlock"} /\ pc'[t] \in {"write", "publish", "unlock"}
    /\ pc[t] = "unlock" <=> pc'[t] = "unlock"
    /\ UNCHANGED <<done, write_set, snapshot, seen>>

Completes(t) ==
    /\ pc[t] = "publish" /\ pc'[t] = "idle" /\ done' = [done EXCEPT ![t] = @ + 1]
    /\ seen'[t] = {}

Stage(t) ==
    \/ GetClock(t) \/ AllLocked(t) \/ AllValid(t) \/ Ends(t) \/ GivesUp(t)
    \/ Outside(t) \/ Validates(t) \/ GoesOn(t) \/ Completes(t)

LEMMA StageStep ==
    ASSUME TypeOK, NEW t \in Threads, Step(t)
    PROVE  Stage(t)
<1>1. ASSUME NEW k \in {"read_write", "read_only"}, Invoke(t, k)
      PROVE  Stage(t)
  <2>1. Outside(t)
    BY <1>1 DEF Invoke, Goto, shared, sets, call, history, Outside, Committing, Attempting,
       TypeOK
  <2> QED BY <2>1 DEF Stage
<1>2. ASSUME GetClock(t)
      PROVE  Stage(t)
  BY <1>2 DEF Stage
<1>3. ASSUME Retry(t)
      PROVE  Stage(t)
  <2>1. Outside(t)
    BY <1>3 DEF Retry, Fail, EndAttempt, Returned, Goto, shared, Outside, Committing,
       Attempting, TypeOK
  <2> QED BY <2>1 DEF Stage
<1>4. ASSUME Throw(t)
      PROVE  Stage(t)
  <2>1. Ends(t)
    BY <1>4 DEF Throw, Finish, EndAttempt, Returned, Goto, shared, Ends, TypeOK
  <2> QED BY <2>1 DEF Stage
<1>5. ASSUME NEW c \in Calls[t], ReadFast(t, c[1], c[2])
      PROVE  Stage(t)
  <2>1. Outside(t)
    BY <1>5 DEF ReadFast, Called, Goto, shared, sets, history, Outside, Committing,
       Attempting, TypeOK
  <2> QED BY <2>1 DEF Stage
<1>6. ASSUME NEW c \in Calls[t], WriteFast(t, c[1], c[2])
      PROVE  Stage(t)
  <2>1. Outside(t)
    BY <1>6 DEF WriteFast, Called, Goto, shared, sets, history, Outside, Committing,
       Attempting, TypeOK
  <2> QED BY <2>1 DEF Stage
<1>7. ASSUME NEW c \in Calls[t], SlowPath(t, c[1], c[2])
      PROVE  Stage(t)
  <2>1. Outside(t)
    BY <1>7 DEF SlowPath, Called, Goto, shared, sets, history, Outside, Committing,
       Attempting, TypeOK
  <2> QED BY <2>1 DEF Stage
<1>8. ASSUME NEW c \in Calls[t], AccessPending(t, c[2])
      PROVE  Stage(t)
  <2>1. Outside(t)
    BY <1>8 DEF AccessPending, shared, sets, call, history, Fail, EndAttempt, Returned,
       Goto, Outside, Committing, Attempting, TypeOK
  <2> QED BY <2>1 DEF Stage
<1>9. ASSUME Displace(t)
      PROVE  Stage(t)
  <2>1. Outside(t)
    BY <1>9 DEF Displace, Goto, Returned, shared, history, Outside, Committing, Attempting,
       TypeOK
  <2> QED BY <2>1 DEF Stage
<1>10. ASSUME Reload(t)
      PROVE  Stage(t)
  <2>1. Outside(t)
    BY <1>10 DEF Reload, Goto, shared, sets, history, Outside, Committing, Attempting, TypeOK
  <2> QED BY <2>1 DEF Stage
<1>11. ASSUME CheckPasses(t)
      PROVE  Stage(t)
  <2>1. Outside(t)
    BY <1>11 DEF CheckPasses, Goto, Returned, shared, Outside, Committing, Attempting, TypeOK
  <2> QED BY <2>1 DEF Stage
<1>12. ASSUME CheckFails(t)
      PROVE  Stage(t)
  <2>1. Outside(t)
    BY <1>12 DEF CheckFails, shared, sets, call, history, Fail, EndAttempt, Returned, Goto,
       Outside, Committing, Attempting, TypeOK
  <2> QED BY <2>1 DEF Stage
<1>13. ASSUME CommitNothing(t)
      PROVE  Stage(t)
  <2>1. Ends(t)
    BY <1>13 DEF CommitNothing, Finish, EndAttempt, Returned, Goto, shared, Ends, TypeOK
  <2> QED BY <2>1 DEF Stage
<1>14. ASSUME RemoveWritesFromReads(t)
      PROVE  Stage(t)
  <2>1. Outside(t)
    BY <1>14 DEF RemoveWritesFromReads, Goto, shared, call, history, Outside, Committing,
       Attempting, TypeOK
  <2> QED BY <2>1 DEF Stage
<1>15. ASSUME NEW v \in Vars, LockLoad(t, v)
      PROVE  Stage(t)
  <2>1. Outside(t)
    BY <1>15 DEF LockLoad, UnlockFrom, Goto, shared, Commit, sets, history, Outside,
       Committing, Attempting, TypeOK
  <2> QED BY <2>1 DEF Stage
<1>16. ASSUME LockCas(t)
      PROVE  Stage(t)
  <2>1. Outside(t)
    BY <1>16 DEF LockCas, UnlockFrom, Goto, Commit, sets, history, Outside, Committing,
       Attempting, TypeOK
  <2> QED BY <2>1 DEF Stage
<1>17. ASSUME NEW v \in Vars, Unlock(t, v)
      PROVE  Stage(t)
  <2>1. GoesOn(t)
    BY <1>17 DEF Unlock, Commit, sets, history, GoesOn, TypeOK
  <2> QED BY <2>1 DEF Stage
<1>18. ASSUME CommitFailed(t)
      PROVE  Stage(t)
  <2>1. GivesUp(t)
    BY <1>18 DEF CommitFailed, Fail, EndAttempt, Returned, Goto, shared, GivesUp, TypeOK
  <2> QED BY <2>1 DEF Stage
<1>19. ASSUME AllLocked(t)
      PROVE  Stage(t)
  BY <1>19 DEF Stage
<1>20. ASSUME NEW v \in Vars, ValidateRead(t, v)
      PROVE  Stage(t)
  <2>1. Validates(t)
    BY <1>20 DEF ValidateRead, UnlockFrom, Goto, shared, Commit, sets, history, Validates,
       TypeOK
  <2> QED BY <2>1 DEF Stage
<1>21. ASSUME AllValid(t)
      PROVE  Stage(t)
  BY <1>21 DEF Stage
<1>22. ASSUME NEW v \in Vars, DoWrite(t, v)
      PROVE  Stage(t)
  <2>1. GoesOn(t)
    BY <1>22 DEF DoWrite, Commit, sets, history, GoesOn, TypeOK
  <2> QED BY <2>1 DEF Stage
<1>23. ASSUME FetchAndBumpClock(t)
      PROVE  Stage(t)
  <2>1. GoesOn(t)
    BY <1>23 DEF FetchAndBumpClock, NextLoop, Goto, Commit, sets, history, GoesOn, TypeOK
  <2> QED BY <2>1 DEF Stage
<1>24. ASSUME NEW v \in Vars, Publish(t, v)
      PROVE  Stage(t)
  <2>1. GoesOn(t)
    BY <1>24 DEF Publish, WriteVersion, Commit, sets, history, GoesOn, TypeOK
  <2> QED BY <2>1 DEF Stage
<1>25. ASSUME CommitSucceeded(t)
      PROVE  Stage(t)
  <2>1. Completes(t)
    BY <1>25 DEF CommitSucceeded, Finish, EndAttempt, Returned, Goto, shared, Completes, TypeOK
  <2> QED BY <2>1 DEF Stage
<1> QED BY <1>1, <1>2, <1>3, <1>4, <1>5, <1>6, <1>7, <1>8, <1>9, <1>10, <1>11, <1>12,
       <1>13, <1>14, <1>15, <1>16, <1>17, <1>18, <1>19, <1>20, <1>21, <1>22, <1>23, <1>24,
       <1>25 DEF Step, User, Library

Appends(t) == serial' = Append(serial, Entry(t)) /\ born' = born

Removes(t, k) ==
    /\ serial[k].tx = Fresh(t)
    /\ serial' = RemoveAt(serial, k)
    /\ born' = [u \in Threads |-> IF born[u] >= k THEN born[u] - 1 ELSE born[u]]

Inserts(t) ==
    /\ serial' = InsertAt(serial, born[t] + 1, Observer(t))
    /\ born' = [u \in Threads |-> IF born[u] > born[t] THEN born[u] + 1 ELSE born[u]]

LEMMA RecordStep ==
    ASSUME TypeOK, NEW t \in Threads, Step(t), Record
    PROVE  \/ GetClock(t) /\ serial' = serial /\ born' = [born EXCEPT ![t] = Len(serial)]
           \/ AllLocked(t) /\ Appends(t)
           \/ GivesUp(t) /\ \E k \in DOMAIN serial : Removes(t, k)
           \/ Ends(t) /\ Inserts(t)
           \/ /\ GivesUp(t) /\ \A k \in DOMAIN serial : serial[k].tx # Fresh(t)
              /\ UNCHANGED <<serial, born>>
           \/ /\ AllValid(t) \/ Outside(t) \/ Validates(t) \/ GoesOn(t) \/ Completes(t)
              /\ UNCHANGED <<serial, born>>
<1>1. \A u \in Threads : u # t => pc'[u] = pc[u]
  BY Frame DEF Same
<1>2. Stage(t)
  BY StageStep
<1>3. GetClock(t) => pc[t] = "top" /\ pc'[t] = "run"
  BY DEF GetClock, Goto, TypeOK
<1>4. AllLocked(t) => pc[t] = "lock" /\ pc'[t] = "validate"
  BY DEF AllLocked, NextLoop, Goto, TypeOK
<1>5. AllValid(t) => pc[t] = "validate" /\ pc'[t] = "write"
  BY DEF AllValid, NextLoop, Goto, TypeOK
<1>6. ASSUME NEW u \in Threads, Moved(u, "top", "run"), serial' = serial,
             born' = [born EXCEPT ![u] = Len(serial)]
      PROVE  GetClock(t) /\ serial' = serial /\ born' = [born EXCEPT ![t] = Len(serial)]
  <2>1. u = t
    BY <1>1, <1>6 DEF Moved
  <2>2. GetClock(t)
    BY <1>2, <1>4, <1>5, <1>6, <2>1
       DEF Stage, Moved, Ends, GivesUp, Outside, Validates, GoesOn, Completes, Attempting, Committing
  <2> QED BY <1>6, <2>1, <2>2
<1>7. ASSUME NEW u \in Threads, Moved(u, "lock", "validate"), serial' = Append(serial, Entry(u)),
             UNCHANGED born
      PROVE  AllLocked(t) /\ Appends(t)
  <2>1. u = t
    BY <1>1, <1>7 DEF Moved
  <2>2. AllLocked(t)
    BY <1>2, <1>3, <1>5, <1>7, <2>1
       DEF Stage, Moved, Ends, GivesUp, Outside, Validates, GoesOn, Completes
  <2> QED BY <1>7, <2>1, <2>2 DEF Appends
<1>8. ASSUME NEW u \in Threads, Moved(u, "unlock", "top")
      PROVE  u = t /\ GivesUp(t)
  <2>1. u = t
    BY <1>1, <1>8 DEF Moved
  <2> QED BY <1>2, <1>3, <1>4, <1>5, <1>8, <2>1
       DEF Stage, Moved, Ends, Outside, Validates, GoesOn, Completes, Committing
<1>9. ASSUME NEW u \in Threads, Moved(u, "run", "idle")
      PROVE  u = t /\ Ends(t)
  <2>1. u = t
    BY <1>1, <1>9 DEF Moved
  <2> QED BY <1>2, <1>3, <1>4, <1>5, <1>9, <2>1
       DEF Stage, Moved, GivesUp, Outside, Validates, GoesOn, Completes
<1>10. ASSUME <<pc[t], pc'[t]>> \notin {<<"top", "run">>, <<"lock", "validate">>,
                                        <<"unlock", "top">>, <<"run", "idle">>}
       PROVE  AllValid(t) \/ Outside(t) \/ Validates(t) \/ GoesOn(t) \/ Completes(t)
  BY <1>2, <1>3, <1>4, <1>10 DEF Stage, Ends, GivesUp
<1> QED BY <1>6, <1>7, <1>8, <1>9, <1>10 DEF Record, Appends, Removes, Inserts

(* What a step of t means for an entry e: only t's own commit is decided,  *)
(* when its reads are validated.                                           *)
LEMMA EntryStep ==
    ASSUME TypeOK, NEW t \in Threads, Step(t), NEW e \in Records,
           e.tx[1] \in Threads, e.tx[2] <= done[e.tx[1]],
           e.tx = Fresh(t) => pc[t] \in Committing
    PROVE  /\ e.tx # Fresh(t) \/ ~AllValid(t) =>
                  /\ Decided(e)' <=> Decided(e)
                  /\ Pending(e)' => Pending(e)
           /\ e.tx = Fresh(t) /\ AllValid(t) =>
                  Pending(e) /\ ~Decided(e) /\ Decided(e)' /\ ~Pending(e)'
           /\ e.tx[2] <= done'[e.tx[1]]
<1> DEFINE u == e.tx[1]
           n == e.tx[2]
<1>1. u \in Threads /\ n \in Nat /\ e.tx = <<u, n>> /\ done[u] \in Nat /\ n <= done[u]
  BY DEF Records, Storage, TypeOK
<1>2. CASE u # t
  <2>1. pc'[u] = pc[u] /\ done'[u] = done[u]
    BY <1>1, <1>2, Frame DEF Same
  <2>2. e.tx # Fresh(t)
    BY <1>1, <1>2 DEF Fresh
  <2> QED BY <1>1, <2>1, <2>2 DEF Decided, Pending
<1>3. CASE u = t
  <2>1. Stage(t)
    BY StageStep
  <2>2. AllValid(t) => pc[t] = "validate" /\ pc'[t] = "write" /\ done' = done
    BY DEF AllValid, NextLoop, Goto, Commit, TypeOK
  <2>3. GetClock(t) => pc[t] = "top" /\ pc'[t] = "run" /\ done' = done
    BY DEF GetClock, Goto, TypeOK
  <2>4. AllLocked(t) => pc[t] = "lock" /\ pc'[t] = "validate" /\ done' = done
    BY DEF AllLocked, NextLoop, Goto, Commit, TypeOK
  <2>5. \/ done'[t] = done[t]
        \/ done'[t] = done[t] + 1 /\ pc'[t] = "idle" /\ pc[t] \in {"run", "publish"}
    BY <2>1, <2>2, <2>3, <2>4
       DEF Stage, Ends, GivesUp, Outside, Validates, GoesOn, Completes, TypeOK
  <2>6. n <= done'[t] /\ done'[t] \in Nat
    BY <1>1, <1>3, <2>5
  <2>7. CASE n < done[t]
    <3>1. e.tx # Fresh(t)
      BY <1>1, <1>3, <2>7 DEF Fresh
    <3>2. Decided(e) /\ Decided(e)' /\ ~Pending(e)'
      BY <1>1, <1>3, <2>5, <2>7 DEF Decided, Pending
    <3> QED BY <1>3, <2>6, <3>1, <3>2
  <2>8. CASE n = done[t]
    <3>1. e.tx = Fresh(t) /\ pc[t] \in Committing
      BY <1>1, <1>3, <2>8 DEF Fresh
    <3>2. Decided(e) <=> pc[t] \in {"write", "publish"}
      BY <1>1, <1>3, <2>8 DEF Decided
    <3>3. Pending(e) <=> pc[t] = "validate"
      BY <1>3, <2>8 DEF Pending
    <3>4. Decided(e)' <=> done'[t] > n \/ pc'[t] \in {"write", "publish"}
      BY <1>3 DEF Decided
    <3>5. Pending(e)' <=> pc'[t] = "validate" /\ n = done'[t]
      BY <1>3 DEF Pending
    <3>6. CASE AllValid(t)
      BY <1>3, <2>2, <2>6, <2>8, <3>1, <3>2, <3>3, <3>4, <3>5, <3>6
    <3>7. CASE ~AllValid(t)
      <4>1. Validates(t) \/ GoesOn(t) \/ GivesUp(t) \/ Completes(t)
        BY <2>1, <2>3, <2>4, <3>1, <3>7 DEF Stage, Committing, Ends, Outside
      <4>2. CASE Completes(t)
        BY <1>1, <1>3, <2>6, <2>8, <3>2, <3>3, <3>4, <3>5, <3>7, <4>2 DEF Completes, TypeOK
      <4>3. CASE ~Completes(t)
        <5>1. done'[t] = n
          BY <2>8, <4>1, <4>3 DEF Validates, GoesOn, GivesUp
        <5>2. pc'[t] \in {"write", "publish"} <=> pc[t] \in {"write", "publish"}
          BY <4>1, <4>3 DEF Validates, GoesOn, GivesUp
        <5>3. pc'[t] = "validate" => pc[t] = "validate"
          BY <4>1, <4>3 DEF Validates, GoesOn, GivesUp
        <5> QED BY <1>1, <1>3, <2>6, <3>2, <3>3, <3>4, <3>5, <3>7, <5>1, <5>2, <5>3
      <4> QED BY <4>2, <4>3
    <3> QED BY <3>6, <3>7
  <2> QED BY <1>1, <1>3, <2>7, <2>8
<1> QED BY <1>2, <1>3
-----------------------------------------------------------------------------
(* What a change of the order keeps *)

(* f maps the places that stay.  What is gone was not decided, what is new *)
(* replaces nothing yet.                                                   *)
Moves(f) ==
    /\ DOMAIN f \subseteq DOMAIN serial
    /\ f \in [DOMAIN f -> DOMAIN serial']
    /\ \A i, j \in DOMAIN f : i < j => f[i] < f[j]
    /\ \A i \in DOMAIN f, k \in DOMAIN serial' : f[i] = k =>
           /\ serial'[k] = serial[i]
           /\ Decided(serial[k])' <=> Decided(serial[i])
           /\ Pending(serial[k])' => Pending(serial[i])
    /\ \A i \in DOMAIN serial : i \in DOMAIN f \/ ~Decided(serial[i])
    /\ \A k \in DOMAIN serial' :
           \/ \E i \in DOMAIN f : f[i] = k
           \/ serial'[k].writes = {}
           \/ ~Decided(serial[k])'
    /\ \A k \in DOMAIN serial' :
           \/ \E i \in DOMAIN f : f[i] = k
           \/ k = Len(serial')
           \/ ~Pending(serial[k])'

(* The first n places have become the first m, but for what cannot fail.   *)
Below(f, n, m) ==
    /\ n \in 0 .. Len(serial) /\ m \in 0 .. Len(serial')
    /\ \A i \in DOMAIN f : i <= n <=> f[i] <= m

Known(f, m) ==
    \A k \in DOMAIN serial' : k <= m =>
        \/ \E i \in DOMAIN f : f[i] = k
        \/ ~Pending(serial[k])'

LEMMA Domains ==
    ASSUME Types
    PROVE  /\ DOMAIN serial = 1 .. Len(serial) /\ Len(serial) \in Nat
           /\ \A i \in DOMAIN serial : serial[i] \in Records
BY DEF Types

LEMMA DomainsThen ==
    ASSUME Types'
    PROVE  /\ DOMAIN serial' = 1 .. Len(serial') /\ Len(serial') \in Nat
           /\ \A i \in DOMAIN serial' : serial'[i] \in Records
BY DEF Types

LEMMA AfterKept ==
    ASSUME Types, Types', NEW f, Moves(f), NEW n, NEW m, Below(f, n, m), NEW v \in Vars
    PROVE  After(m)'[v] = After(n)[v]
<1>1. DOMAIN serial = 1 .. Len(serial) /\ DOMAIN serial' = 1 .. Len(serial')
      /\ Len(serial) \in Nat /\ Len(serial') \in Nat
  BY Domains, DomainsThen
<1> DEFINE S == {i \in DOMAIN f : i <= n}
           g == [i \in S |-> f[i]]
<1>2. S \in SUBSET (1 .. n) /\ n \in 0 .. Len(serial) /\ m \in 0 .. Len(serial')
  BY <1>1 DEF Moves, Below
<1>3. \A i \in S : f[i] \in 1 .. m /\ f[i] \in DOMAIN serial'
  BY <1>1 DEF Moves, Below
<1>4. g \in [S -> 1 .. m] /\ \A i \in S : g[i] = f[i]
  BY <1>3
<1>5. \A i, j \in S : i < j => g[i] < g[j]
  BY DEF Moves
<1>6. ASSUME NEW i \in S, NEW k \in 1 .. m, f[i] = k
      PROVE  serial'[k].tx = serial[i].tx /\ (Wrote(k, v)' <=> Wrote(i, v))
  BY <1>3, <1>6 DEF Moves, Wrote
<1>7. \A i \in 1 .. n : Wrote(i, v) => i \in S
  BY <1>1, <1>2 DEF Moves, Wrote
<1>8. ASSUME NEW k \in 1 .. m, Wrote(k, v)'
      PROVE  \E i \in S : f[i] = k
  <2>1. k \in DOMAIN serial'
    BY <1>1, <1>2
  <2>2. \E i \in DOMAIN f : f[i] = k
    BY <1>8, <2>1 DEF Moves, Wrote
  <2> QED BY <2>2 DEF Below
<1>9. PICK h : h = g
  OBVIOUS
<1>10. PICK T : T = S
  OBVIOUS
<1> HIDE DEF S, g
<1>11. /\ T \in SUBSET (1 .. n) /\ h \in [T -> 1 .. m]
       /\ \A i, j \in T : i < j => h[i] < h[j]
       /\ \A i \in 1 .. n : Wrote(i, v) => i \in T
  BY <1>2, <1>4, <1>5, <1>7, <1>9, <1>10
<1>12. \A i \in T : h[i] \in 1 .. m /\ h[i] = f[i]
  BY <1>3, <1>4, <1>9, <1>10
<1>13. ASSUME NEW i \in T
       PROVE  serial'[h[i]].tx = serial[i].tx /\ (Wrote(h[i], v)' <=> Wrote(i, v))
  <2>1. \A k \in 1 .. m : f[i] = k =>
            serial'[k].tx = serial[i].tx /\ (Wrote(k, v)' <=> Wrote(i, v))
    BY <1>6, <1>10
  <2> QED BY <1>12, <2>1 DEF Wrote
<1>14. ASSUME NEW k \in 1 .. m, Wrote(k, v)'
       PROVE  \E i \in T : h[i] = k
  BY <1>8, <1>10, <1>12, <1>14
<1> QED BY <1>2, <1>11, <1>13, <1>14, AfterMoved

LEMMA ReadsKept ==
    ASSUME Types, Types', NEW f, Moves(f), NEW n, NEW m, Below(f, n, m), Known(f, m),
           NEW r, r[1] \in Vars, ReadsFrom(n, r)
    PROVE  ReadsFrom(m, r)'
<1>1. After(m)'[r[1]] = After(n)[r[1]]
  BY AfterKept
<1>2. ASSUME NEW k \in DOMAIN serial', k <= m, Pending(serial[k])'
      PROVE  r[1] \notin serial'[k].writes
  <2>1. PICK i \in DOMAIN f : f[i] = k
    BY <1>2 DEF Known
  <2>2. serial'[k] = serial[i] /\ Pending(serial[i]) /\ i <= n /\ i \in DOMAIN serial
    BY <1>2, <2>1 DEF Moves, Below
  <2> QED BY <2>2 DEF ReadsFrom
<1> QED BY <1>1, <1>2 DEF ReadsFrom

(* Nobody behind the place of an attempt replaces what is settled for it.  *)
LEMMA SettledReads ==
    ASSUME SerialInv, NEW t \in Attempting, NEW r, r[1] \in Vars, Settled(r[1], version_[t]),
           \A j \in DOMAIN serial : Pending(serial[j]) => r[1] \notin serial[j].writes,
           NEW n \in 0 .. Len(serial), born[t] <= n, r[2] = snapshot[t][r[1]]
    PROVE  ReadsFrom(n, r)
<1> DEFINE v == r[1]
           b == born[t]
<1>1. Types /\ t \in Threads /\ AfterMeans
  BY AfterIs DEF SerialInv, Attempting
<1>2. DOMAIN serial = 1 .. Len(serial) /\ Len(serial) \in Nat /\ b \in 0 .. Len(serial)
  BY <1>1 DEF Types
<1>3. /\ snapshot[t][v] = After(b)[v]
      /\ \A j \in 1 .. n : Wrote(j, v) => j <= b
  <2>1. Snapped(t)
    BY DEF SerialInv
  <2>2. \A j \in DOMAIN serial : b < j /\ Decided(serial[j]) => v \notin serial[j].writes
    BY <2>1 DEF Snapped
  <2>3. ASSUME NEW j \in 1 .. n, Wrote(j, v)
        PROVE  j <= b
    <3>1. j \in DOMAIN serial
      BY <1>2
    <3> QED BY <1>2, <2>2, <2>3, <3>1 DEF Wrote
  <2> QED BY <2>1, <2>3 DEF Snapped
<1>4. After(n)[v] = After(b)[v]
  <2>1. CASE \A i \in 1 .. b : ~Wrote(i, v)
    <3>1. \A i \in 1 .. n : ~Wrote(i, v)
      BY <1>2, <1>3, <2>1
    <3> QED BY <1>1, <1>2, <2>1, <3>1 DEF AfterMeans
  <2>2. CASE \E i \in 1 .. b : Wrote(i, v) /\ \A j \in 1 .. b : Wrote(j, v) => j <= i
    <3>1. PICK i \in 1 .. b : Wrote(i, v) /\ \A j \in 1 .. b : Wrote(j, v) => j <= i
      BY <2>2
    <3>2. i \in 1 .. n /\ \A j \in 1 .. n : Wrote(j, v) => j <= i
      BY <1>2, <1>3, <3>1
    <3>3. After(n)[v] = serial[i].tx
      BY <1>1, <3>1, <3>2 DEF AfterMeans
    <3>4. After(b)[v] = serial[i].tx
      BY <1>1, <1>2, <3>1 DEF AfterMeans
    <3> QED BY <3>3, <3>4
  <2> QED BY <1>1, <1>2, <2>1, <2>2 DEF AfterMeans
<1> QED BY <1>3, <1>4 DEF ReadsFrom

(* A pending commit holds what it is going to replace. *)
LEMMA PendingHolds ==
    ASSUME SerialInv, NEW j \in DOMAIN serial, Pending(serial[j]), NEW v \in serial[j].writes
    PROVE  LET u == serial[j].tx[1] IN
           u \in Threads /\ serial[j].tx = Fresh(u) /\ pc[u] = "validate" /\ v \in Held(u)
<1> DEFINE u == serial[j].tx[1]
<1>1. u \in Threads /\ pc[u] = "validate" /\ serial[j].tx[2] = done[u]
  BY DEF SerialInv, Order, Pending
<1>2. serial[j].tx \in Storage
  <2>1. Types
    BY DEF SerialInv
  <2>2. serial[j] \in Records
    BY <2>1, Domains
  <2> QED BY <2>2 DEF Records
<1>3. serial[j].tx = Fresh(u)
  BY <1>1, <1>2 DEF Fresh, Storage
<1>4. serial[j].writes = write_set[u]
  BY <1>1, <1>3 DEF SerialInv, Place
<1> QED BY <1>1, <1>3, <1>4 DEF Held

LEMMA ValidReads ==
    ASSUME Inv, SerialInv, NEW t \in Attempting, NEW r, r[1] \in Vars, Valid(t, r[1]),
           NEW n \in 0 .. Len(serial), born[t] <= n, r[2] = snapshot[t][r[1]]
    PROVE  ReadsFrom(n, r)
<1>1. t \in Threads /\ TypeOK /\ (\A u \in Threads : Progress(u)) /\ LockOwnership
  BY DEF Inv, VersionsTellContents, Attempting
<1>2. Settled(r[1], version_[t])
  BY <1>1, ValidSettled
<1>3. \A j \in DOMAIN serial : Pending(serial[j]) => r[1] \notin serial[j].writes
  BY <1>1, PendingHolds DEF LockOwnership, Valid
<1> QED BY <1>2, <1>3, SettledReads

(* A commit that has all its locks: what it replaces stays as it was.      *)
LEMMA HeldSettled ==
    ASSUME Inv, NEW t \in Threads, pc[t] \in {"lock", "validate"}, NEW v \in Held(t)
    PROVE  v \in Vars /\ Settled(v, version_[t])
<1>1. TypeOK /\ LockOwnership /\ Versions /\ \A u \in Threads : Progress(u)
  BY DEF Inv, VersionsTellContents
<1>2. v \in Vars
  BY <1>1 DEF Held, TypeOK
<1>3. \A u \in Threads : u # t => v \notin Held(u)
  BY <1>1 DEF LockOwnership
<1>4. /\ \A u \in Threads : pc[u] = "write" => v \notin write_set[u]
      /\ \A u \in Threads : pc[u] = "publish" => v \notin todo[u]
  BY <1>1, <1>3 DEF Held, Progress
<1> QED BY <1>1, <1>2, <1>4 DEF Settled, Versions

LEMMA HeldReads ==
    ASSUME Inv, SerialInv, NEW t \in Threads, pc[t] = "lock", NEW r, r[1] \in Held(t),
           r[2] = snapshot[t][r[1]]
    PROVE  ReadsFrom(Len(serial), r)
<1>1. t \in Attempting /\ TypeOK /\ LockOwnership /\ Types
  BY DEF Inv, VersionsTellContents, Attempting, SerialInv
<1>2. r[1] \in Vars /\ Settled(r[1], version_[t])
  BY HeldSettled
<1>3. ASSUME NEW j \in DOMAIN serial, Pending(serial[j]), r[1] \in serial[j].writes
      PROVE  FALSE
  <2>1. PICK u \in Threads : pc[u] = "validate" /\ r[1] \in Held(u)
    BY <1>3, PendingHolds
  <2> QED BY <1>1, <2>1 DEF LockOwnership
<1>4. Len(serial) \in 0 .. Len(serial) /\ born[t] <= Len(serial)
  BY <1>1 DEF Types
<1> QED BY <1>1, <1>2, <1>3, <1>4, SettledReads

(* What the attempts have read when a step of t is over, and what their    *)
(* commits have validated, as things were before it.                       *)
LEMMA SeenBefore ==
    ASSUME Inv, SerialInv, NEW t \in Threads, Step(t), NEW u \in Threads, NEW r \in seen'[u]
    PROVE  r[1] \in Vars /\ ReadsFrom(born[u], r)
<1>1. TypeOK /\ Types /\ Seen(u)
  BY DEF Inv, SerialInv
<1>2. CASE r \in seen[u]
  BY <1>1, <1>2 DEF Seen, TypeOK
<1>3. CASE r \notin seen[u]
  <2>1. u = t
    BY <1>1, <1>3, Frame DEF Same
  <2>2. r = <<cur[t], loaded[t]>> /\ pc[t] \in {"fast", "slow"} /\ Valid(t, cur[t])
    BY <1>1, <1>3, <2>1, ReadStepLemma DEF ReadStep
  <2>3. t \in Attempting /\ cur[t] \in Vars
    BY <1>1, <2>2 DEF Attempting, TypeOK
  <2>4. LockOwnership /\ (\A w \in Threads : Progress(w)) /\ Consistent(t)
    BY <2>3 DEF Inv, VersionsTellContents
  <2>5. Settled(cur[t], version_[t])
    BY <1>1, <2>2, <2>3, <2>4, ValidSettled
  <2>6. r[1] = cur[t] /\ r[2] = snapshot[t][r[1]]
    BY <2>2, <2>3, <2>4, <2>5 DEF Consistent
  <2>7. born[t] \in 0 .. Len(serial) /\ born[t] <= born[t]
    BY <1>1 DEF Types
  <2> QED BY <2>1, <2>2, <2>3, <2>6, <2>7, ValidReads
<1> QED BY <1>2, <1>3

LEMMA ValidatedBefore ==
    ASSUME Inv, SerialInv, NEW t \in Threads, Step(t), NEW u \in Threads,
           pc[u] = "validate", pc'[u] = "validate",
           NEW i \in DOMAIN serial, serial[i].tx = Fresh(u),
           NEW r \in serial[i].reads, r[1] \notin todo'[u]
    PROVE  ReadsFrom(i - 1, r)
<1>1. TypeOK /\ Types /\ Validated(u) /\ Place(u)
  BY DEF Inv, SerialInv
<1>2. CASE r[1] \notin todo[u]
  BY <1>1, <1>2 DEF Validated
<1>3. CASE r[1] \in todo[u]
  <2>1. u = t
    BY <1>1, <1>3, Frame DEF Same
  <2>2. Validates(t)
    <3>1. AllValid(t) => pc'[t] = "write"
      BY <1>1 DEF AllValid, NextLoop, Goto, TypeOK
    <3> QED BY <1>1, <2>1, <3>1, StageStep DEF Stage, GetClock, AllLocked, NextLoop, Ends,
         GivesUp, Outside, GoesOn, Completes, Committing
  <2>3. Valid(t, r[1]) /\ r[1] \in Vars
    BY <1>1, <1>3, <2>1, <2>2 DEF Validates, TypeOK
  <2>4. t \in Attempting
    BY <2>1 DEF Attempting
  <2>5. born[t] < i /\ r[2] = snapshot[t][r[1]]
    BY <1>1, <2>1 DEF Place
  <2>6. i - 1 \in 0 .. Len(serial) /\ born[t] <= i - 1
    BY <1>1, <2>5 DEF Types
  <2> QED BY <2>3, <2>4, <2>5, <2>6, ValidReads
<1> QED BY <1>2, <1>3
-----------------------------------------------------------------------------
(* The parts of the invariant, for what was in the order before *)

LEMMA BelowPlace ==
    ASSUME Types, Types', NEW f, Moves(f), NEW i \in DOMAIN f, NEW k, f[i] = k
    PROVE  /\ i \in DOMAIN serial /\ k \in DOMAIN serial'
           /\ Below(f, i - 1, k - 1) /\ Known(f, k - 1)
<1>1. DOMAIN serial = 1 .. Len(serial) /\ DOMAIN serial' = 1 .. Len(serial')
      /\ Len(serial) \in Nat /\ Len(serial') \in Nat
  BY Domains, DomainsThen
<1>2. i \in DOMAIN serial /\ k \in DOMAIN serial'
  BY DEF Moves
<1>3. i - 1 \in 0 .. Len(serial) /\ k - 1 \in 0 .. Len(serial')
  BY <1>1, <1>2
<1>4. ASSUME NEW j \in DOMAIN f
      PROVE  j <= i - 1 <=> f[j] <= k - 1
  <2>1. j \in Nat /\ i \in Nat /\ f[j] \in Nat /\ k \in Nat
    BY <1>1, <1>2 DEF Moves
  <2>2. j < i => f[j] < k
    BY DEF Moves
  <2>3. i < j => k < f[j]
    BY DEF Moves
  <2> QED BY <2>1, <2>2, <2>3
<1>5. Known(f, k - 1)
  <2> SUFFICES ASSUME NEW j \in DOMAIN serial', j <= k - 1
               PROVE  (\E l \in DOMAIN f : f[l] = j) \/ ~Pending(serial[j])'
    BY DEF Known
  <2>1. j # Len(serial')
    BY <1>1, <1>2
  <2> QED BY <2>1 DEF Moves
<1> QED BY <1>2, <1>3, <1>4, <1>5 DEF Below

LEMMA SerializedKept ==
    ASSUME SerialInv, Types', NEW f, Moves(f), NEW i \in DOMAIN f, NEW k, f[i] = k,
           Decided(serial[k])', NEW r \in serial'[k].reads
    PROVE  ReadsFrom(k - 1, r)'
<1>1. Types /\ Serialized
  BY DEF SerialInv
<1>2. i \in DOMAIN serial /\ k \in DOMAIN serial' /\ Below(f, i - 1, k - 1) /\ Known(f, k - 1)
  BY <1>1, BelowPlace
<1>3. serial'[k] = serial[i] /\ Decided(serial[i])
  BY <1>2 DEF Moves
<1>4. ReadsFrom(i - 1, r)
  BY <1>1, <1>2, <1>3 DEF Serialized
<1>5. r[1] \in Vars
  <2>1. serial[i] \in Records
    BY <1>1, <1>2, Domains
  <2> QED BY <1>3, <2>1 DEF Records
<1> QED BY <1>1, <1>2, <1>4, <1>5, ReadsKept

LEMMA ValidatedKept ==
    ASSUME Inv, SerialInv, Types', NEW t \in Threads, Step(t), NEW f, Moves(f),
           NEW i \in DOMAIN f, NEW k, f[i] = k, NEW u \in Threads,
           serial'[k].tx = Fresh(u)', pc'[u] = "validate",
           NEW r \in serial'[k].reads, r[1] \notin todo'[u]
    PROVE  ReadsFrom(k - 1, r)'
<1>1. Types /\ TypeOK
  BY DEF SerialInv, Inv
<1>2. i \in DOMAIN serial /\ k \in DOMAIN serial' /\ Below(f, i - 1, k - 1) /\ Known(f, k - 1)
  BY <1>1, BelowPlace
<1>3. Pending(serial[k])'
  BY DEF Pending, Fresh
<1>4. serial'[k] = serial[i] /\ Pending(serial[i])
  BY <1>2, <1>3 DEF Moves
<1>5. serial[i] \in Records
  BY <1>1, <1>2, Domains
<1>6. serial[i].tx[1] = u
  BY <1>4 DEF Fresh
<1>7. serial[i].tx = Fresh(u) /\ pc[u] = "validate"
  BY <1>4, <1>5, <1>6 DEF Pending, Fresh, Records, Storage
<1>8. ReadsFrom(i - 1, r)
  BY <1>2, <1>4, <1>7, ValidatedBefore
<1>9. r[1] \in Vars
  BY <1>4, <1>5 DEF Records
<1> QED BY <1>1, <1>2, <1>8, <1>9, ReadsKept

LEMMA SeenKept ==
    ASSUME Inv, SerialInv, Types', NEW t \in Threads, Step(t), NEW f, Moves(f),
           NEW u \in Threads, Below(f, born[u], born'[u]), Known(f, born'[u])
    PROVE  Seen(u)'
<1> SUFFICES ASSUME NEW r \in seen'[u]
             PROVE  ReadsFrom(born[u], r)'
  BY DEF Seen
<1>1. PICK n : n = born[u]
  OBVIOUS
<1>2. PICK m : m = born'[u]
  OBVIOUS
<1>3. r[1] \in Vars /\ ReadsFrom(n, r)
  BY <1>1, SeenBefore
<1>4. Below(f, n, m) /\ Known(f, m)
  BY <1>1, <1>2
<1>5. ReadsFrom(m, r)'
  BY <1>3, <1>4, ReadsKept DEF SerialInv
<1> QED BY <1>2, <1>5 DEF ReadsFrom

LEMMA SnappedKept ==
    ASSUME Inv, Inv', SerialInv, Types', NEW t \in Threads, Step(t), NEW f, Moves(f),
           NEW u \in Attempting, u \in Attempting', Below(f, born[u], born'[u])
    PROVE  Snapped(u)'
<1>1. TypeOK /\ (\A w \in Threads : Progress(w)) /\ LockOwnership /\ Versions /\ u \in Threads
  BY DEF Inv, VersionsTellContents, Attempting
<1>2. Types /\ Snapped(u)
  BY DEF SerialInv
<1>3. version_'[u] = version_[u] /\ snapshot'[u] = snapshot[u]
  <2>1. CASE u = t
    BY <1>1, <2>1, ReadStepLemma DEF ReadStep
  <2>2. CASE u # t
    BY <1>1, <2>2, Frame DEF Same
  <2> QED BY <2>1, <2>2
<1> SUFFICES ASSUME NEW v \in Vars, Settled(v, version_[u])'
             PROVE  /\ snapshot'[u][v] = After(born[u])'[v]
                    /\ \A k \in DOMAIN serial' : born'[u] < k /\ Decided(serial[k])' =>
                           v \notin serial'[k].writes
  BY DEF Snapped
<1>4. Settled(v, version_[u])
  <2>1. version_'[u] <= clock
    BY <1>1, <1>3 DEF Versions
  <2>2. Settled(v, version_'[u])
    BY <1>1, <2>1, SettledBefore
  <2> QED BY <1>3, <2>2
<1>5. PICK n : n = born[u]
  OBVIOUS
<1>6. PICK m : m = born'[u]
  OBVIOUS
<1>7. After(m)'[v] = After(n)[v]
  BY <1>2, <1>5, <1>6, AfterKept
<1>8. snapshot'[u][v] = After(born[u])'[v]
  <2>1. After(born[u])' = After(m)'
    BY <1>6 DEF After
  <2> QED BY <1>2, <1>3, <1>4, <1>5, <1>7, <2>1 DEF Snapped
<1>9. ASSUME NEW k \in DOMAIN serial', born'[u] < k, Decided(serial[k])', v \in serial'[k].writes
      PROVE  FALSE
  <2>1. PICK i \in DOMAIN f : f[i] = k
    BY <1>9 DEF Moves
  <2>2. i \in DOMAIN serial /\ serial'[k] = serial[i] /\ Decided(serial[i])
    BY <1>9, <2>1 DEF Moves
  <2>3. ~(i <= born[u])
    <3>1. k \in Nat /\ born'[u] \in Nat
      BY <1>1, DomainsThen DEF Types
    <3> QED BY <1>9, <2>1, <3>1 DEF Below
  <2>4. born[u] < i
    BY <1>1, <1>2, <2>2, <2>3, Domains DEF Types
  <2> QED BY <1>2, <1>4, <1>9, <2>2, <2>4 DEF Snapped
<1> QED BY <1>8, <1>9

LEMMA MemoryKept ==
    ASSUME Inv, Inv', SerialInv, Types', NEW t \in Threads, Step(t), ~AllValid(t),
           NEW f, Moves(f)
    PROVE  (Memory = After(Len(serial)))'
<1>1. Types /\ Memory = After(Len(serial))
  BY DEF SerialInv
<1>2. DOMAIN serial = 1 .. Len(serial) /\ DOMAIN serial' = 1 .. Len(serial')
      /\ Len(serial) \in Nat /\ Len(serial') \in Nat
  BY <1>1, Domains, DomainsThen
<1>3. PICK n : n = Len(serial)
  OBVIOUS
<1>4. PICK m : m = Len(serial')
  OBVIOUS
<1>5. Below(f, n, m)
  <2>1. \A i \in DOMAIN f : i <= n /\ f[i] <= m
    BY <1>2, <1>3, <1>4 DEF Moves
  <2> QED BY <1>2, <1>3, <1>4, <2>1 DEF Below
<1>6. \A v \in Vars : Memory'[v] = Memory[v] /\ After(m)'[v] = After(n)[v]
  BY <1>1, <1>5, MemoryStep, AfterKept
<1>7. \A v \in Vars : Memory'[v] = After(m)'[v]
  BY <1>1, <1>3, <1>6
<1>8. Memory' = After(m)'
  BY <1>7 DEF Memory, After
<1> QED BY <1>4, <1>8 DEF After

(* Nobody else leaves the order, and t alone comes in, once, at p.         *)
Only(t, f, p) ==
    /\ \A i \in DOMAIN serial : i \in DOMAIN f \/ serial[i].tx = Fresh(t)
    /\ \A k \in DOMAIN serial' :
           \/ \E i \in DOMAIN f : f[i] = k
           \/ /\ k = p /\ serial'[k].tx = Fresh(t)
              /\ \A i \in DOMAIN serial : serial[i].tx # Fresh(t)

LEMMA EntriesKept ==
    ASSUME Inv, SerialInv, NEW t \in Threads, Step(t), NEW i \in DOMAIN serial
    PROVE  /\ serial[i] \in Records /\ serial[i].tx[1] \in Threads
           /\ serial[i].tx[2] <= done'[serial[i].tx[1]]
<1>1. Types /\ TypeOK /\ Order /\ Place(t)
  BY DEF Inv, SerialInv
<1>2. PICK e : e = serial[i]
  OBVIOUS
<1>3. e \in Records /\ e.tx[1] \in Threads /\ e.tx[2] <= done[e.tx[1]]
  BY <1>1, <1>2, Domains DEF Order
<1>4. e.tx = Fresh(t) => pc[t] \in Committing
  BY <1>1, <1>2 DEF Place, Committing
<1>5. e.tx[2] <= done'[e.tx[1]]
  BY <1>1, <1>3, <1>4, EntryStep
<1> QED BY <1>2, <1>3, <1>5

LEMMA OrderKept ==
    ASSUME Inv, SerialInv, Types', NEW t \in Threads, Step(t), NEW f, Moves(f), NEW p, Only(t, f, p)
    PROVE  Order'
<1>1. Types /\ TypeOK /\ TypeOK' /\ Order
  BY TypeStep DEF Inv, SerialInv, Next
<1>2. ASSUME NEW i \in DOMAIN serial', NEW j \in DOMAIN serial', serial'[i].tx = serial'[j].tx
      PROVE  i = j
  <2>1. CASE \E k \in DOMAIN f : f[k] = i
    <3>1. PICK k \in DOMAIN f : f[k] = i
      BY <2>1
    <3>2. k \in DOMAIN serial /\ serial'[i] = serial[k]
      BY <3>1 DEF Moves
    <3>3. PICK l \in DOMAIN f : f[l] = j
      BY <1>2, <3>2 DEF Only
    <3>4. l \in DOMAIN serial /\ serial'[j] = serial[l]
      BY <3>3 DEF Moves
    <3> QED BY <1>1, <1>2, <3>1, <3>2, <3>3, <3>4 DEF Order
  <2>2. CASE ~\E k \in DOMAIN f : f[k] = i
    <3>1. i = p /\ serial'[i].tx = Fresh(t) /\ \A l \in DOMAIN serial : serial[l].tx # Fresh(t)
      BY <2>2 DEF Only
    <3>2. ~\E l \in DOMAIN f : f[l] = j
      BY <1>2, <3>1 DEF Moves
    <3> QED BY <3>1, <3>2 DEF Only
  <2> QED BY <2>1, <2>2
<1>3. ASSUME NEW i \in DOMAIN serial'
      PROVE  serial'[i].tx[1] \in Threads /\ serial'[i].tx[2] <= done'[serial'[i].tx[1]]
  <2>1. CASE \E k \in DOMAIN f : f[k] = i
    <3>1. PICK k \in DOMAIN f : f[k] = i
      BY <2>1
    <3>2. k \in DOMAIN serial /\ serial'[i] = serial[k]
      BY <3>1 DEF Moves
    <3> QED BY <3>2, EntriesKept
  <2>2. CASE ~\E k \in DOMAIN f : f[k] = i
    <3>1. serial'[i].tx = Fresh(t)
      BY <2>2 DEF Only
    <3>2. done[t] <= done'[t]
      <4>1. Stage(t)
        BY <1>1, StageStep
      <4>2. done' = done \/ done' = [done EXCEPT ![t] = @ + 1]
        BY <1>1, <4>1 DEF Stage, GetClock, AllLocked, AllValid, Commit, Ends, GivesUp,
             Outside, Validates, GoesOn, Completes
      <4> QED BY <1>1, <4>2 DEF TypeOK
    <3> QED BY <3>1, <3>2 DEF Fresh
  <2> QED BY <2>1, <2>2
<1> QED BY <1>2, <1>3 DEF Order

(* The place of another thread. *)
LEMMA PlaceKept ==
    ASSUME Inv, SerialInv, Types', NEW t \in Threads, Step(t), NEW f, Moves(f), NEW p, Only(t, f, p),
           NEW u \in Threads, u # t, Below(f, born[u], born'[u])
    PROVE  Place(u)'
<1>1. Types /\ TypeOK /\ Place(u)
  BY DEF Inv, SerialInv
<1>2. /\ pc'[u] = pc[u] /\ write_set'[u] = write_set[u] /\ snapshot'[u] = snapshot[u]
      /\ Fresh(u)' = Fresh(u) /\ Fresh(u) # Fresh(t)
  BY <1>1, Frame DEF Same, Fresh
<1>3. pc'[u] \in {"validate", "write", "publish"} =>
          \E k \in DOMAIN serial' : serial'[k].tx = Fresh(u)'
  <2> SUFFICES ASSUME pc'[u] \in {"validate", "write", "publish"}
               PROVE  \E k \in DOMAIN serial' : serial'[k].tx = Fresh(u)'
    OBVIOUS
  <2>1. PICK i \in DOMAIN serial : serial[i].tx = Fresh(u)
    BY <1>1, <1>2 DEF Place
  <2>2. i \in DOMAIN f
    BY <1>2, <2>1 DEF Only
  <2>3. f[i] \in DOMAIN serial' /\ serial'[f[i]] = serial[i]
    BY <2>2 DEF Moves
  <2> QED BY <1>2, <2>1, <2>3
<1>4. ASSUME NEW k \in DOMAIN serial', serial'[k].tx = Fresh(u)'
      PROVE  /\ pc'[u] \in {"validate", "write", "publish", "unlock"}
             /\ born'[u] < k
             /\ serial'[k].writes = write_set'[u]
             /\ \A r \in serial'[k].reads : r[2] = snapshot'[u][r[1]]
  <2>1. PICK i \in DOMAIN f : f[i] = k
    BY <1>2, <1>4 DEF Only
  <2>2. i \in DOMAIN serial /\ serial'[k] = serial[i]
    BY <1>4, <2>1 DEF Moves
  <2>3. born[u] < i /\ i \in Nat /\ born[u] \in Nat
    BY <1>1, <1>2, <1>4, <2>2, Domains DEF Place, Types
  <2>4. born'[u] < k
    <3>1. k \in Nat /\ born'[u] \in Nat
      BY DomainsThen DEF Types
    <3> QED BY <2>1, <2>3, <3>1 DEF Below
  <2> QED BY <1>1, <1>2, <1>4, <2>2, <2>4 DEF Place
<1> QED BY <1>3, <1>4 DEF Place

(* All of them: what remains to be shown of a step is what it means for t. *)
LEMMA Kept ==
    ASSUME Inv, Inv', SerialInv, Types', NEW t \in Threads, Step(t), ~AllValid(t),
           NEW f, Moves(f), NEW p, Only(t, f, p),
           \A u \in Threads : u # t => Below(f, born[u], born'[u]) /\ Known(f, born'[u]),
           \A k \in DOMAIN serial' :
               \/ \E i \in DOMAIN f : f[i] = k
               \/ \A r \in serial'[k].reads :
                      Decided(serial[k])' \/ r[1] \notin todo'[t] => ReadsFrom(k - 1, r)',
           Place(t)', Seen(t)', t \in Attempting' => Snapped(t)'
    PROVE  SerialInv'
<1>1. Order'
  BY OrderKept
<1>2. Serialized'
  <2> SUFFICES ASSUME NEW k \in DOMAIN serial', Decided(serial[k])', NEW r \in serial'[k].reads
               PROVE  ReadsFrom(k - 1, r)'
    BY DEF Serialized
  <2>1. CASE \E i \in DOMAIN f : f[i] = k
    BY <2>1, SerializedKept
  <2> QED BY <2>1
<1>3. ASSUME NEW u \in Threads
      PROVE  Validated(u)'
  <2> SUFFICES ASSUME NEW k \in DOMAIN serial', serial'[k].tx = Fresh(u)', pc'[u] = "validate",
                      NEW r \in serial'[k].reads, r[1] \notin todo'[u]
               PROVE  ReadsFrom(k - 1, r)'
    BY DEF Validated
  <2>1. CASE \E i \in DOMAIN f : f[i] = k
    BY <2>1, ValidatedKept
  <2>2. CASE ~\E i \in DOMAIN f : f[i] = k
    <3>1. serial'[k].tx = Fresh(t)
      BY <2>2 DEF Only
    <3>2. u = t
      BY <3>1 DEF Fresh
    <3> QED BY <2>2, <3>2
  <2> QED BY <2>1, <2>2
<1>4. ASSUME NEW u \in Threads
      PROVE  Place(u)' /\ Seen(u)'
  BY PlaceKept, SeenKept
<1>5. ASSUME NEW u \in Attempting'
      PROVE  Snapped(u)'
  <2>1. CASE u = t
    BY <1>5, <2>1
  <2>2. CASE u # t
    <3>1. u \in Threads /\ u \in Attempting
      BY <1>5, <2>2, Frame DEF Same, Attempting, Inv
    <3> QED BY <1>5, <2>2, <3>1, SnappedKept
  <2> QED BY <2>1, <2>2
<1>6. (Memory = After(Len(serial)))'
  BY MemoryKept
<1> QED BY <1>1, <1>2, <1>3, <1>4, <1>5, <1>6 DEF SerialInv
-----------------------------------------------------------------------------
(* The steps that leave the order alone *)

(* What the entries that stay say after a step. *)
LEMMA EntriesStep ==
    ASSUME Inv, SerialInv, NEW t \in Threads, Step(t), ~AllValid(t),
           NEW i \in DOMAIN serial, NEW k, serial'[k] = serial[i]
    PROVE  /\ Decided(serial[k])' <=> Decided(serial[i])
           /\ Pending(serial[k])' => Pending(serial[i])
<1>1. Types /\ TypeOK /\ Order /\ Place(t)
  BY DEF Inv, SerialInv
<1>2. PICK e : e = serial[i]
  OBVIOUS
<1>3. e \in Records /\ e.tx[1] \in Threads /\ e.tx[2] <= done[e.tx[1]]
  BY <1>1, <1>2, Domains DEF Order
<1>4. e.tx = Fresh(t) => pc[t] \in Committing
  BY <1>1, <1>2 DEF Place, Committing
<1>5. (Decided(e)' <=> Decided(e)) /\ (Pending(e)' => Pending(e))
  BY <1>1, <1>3, <1>4, EntryStep
<1>6. serial'[k] = e
  BY <1>2
<1> QED BY <1>2, <1>5, <1>6 DEF Decided, Pending

LEMMA StayMoves ==
    ASSUME Inv, SerialInv, NEW t \in Threads, Step(t), ~AllValid(t), serial' = serial
    PROVE  \E f : /\ Moves(f) /\ Only(t, f, 0)
                  /\ \A n \in 0 .. Len(serial) : Below(f, n, n) /\ Known(f, n)
                  /\ \A k \in DOMAIN serial' : \E i \in DOMAIN f : f[i] = k
<1>1. Types /\ DOMAIN serial = 1 .. Len(serial) /\ Len(serial) \in Nat
  BY Domains DEF SerialInv
<1>2. PICK f : f = [i \in DOMAIN serial |-> i]
  OBVIOUS
<1>3. DOMAIN f = DOMAIN serial /\ \A i \in DOMAIN serial : f[i] = i
  BY <1>2
<1>4. \A k \in DOMAIN serial' : \E i \in DOMAIN f : f[i] = k
  BY <1>3
<1>5. \A i \in DOMAIN f, k \in DOMAIN serial' : f[i] = k =>
          /\ serial'[k] = serial[i]
          /\ Decided(serial[k])' <=> Decided(serial[i])
          /\ Pending(serial[k])' => Pending(serial[i])
  BY <1>3, EntriesStep
<1>6. f \in [DOMAIN f -> DOMAIN serial']
  BY <1>2, <1>3
<1>7. Moves(f)
  BY <1>3, <1>4, <1>5, <1>6 DEF Moves
<1>8. Only(t, f, 0)
  BY <1>3, <1>4 DEF Only
<1>9. \A n \in 0 .. Len(serial) : Below(f, n, n) /\ Known(f, n)
  BY <1>1, <1>3, <1>4 DEF Below, Known
<1> QED BY <1>4, <1>7, <1>8, <1>9

(* Where the place of t is when it ends its transaction. *)
LEMMA NoPlaceNext ==
    ASSUME SerialInv, TypeOK, NEW t \in Threads,
           done'[t] = done[t] + 1, NEW e, e \in {serial[i] : i \in DOMAIN serial}
    PROVE  e.tx # Fresh(t)'
<1>1. Types /\ Order
  BY DEF SerialInv
<1>2. PICK i \in DOMAIN serial : e = serial[i]
  OBVIOUS
<1> SUFFICES ASSUME e.tx = <<t, done[t] + 1>>
             PROVE  FALSE
  BY DEF Fresh
<1>3. done[t] + 1 <= done[t]
  BY <1>1, <1>2 DEF Order
<1> QED BY <1>3 DEF TypeOK

LEMMA StaysKeeps ==
    ASSUME Inv, Inv', SerialInv, NEW t \in Threads, Step(t), UNCHANGED <<serial, born>>,
           \/ Outside(t) \/ Validates(t) \/ GoesOn(t) \/ Completes(t)
           \/ GivesUp(t) /\ \A k \in DOMAIN serial : serial[k].tx # Fresh(t)
    PROVE  SerialInv'
<1>1. Types /\ TypeOK /\ Place(t) /\ Order
  BY DEF Inv, SerialInv
<1>2. Types'
  BY <1>1 DEF Types
<1>3. ~AllValid(t)
  BY <1>1 DEF AllValid, NextLoop, Goto, TypeOK, Outside, Validates, GoesOn, Completes, GivesUp,
       Committing
<1>4. PICK f : /\ Moves(f) /\ Only(t, f, 0)
               /\ \A n \in 0 .. Len(serial) : Below(f, n, n) /\ Known(f, n)
               /\ \A k \in DOMAIN serial' : \E i \in DOMAIN f : f[i] = k
  BY <1>3, StayMoves
<1>5. \A u \in Threads : Below(f, born[u], born'[u]) /\ Known(f, born'[u])
  <2> SUFFICES ASSUME NEW u \in Threads
               PROVE  Below(f, born[u], born'[u]) /\ Known(f, born'[u])
    OBVIOUS
  <2>1. born[u] \in 0 .. Len(serial) /\ born'[u] = born[u]
    BY <1>1 DEF Types
  <2> QED BY <1>4, <2>1
<1>6. Place(t)'
  <2>1. CASE Outside(t)
    BY <1>1, <2>1 DEF Outside, Place, Fresh, Committing
  <2>2. CASE Validates(t) \/ GoesOn(t)
    <3>1. /\ UNCHANGED <<done, write_set, snapshot>>
          /\ pc'[t] \in {"validate", "write", "publish", "unlock"}
          /\ pc'[t] \in {"validate", "write", "publish"} => pc[t] \in {"validate", "write", "publish"}
      BY <2>2 DEF Validates, GoesOn
    <3> QED BY <1>1, <3>1 DEF Place, Fresh
  <2>3. CASE Completes(t)
    <3>1. pc'[t] = "idle" /\ done'[t] = done[t] + 1
      BY <1>1, <2>3 DEF Completes, TypeOK
    <3>2. \A i \in DOMAIN serial' : serial'[i].tx # Fresh(t)'
      BY <1>1, <3>1, NoPlaceNext
    <3> QED BY <3>1, <3>2 DEF Place
  <2>4. CASE GivesUp(t) /\ \A k \in DOMAIN serial : serial[k].tx # Fresh(t)
    BY <2>4 DEF GivesUp, Place, Fresh
  <2> QED BY <2>1, <2>2, <2>3, <2>4
<1>7. Seen(t)'
  BY <1>2, <1>4, <1>5, SeenKept
<1>8. t \in Attempting' => Snapped(t)'
  <2>1. t \in Attempting' => t \in Attempting
    BY DEF Outside, Validates, GoesOn, Completes, GivesUp, Attempting
  <2> QED BY <1>2, <1>4, <1>5, <2>1, SnappedKept
<1> QED BY <1>2, <1>3, <1>4, <1>5, <1>6, <1>7, <1>8, Kept

LEMMA BeginKeeps ==
    ASSUME Inv, Inv', SerialInv, NEW t \in Threads, Step(t), GetClock(t),
           serial' = serial, born' = [born EXCEPT ![t] = Len(serial)]
    PROVE  SerialInv'
<1>1. Types /\ TypeOK /\ Place(t) /\ Progress(t) /\ Memory = After(Len(serial))
  BY DEF Inv, SerialInv, VersionsTellContents
<1>2. Len(serial) \in Nat /\ Len(serial') = Len(serial)
  BY <1>1, Domains
<1>3. Types'
  BY <1>1, <1>2 DEF Types
<1>4. /\ pc[t] = "top" /\ pc'[t] = "run" /\ UNCHANGED <<done, seen>>
      /\ snapshot'[t] = Memory
  BY <1>1 DEF GetClock, Goto, TypeOK
<1>5. ~AllValid(t)
  BY <1>4 DEF AllValid, NextLoop
<1>6. PICK f : /\ Moves(f) /\ Only(t, f, 0)
               /\ \A n \in 0 .. Len(serial) : Below(f, n, n) /\ Known(f, n)
               /\ \A k \in DOMAIN serial' : \E i \in DOMAIN f : f[i] = k
  BY <1>5, StayMoves
<1>7. \A u \in Threads : u # t => Below(f, born[u], born'[u]) /\ Known(f, born'[u])
  <2> SUFFICES ASSUME NEW u \in Threads, u # t
               PROVE  Below(f, born[u], born'[u]) /\ Known(f, born'[u])
    OBVIOUS
  <2>1. born[u] \in 0 .. Len(serial) /\ born'[u] = born[u]
    BY <1>1 DEF Types
  <2> QED BY <1>6, <2>1
<1>8. Place(t)'
  BY <1>1, <1>4 DEF Place, Fresh
<1>9. Seen(t)'
  BY <1>1, <1>4 DEF Progress, Attempting, Seen
<1>10. Snapped(t)'
  <2> SUFFICES ASSUME NEW v \in Vars
               PROVE  /\ snapshot'[t][v] = After(born[t])'[v]
                      /\ \A j \in DOMAIN serial' : ~(born'[t] < j)
    BY DEF Snapped
  <2>1. PICK n : n = Len(serial)
    OBVIOUS
  <2>2. Below(f, n, n)
    BY <1>2, <1>6, <2>1
  <2>3. After(n)'[v] = After(n)[v]
    BY <1>1, <1>3, <1>6, <2>2, AfterKept
  <2>4. born'[t] = n
    BY <1>1, <2>1 DEF Types
  <2>5. After(born[t])' = After(n)'
    <3>1. n = born'[t]
      BY <2>4
    <3> QED BY <3>1 DEF After
  <2>6. \A j \in DOMAIN serial' : ~(born'[t] < j)
    BY <1>1, <1>2, <2>1, <2>4, Domains
  <2> QED BY <1>1, <1>4, <2>1, <2>3, <2>5, <2>6
<1> QED BY <1>3, <1>5, <1>6, <1>7, <1>8, <1>9, <1>10, Kept
-----------------------------------------------------------------------------
(* The steps that change the order *)

LEMMA AppendIs ==
    ASSUME NEW q \in Seq(Records), NEW e \in Records
    PROVE  /\ Append(q, e) \in Seq(Records) /\ Len(Append(q, e)) = Len(q) + 1
           /\ DOMAIN Append(q, e) = DOMAIN q \cup {Len(q) + 1}
           /\ Append(q, e)[Len(q) + 1] = e
           /\ \A i \in DOMAIN q : i <= Len(q) /\ Append(q, e)[i] = q[i]
OBVIOUS

LEMMA RemoveIs ==
    ASSUME NEW q \in Seq(Records), NEW k \in DOMAIN q
    PROVE  /\ RemoveAt(q, k) \in Seq(Records) /\ Len(RemoveAt(q, k)) = Len(q) - 1
           /\ \A i \in 1 .. (Len(q) - 1) : RemoveAt(q, k)[i] = IF i < k THEN q[i] ELSE q[i + 1]
<1> DEFINE a == SubSeq(q, 1, k - 1)
           b == SubSeq(q, k + 1, Len(q))
<1>1. Len(q) \in Nat /\ k \in 1 .. Len(q)
  OBVIOUS
<1>2. a \in Seq(Records) /\ Len(a) = k - 1 /\ \A i \in 1 .. (k - 1) : a[i] = q[i]
  BY <1>1
<1>3. b \in Seq(Records) /\ Len(b) = Len(q) - k
      /\ \A i \in 1 .. (Len(q) - k) : b[i] = q[k + i]
  <2>1. \A i \in (k + 1) .. Len(q) : q[i] \in Records
    BY <1>1
  <2> QED BY <1>1, <2>1, SubSeqProperties
<1>4. RemoveAt(q, k) = a \o b
  BY DEF RemoveAt
<1> HIDE DEF a, b
<1>5. /\ a \o b \in Seq(Records) /\ Len(a \o b) = Len(q) - 1
      /\ \A i \in 1 .. (Len(q) - 1) : (a \o b)[i] = IF i <= k - 1 THEN a[i] ELSE b[i - (k - 1)]
  BY <1>1, <1>2, <1>3, ConcatProperties
<1>6. ASSUME NEW i \in 1 .. (Len(q) - 1)
      PROVE  (a \o b)[i] = IF i < k THEN q[i] ELSE q[i + 1]
  <2>1. CASE i < k
    BY <1>1, <1>2, <1>5, <2>1
  <2>2. CASE ~(i < k)
    <3> DEFINE j == i - (k - 1)
    <3>1. j \in 1 .. (Len(q) - k) /\ k + j = i + 1
      BY <1>1, <2>2
    <3>2. (a \o b)[i] = b[j]
      BY <1>1, <1>5, <2>2
    <3>3. b[j] = q[k + j]
      BY <1>3, <3>1
    <3> QED BY <2>2, <3>1, <3>2, <3>3
  <2> QED BY <2>1, <2>2
<1> QED BY <1>4, <1>5, <1>6

LEMMA InsertIs ==
    ASSUME NEW q \in Seq(Records), NEW e \in Records, NEW n \in 0 .. Len(q)
    PROVE  /\ InsertAt(q, n + 1, e) \in Seq(Records) /\ Len(InsertAt(q, n + 1, e)) = Len(q) + 1
           /\ \A i \in 1 .. n : InsertAt(q, n + 1, e)[i] = q[i]
           /\ InsertAt(q, n + 1, e)[n + 1] = e
           /\ \A i \in (n + 1) .. Len(q) : InsertAt(q, n + 1, e)[i + 1] = q[i]
<1> DEFINE a == SubSeq(q, 1, n)
           m == <<e>>
           b == SubSeq(q, n + 1, Len(q))
<1>1. Len(q) \in Nat /\ n \in Nat /\ n <= Len(q)
  OBVIOUS
<1>2. a \in Seq(Records) /\ Len(a) = n /\ \A i \in 1 .. n : a[i] = q[i]
  <2>1. \A i \in 1 .. n : q[i] \in Records
    BY <1>1
  <2> QED BY <1>1, <2>1, SubSeqProperties
<1>3. b \in Seq(Records) /\ Len(b) = Len(q) - n
      /\ \A i \in 1 .. (Len(q) - n) : b[i] = q[n + i]
  <2>1. \A i \in (n + 1) .. Len(q) : q[i] \in Records
    BY <1>1
  <2> QED BY <1>1, <2>1, SubSeqProperties
<1>4. m \in Seq(Records) /\ Len(m) = 1 /\ m[1] = e
  OBVIOUS
<1> DEFINE c == a \o m
           s == c \o b
<1>5. InsertAt(q, n + 1, e) = s
  <2>1. InsertAt(q, n + 1, e) = SubSeq(q, 1, (n + 1) - 1) \o <<e>> \o SubSeq(q, n + 1, Len(q))
    BY DEF InsertAt
  <2>2. (n + 1) - 1 = n
    BY <1>1
  <2>3. SubSeq(q, 1, (n + 1) - 1) = SubSeq(q, 1, n)
    BY <2>2
  <2> QED BY <2>1, <2>3, Zenon
<1> HIDE DEF a, b, m
<1>6. /\ c \in Seq(Records) /\ Len(c) = Len(a) + Len(m)
      /\ \A i \in 1 .. Len(a) + Len(m) : c[i] = IF i <= Len(a) THEN a[i] ELSE m[i - Len(a)]
  BY <1>2, <1>4, ConcatProperties, Zenon
<1> HIDE DEF c
<1>7. /\ s \in Seq(Records) /\ Len(s) = Len(c) + Len(b)
      /\ \A i \in 1 .. Len(c) + Len(b) : s[i] = IF i <= Len(c) THEN c[i] ELSE b[i - Len(c)]
  <2>1. c \in Seq(Records) /\ b \in Seq(Records)
    BY <1>3, <1>6
  <2> QED BY <2>1, ConcatProperties
<1> HIDE DEF s
<1>8. Len(c) = n + 1 /\ Len(s) = Len(q) + 1
  BY <1>1, <1>2, <1>3, <1>4, <1>6, <1>7
<1>9. ASSUME NEW i \in 1 .. n
      PROVE  s[i] = q[i]
  <2>1. /\ i \in 1 .. Len(c) + Len(b) /\ i <= Len(c)
        /\ i \in 1 .. Len(a) + Len(m) /\ i <= Len(a)
    BY <1>1, <1>2, <1>3, <1>4, <1>8
  <2> QED BY <1>2, <1>6, <1>7, <2>1
<1>10. s[n + 1] = e
  <2>1. s[n + 1] = c[n + 1]
    <3>1. n + 1 \in 1 .. Len(c) + Len(b) /\ n + 1 <= Len(c)
      BY <1>1, <1>3, <1>8
    <3> QED BY <1>7, <3>1
  <2>2. c[n + 1] = m[1]
    BY <1>1, <1>2, <1>4, <1>6
  <2> QED BY <1>4, <2>1, <2>2
<1>11. ASSUME NEW i \in (n + 1) .. Len(q)
       PROVE  s[i + 1] = q[i]
  <2> DEFINE j == i - n
  <2>1. j \in 1 .. (Len(q) - n) /\ n + j = i /\ (i + 1) - Len(c) = j
        /\ i + 1 \in 1 .. Len(c) + Len(b) /\ ~(i + 1 <= Len(c))
    BY <1>1, <1>3, <1>8
  <2>2. s[i + 1] = b[j]
    BY <1>7, <2>1
  <2>3. b[j] = q[n + j]
    BY <1>3, <2>1
  <2> QED BY <2>1, <2>2, <2>3
<1> QED BY <1>5, <1>7, <1>8, <1>9, <1>10, <1>11

LEMMA EntryTypes ==
    ASSUME TypeOK, NEW t \in Threads
    PROVE  Entry(t) \in Records /\ Observer(t) \in Records
<1>1. Fresh(t) \in Storage /\ write_set[t] \in SUBSET Vars /\ seen[t] \in SUBSET (Vars \X Storage)
      /\ \A v \in Vars : displaced[t][v] \in Storage
  BY DEF Fresh, Storage, TypeOK
<1> QED BY <1>1 DEF Entry, Observer, Records

LEMMA AppendKeeps ==
    ASSUME Inv, Inv', SerialInv, NEW t \in Threads, Step(t), AllLocked(t), Appends(t)
    PROVE  SerialInv'
<1>1. Types /\ TypeOK /\ Order /\ Place(t)
  BY DEF Inv, SerialInv
<1>2. /\ pc[t] = "lock" /\ todo[t] = {} /\ pc'[t] = "validate" /\ todo'[t] = read_set[t]
      /\ UNCHANGED <<done, write_set, snapshot, seen>>
  BY <1>1 DEF AllLocked, NextLoop, Goto, Commit, sets, history, TypeOK
<1>3. ~AllValid(t) /\ t \in Attempting /\ t \in Attempting'
  BY <1>2 DEF AllValid, NextLoop, Attempting
<1>4. PICK e : e = Entry(t)
  OBVIOUS
<1>5. PICK n : n = Len(serial)
  OBVIOUS
<1>6. serial' = Append(serial, e) /\ e \in Records /\ serial \in Seq(Records) /\ born' = born
  BY <1>1, <1>4, EntryTypes DEF Appends, Types
<1>7. /\ serial' \in Seq(Records) /\ Len(serial') = n + 1
      /\ DOMAIN serial' = DOMAIN serial \cup {n + 1}
      /\ serial'[n + 1] = e
      /\ \A i \in DOMAIN serial : i <= n /\ serial'[i] = serial[i]
  BY <1>5, <1>6, AppendIs
<1>8. n \in Nat /\ DOMAIN serial = 1 .. n
  BY <1>1, <1>5, Domains
<1>9. Types'
  BY <1>1, <1>5, <1>6, <1>7, <1>8 DEF Types
<1>10. e.tx = Fresh(t) /\ e.writes = write_set[t] /\ \A i \in DOMAIN serial : serial[i].tx # Fresh(t)
  BY <1>1, <1>2, <1>4 DEF Entry, Place
<1>11. ~Decided(serial[n + 1])'
  BY <1>1, <1>2, <1>7, <1>10 DEF Decided, Fresh, TypeOK
<1>12. PICK f : f = [i \in DOMAIN serial |-> i]
  OBVIOUS
<1>13. DOMAIN f = DOMAIN serial /\ \A i \in DOMAIN serial : f[i] = i
  BY <1>12
<1>14. \A k \in DOMAIN serial' : (\E i \in DOMAIN f : f[i] = k) \/ k = n + 1
  BY <1>7, <1>13
<1>15. Moves(f)
  <2>1. \A i \in DOMAIN f, k \in DOMAIN serial' : f[i] = k =>
            /\ serial'[k] = serial[i]
            /\ Decided(serial[k])' <=> Decided(serial[i])
            /\ Pending(serial[k])' => Pending(serial[i])
    BY <1>3, <1>7, <1>13, EntriesStep
  <2>2. f \in [DOMAIN f -> DOMAIN serial']
    BY <1>7, <1>12, <1>13
  <2>3. \A i, j \in DOMAIN f : i < j => f[i] < f[j]
    BY <1>13
  <2> QED BY <1>7, <1>11, <1>13, <1>14, <2>1, <2>2, <2>3 DEF Moves
<1>16. Only(t, f, n + 1)
  BY <1>7, <1>10, <1>13, <1>14 DEF Only
<1>17. \A m \in 0 .. n : Below(f, m, m) /\ Known(f, m)
  BY <1>5, <1>7, <1>8, <1>13, <1>14 DEF Below, Known
<1>18. \A u \in Threads : Below(f, born[u], born'[u]) /\ Known(f, born'[u])
  <2> SUFFICES ASSUME NEW u \in Threads
               PROVE  Below(f, born[u], born'[u]) /\ Known(f, born'[u])
    OBVIOUS
  <2>1. born[u] \in 0 .. n /\ born'[u] = born[u]
    BY <1>1, <1>5, <1>6, <1>8 DEF Types
  <2> QED BY <1>17, <2>1
<1>19. ASSUME NEW r \in e.reads
       PROVE  r[2] = snapshot[t][r[1]] /\ (r[1] \notin read_set[t] => r[1] \in Held(t))
  <2>1. CASE r \in seen[t] /\ r[1] \in read_set[t] \cup write_set[t]
    BY <1>2, <2>1 DEF Inv, Opacity, Held
  <2>2. CASE r \in {<<v, displaced[t][v]>> : v \in write_set[t] \ AtomicVars}
    <3>1. PICK v \in write_set[t] \ AtomicVars : r = <<v, displaced[t][v]>>
      BY <2>2
    <3>2. v \in Held(t)
      BY <1>2, <3>1 DEF Held
    <3>3. v \in Vars /\ Settled(v, version_[t])
      BY <1>2, <3>2, HeldSettled
    <3>4. Consistent(t)
      BY <1>3 DEF Inv, VersionsTellContents
    <3> QED BY <3>1, <3>2, <3>3, <3>4 DEF Consistent
  <2> QED BY <1>4, <2>1, <2>2 DEF Entry
<1>20. ASSUME NEW r \in e.reads, r[1] \notin todo'[t]
       PROVE  ReadsFrom((n + 1) - 1, r)'
  <2>1. r[1] \in Held(t) /\ r[2] = snapshot[t][r[1]]
    BY <1>2, <1>19, <1>20
  <2>2. ReadsFrom(n, r)
    BY <1>2, <1>5, <2>1, HeldReads
  <2>3. r[1] \in Vars
    BY <1>6, <1>20 DEF Records
  <2>4. n \in 0 .. n /\ (n + 1) - 1 = n
    BY <1>8
  <2>5. ReadsFrom(n, r)'
    BY <1>1, <1>9, <1>15, <1>17, <2>2, <2>3, <2>4, ReadsKept
  <2> QED BY <2>4, <2>5
<1>21. \A k \in DOMAIN serial' :
           \/ \E i \in DOMAIN f : f[i] = k
           \/ \A r \in serial'[k].reads :
                  Decided(serial[k])' \/ r[1] \notin todo'[t] => ReadsFrom(k - 1, r)'
  BY <1>7, <1>11, <1>14, <1>20
<1>22. Place(t)'
  <2>1. Fresh(t)' = Fresh(t)
    BY <1>2 DEF Fresh
  <2>2. n + 1 \in DOMAIN serial' /\ serial'[n + 1].tx = Fresh(t)'
    BY <1>7, <1>10, <2>1
  <2>3. ASSUME NEW k \in DOMAIN serial', serial'[k].tx = Fresh(t)'
        PROVE  k = n + 1
    BY <1>7, <1>10, <2>1, <2>3
  <2>4. born'[t] < n + 1
    BY <1>1, <1>5, <1>6, <1>8 DEF Types
  <2> QED BY <1>2, <1>7, <1>10, <1>19, <2>2, <2>3, <2>4 DEF Place
<1>23. Seen(t)'
  BY <1>9, <1>15, <1>18, SeenKept
<1>24. Snapped(t)'
  BY <1>3, <1>9, <1>15, <1>18, SnappedKept
<1> QED BY <1>3, <1>9, <1>15, <1>16, <1>18, <1>21, <1>22, <1>23, <1>24, Kept

LEMMA RemoveKeeps ==
    ASSUME Inv, Inv', SerialInv, NEW t \in Threads, Step(t), GivesUp(t),
           NEW k \in DOMAIN serial, Removes(t, k)
    PROVE  SerialInv'
<1>1. Types /\ TypeOK /\ Order
  BY DEF Inv, SerialInv
<1>2. pc[t] = "unlock" /\ pc'[t] = "top" /\ done' = done /\ seen'[t] = {} /\ ~AllValid(t)
  BY DEF GivesUp, AllValid, NextLoop
<1>3. PICK n : n = Len(serial)
  OBVIOUS
<1>4. n \in Nat /\ DOMAIN serial = 1 .. n /\ k \in 1 .. n /\ serial \in Seq(Records)
  BY <1>1, <1>3, Domains DEF Types
<1>5. /\ serial[k].tx = Fresh(t)
      /\ born' = [u \in Threads |-> IF born[u] >= k THEN born[u] - 1 ELSE born[u]]
      /\ serial' = RemoveAt(serial, k)
  BY DEF Removes
<1>6. /\ serial' \in Seq(Records) /\ Len(serial') = n - 1
      /\ \A i \in 1 .. (n - 1) : serial'[i] = IF i < k THEN serial[i] ELSE serial[i + 1]
  BY <1>3, <1>4, <1>5, RemoveIs
<1>7. DOMAIN serial' = 1 .. (n - 1)
  BY <1>6
<1>8. \A u \in Threads : born[u] \in 0 .. n
  BY <1>1, <1>3, <1>4 DEF Types
<1>9. Types'
  <2>1. \A u \in Threads : born'[u] \in Nat /\ born'[u] <= n - 1
    BY <1>4, <1>5, <1>8
  <2> QED BY <1>5, <1>6, <2>1 DEF Types
<1>10. PICK f : f = [i \in 1 .. n \ {k} |-> IF i < k THEN i ELSE i - 1]
  OBVIOUS
<1>11. DOMAIN f = 1 .. n \ {k} /\ \A i \in 1 .. n \ {k} : f[i] = IF i < k THEN i ELSE i - 1
  BY <1>10
<1>12. \A i \in DOMAIN f : f[i] \in DOMAIN serial' /\ serial'[f[i]] = serial[i]
  <2> SUFFICES ASSUME NEW i \in DOMAIN f
               PROVE  f[i] \in DOMAIN serial' /\ serial'[f[i]] = serial[i]
    OBVIOUS
  <2>1. i \in 1 .. n /\ i # k
    BY <1>11
  <2>2. CASE i < k
    BY <1>4, <1>6, <1>7, <1>11, <2>1, <2>2
  <2>3. CASE i > k
    <3>1. f[i] = i - 1 /\ i - 1 \in 1 .. (n - 1) /\ ~(i - 1 < k) /\ (i - 1) + 1 = i
      BY <1>4, <1>11, <2>1, <2>3
    <3> QED BY <1>6, <1>7, <3>1
  <2> QED BY <1>4, <2>1, <2>2, <2>3
<1>13. \A j \in DOMAIN serial' : \E i \in DOMAIN f : f[i] = j
  <2> SUFFICES ASSUME NEW j \in 1 .. (n - 1)
               PROVE  \E i \in DOMAIN f : f[i] = j
    BY <1>7
  <2>1. CASE j < k
    <3>1. j \in DOMAIN f /\ f[j] = j
      BY <1>4, <1>11, <2>1
    <3> QED BY <3>1
  <2>2. CASE ~(j < k)
    <3>1. j + 1 \in DOMAIN f /\ f[j + 1] = j
      BY <1>4, <1>11, <2>2
    <3> QED BY <3>1
  <2> QED BY <2>1, <2>2
<1>14. Moves(f)
  <2>1. \A i \in DOMAIN f, j \in DOMAIN serial' : f[i] = j =>
            /\ serial'[j] = serial[i]
            /\ Decided(serial[j])' <=> Decided(serial[i])
            /\ Pending(serial[j])' => Pending(serial[i])
    BY <1>2, <1>4, <1>11, <1>12, EntriesStep
  <2>2. f \in [DOMAIN f -> DOMAIN serial']
    BY <1>10, <1>11, <1>12
  <2>3. \A i, j \in DOMAIN f : i < j => f[i] < f[j]
    BY <1>4, <1>11
  <2>4. ~Decided(serial[k])
    BY <1>1, <1>2, <1>5 DEF Decided, Fresh, TypeOK
  <2>5. DOMAIN f \subseteq DOMAIN serial
    BY <1>4, <1>11
  <2>6. \A i \in DOMAIN serial : i \in DOMAIN f \/ ~Decided(serial[i])
    BY <1>4, <1>11, <2>4
  <2> QED BY <1>13, <2>1, <2>2, <2>3, <2>5, <2>6 DEF Moves
<1>15. Only(t, f, 0)
  BY <1>4, <1>5, <1>11, <1>13 DEF Only
<1>16. ASSUME NEW u \in Threads
       PROVE  Below(f, born[u], born'[u]) /\ Known(f, born'[u])
  <2>1. Known(f, born'[u])
    BY <1>13 DEF Known
  <2>2. born[u] \in 0 .. n /\ born'[u] = IF born[u] >= k THEN born[u] - 1 ELSE born[u]
    BY <1>5, <1>8
  <2>3. born'[u] \in 0 .. (n - 1)
    BY <1>4, <2>2
  <2>4. \A i \in DOMAIN f : i <= born[u] <=> f[i] <= born'[u]
    BY <1>4, <1>11, <2>2
  <2> QED BY <1>3, <1>6, <2>1, <2>2, <2>3, <2>4 DEF Below
<1>17. Place(t)'
  <2>1. Fresh(t)' = Fresh(t)
    BY <1>2 DEF Fresh
  <2>2. ASSUME NEW j \in DOMAIN serial', serial'[j].tx = Fresh(t)'
        PROVE  FALSE
    <3>1. PICK i \in DOMAIN f : f[i] = j
      BY <1>13
    <3>2. serial[i].tx = Fresh(t) /\ i \in DOMAIN serial /\ i # k
      BY <1>4, <1>11, <1>12, <2>1, <2>2, <3>1
    <3> QED BY <1>1, <1>5, <3>2 DEF Order
  <2> QED BY <1>2, <2>2 DEF Place
<1>18. Seen(t)' /\ (t \in Attempting' => Snapped(t)')
  BY <1>2 DEF Seen, Attempting
<1> QED BY <1>2, <1>9, <1>13, <1>14, <1>15, <1>16, <1>17, <1>18, Kept

LEMMA InsertKeeps ==
    ASSUME Inv, Inv', SerialInv, NEW t \in Threads, Step(t), Ends(t), Inserts(t)
    PROVE  SerialInv'
<1>1. Types /\ TypeOK /\ Order /\ Place(t)
  BY DEF Inv, SerialInv
<1>2. /\ pc[t] = "run" /\ pc'[t] = "idle" /\ done'[t] = done[t] + 1 /\ seen'[t] = {}
      /\ ~AllValid(t)
  BY <1>1 DEF Ends, AllValid, NextLoop, TypeOK
<1>3. PICK n : n = Len(serial)
  OBVIOUS
<1>4. PICK e : e = Observer(t)
  OBVIOUS
<1>5. PICK b : b = born[t]
  OBVIOUS
<1>6. n \in Nat /\ DOMAIN serial = 1 .. n /\ serial \in Seq(Records) /\ b \in 0 .. n
  BY <1>1, <1>3, <1>5, Domains DEF Types
<1>7. /\ e \in Records /\ e.tx = Fresh(t) /\ e.writes = {} /\ e.reads = seen[t]
      /\ \A i \in DOMAIN serial : serial[i].tx # Fresh(t)
  BY <1>1, <1>2, <1>4, EntryTypes DEF Observer, Place
<1>8. /\ serial' = InsertAt(serial, b + 1, e)
      /\ born' = [u \in Threads |-> IF born[u] > b THEN born[u] + 1 ELSE born[u]]
  BY <1>4, <1>5 DEF Inserts
<1>9. /\ serial' \in Seq(Records) /\ Len(serial') = n + 1
      /\ \A i \in 1 .. b : serial'[i] = serial[i]
      /\ serial'[b + 1] = e
      /\ \A i \in (b + 1) .. n : serial'[i + 1] = serial[i]
  <2>1. b \in 0 .. Len(serial) /\ serial \in Seq(Records) /\ e \in Records
    BY <1>3, <1>6, <1>7
  <2>2. PICK q : q = InsertAt(serial, b + 1, e)
    OBVIOUS
  <2>3. /\ q \in Seq(Records) /\ Len(q) = Len(serial) + 1
        /\ \A i \in 1 .. b : q[i] = serial[i]
        /\ q[b + 1] = e
        /\ \A i \in (b + 1) .. Len(serial) : q[i + 1] = serial[i]
    BY <2>1, <2>2, InsertIs
  <2>4. serial' = q
    BY <1>8, <2>2
  <2> QED BY <1>3, <2>3, <2>4
<1>10. DOMAIN serial' = 1 .. (n + 1)
  BY <1>9
<1>11. \A u \in Threads : born[u] \in 0 .. n
  BY <1>1, <1>3, <1>6 DEF Types
<1>12. Types'
  <2>1. \A u \in Threads : born'[u] \in Nat /\ born'[u] <= n + 1
    BY <1>6, <1>8, <1>11
  <2> QED BY <1>8, <1>9, <2>1 DEF Types
<1>13. PICK f : f = [i \in 1 .. n |-> IF i <= b THEN i ELSE i + 1]
  OBVIOUS
<1>14. DOMAIN f = 1 .. n /\ \A i \in 1 .. n : f[i] = IF i <= b THEN i ELSE i + 1
  BY <1>13
<1>15. \A i \in DOMAIN f : f[i] \in DOMAIN serial' /\ serial'[f[i]] = serial[i]
  <2> SUFFICES ASSUME NEW i \in 1 .. n
               PROVE  f[i] \in DOMAIN serial' /\ serial'[f[i]] = serial[i]
    BY <1>14
  <2>1. CASE i <= b
    BY <1>6, <1>9, <1>10, <1>14, <2>1
  <2>2. CASE ~(i <= b)
    <3>1. f[i] = i + 1 /\ i + 1 \in 1 .. (n + 1) /\ i \in (b + 1) .. n
      BY <1>6, <1>14, <2>2
    <3> QED BY <1>9, <1>10, <3>1
  <2> QED BY <2>1, <2>2
<1>16. \A j \in DOMAIN serial' : (\E i \in DOMAIN f : f[i] = j) \/ j = b + 1
  <2> SUFFICES ASSUME NEW j \in 1 .. (n + 1), j # b + 1
               PROVE  \E i \in DOMAIN f : f[i] = j
    BY <1>10
  <2>1. CASE j <= b
    <3>1. j \in DOMAIN f /\ f[j] = j
      BY <1>6, <1>14, <2>1
    <3> QED BY <3>1
  <2>2. CASE ~(j <= b)
    <3>1. j - 1 \in DOMAIN f /\ f[j - 1] = j
      BY <1>6, <1>14, <2>2
    <3> QED BY <3>1
  <2> QED BY <2>1, <2>2
<1>17. ~Pending(serial[b + 1])'
  BY <1>1, <1>2, <1>7, <1>9 DEF Pending, Fresh, TypeOK
<1>18. Moves(f)
  <2>1. \A i \in DOMAIN f, j \in DOMAIN serial' : f[i] = j =>
            /\ serial'[j] = serial[i]
            /\ Decided(serial[j])' <=> Decided(serial[i])
            /\ Pending(serial[j])' => Pending(serial[i])
    BY <1>2, <1>6, <1>14, <1>15, EntriesStep
  <2>2. f \in [DOMAIN f -> DOMAIN serial']
    BY <1>13, <1>14, <1>15
  <2>3. \A i, j \in DOMAIN f : i < j => f[i] < f[j]
    BY <1>6, <1>14
  <2>4. DOMAIN f = DOMAIN serial
    BY <1>6, <1>14
  <2> QED BY <1>7, <1>9, <1>16, <1>17, <2>1, <2>2, <2>3, <2>4 DEF Moves
<1>19. Only(t, f, b + 1)
  <2>1. b + 1 \in DOMAIN serial'
    BY <1>6, <1>10
  <2> QED BY <1>6, <1>7, <1>9, <1>14, <1>16 DEF Only
<1>20. \A m \in 0 .. (n + 1) : Known(f, m)
  BY <1>16, <1>17 DEF Known
<1>21. ASSUME NEW u \in Threads
       PROVE  Below(f, born[u], born'[u]) /\ Known(f, born'[u])
  <2>1. born[u] \in 0 .. n /\ born'[u] = IF born[u] > b THEN born[u] + 1 ELSE born[u]
    BY <1>8, <1>11
  <2>2. born'[u] \in 0 .. (n + 1)
    BY <1>6, <2>1
  <2>3. \A i \in DOMAIN f : i <= born[u] <=> f[i] <= born'[u]
    BY <1>6, <1>14, <2>1
  <2> QED BY <1>3, <1>9, <1>20, <2>1, <2>2, <2>3 DEF Below
<1>22. ASSUME NEW r \in seen[t]
       PROVE  ReadsFrom((b + 1) - 1, r)'
  <2>1. ReadsFrom(b, r) /\ r[1] \in Vars
    BY <1>1, <1>5 DEF SerialInv, Seen, TypeOK
  <2>2. b \in 0 .. (n + 1) /\ (b + 1) - 1 = b
    BY <1>6
  <2>3. \A i \in DOMAIN f : i <= b <=> f[i] <= b
    BY <1>6, <1>14
  <2>4. Below(f, b, b)
    BY <1>3, <1>6, <1>9, <2>2, <2>3 DEF Below
  <2>5. Known(f, b)
    BY <1>20, <2>2
  <2>6. ReadsFrom(b, r)'
    BY <1>1, <1>12, <1>18, <2>1, <2>4, <2>5, ReadsKept
  <2> QED BY <2>2, <2>6
<1>23. \A k \in DOMAIN serial' :
           \/ \E i \in DOMAIN f : f[i] = k
           \/ \A r \in serial'[k].reads :
                  Decided(serial[k])' \/ r[1] \notin todo'[t] => ReadsFrom(k - 1, r)'
  BY <1>7, <1>9, <1>16, <1>22
<1>24. Place(t)'
  <2>1. ASSUME NEW j \in DOMAIN serial', serial'[j].tx = Fresh(t)'
        PROVE  FALSE
    <3>1. CASE \E i \in DOMAIN f : f[i] = j
      <4>1. PICK i \in DOMAIN f : f[i] = j
        BY <3>1
      <4>2. i \in DOMAIN serial /\ serial'[j] = serial[i]
        BY <1>6, <1>14, <1>15, <4>1
      <4> QED BY <1>1, <1>2, <2>1, <4>2, NoPlaceNext
    <3>2. CASE j = b + 1
      BY <1>1, <1>2, <1>7, <1>9, <2>1, <3>2 DEF Fresh, TypeOK
    <3> QED BY <1>16, <3>1, <3>2
  <2> QED BY <1>2, <2>1 DEF Place
<1>25. Seen(t)' /\ (t \in Attempting' => Snapped(t)')
  BY <1>2 DEF Seen, Attempting
<1> QED BY <1>2, <1>12, <1>18, <1>19, <1>21, <1>23, <1>24, <1>25, Kept

(* The commit of t is decided: of the entries, its own alone changes.      *)
LEMMA DecideEntries ==
    ASSUME Inv, SerialInv, NEW t \in Threads, Step(t), AllValid(t), serial' = serial,
           NEW p \in DOMAIN serial, serial[p].tx = Fresh(t), NEW i \in DOMAIN serial
    PROVE  /\ i # p => /\ Decided(serial[i])' <=> Decided(serial[i])
                       /\ Pending(serial[i])' => Pending(serial[i])
           /\ i = p => Pending(serial[i]) /\ Decided(serial[i])' /\ ~Pending(serial[i])'
<1>1. Types /\ TypeOK /\ Order
  BY DEF Inv, SerialInv
<1>2. pc[t] = "validate"
  BY DEF AllValid, NextLoop
<1>3. PICK e : e = serial[i]
  OBVIOUS
<1>4. e \in Records /\ e.tx[1] \in Threads /\ e.tx[2] <= done[e.tx[1]]
  BY <1>1, <1>3, Domains DEF Order
<1>5. e.tx = Fresh(t) => pc[t] \in Committing
  BY <1>2 DEF Committing
<1>6. i = p <=> e.tx = Fresh(t)
  BY <1>1, <1>3 DEF Order
<1>7. /\ e.tx # Fresh(t) =>
             /\ Decided(e)' <=> Decided(e)
             /\ Pending(e)' => Pending(e)
      /\ e.tx = Fresh(t) => Pending(e) /\ Decided(e)' /\ ~Pending(e)'
  BY <1>1, <1>4, <1>5, EntryStep
<1>8. serial'[i] = e
  BY <1>3
<1> QED BY <1>3, <1>6, <1>7, <1>8 DEF Decided, Pending

(* The commit that is decided: what it replaces, nobody that is in the     *)
(* order behind it has read.                                               *)
LEMMA DecideReads ==
    ASSUME Inv, SerialInv, Types', NEW t \in Threads, Step(t), AllValid(t), serial' = serial,
           NEW p \in DOMAIN serial, serial[p].tx = Fresh(t), NEW n \in 0 .. Len(serial)
    PROVE  /\ \A v \in Vars : v \notin write_set[t] \/ n < p => After(n)'[v] = After(n)[v]
           /\ \A r : r[1] \in Vars /\ ReadsFrom(n, r) => ReadsFrom(n, r)'
<1>1. Types /\ TypeOK /\ Order /\ Place(t)
  BY DEF Inv, SerialInv
<1>2. DOMAIN serial = 1 .. Len(serial) /\ Len(serial) \in Nat /\ DOMAIN serial' = DOMAIN serial
      /\ Len(serial') = Len(serial)
  BY <1>1, Domains
<1>3. pc[t] = "validate" /\ serial[p].writes = write_set[t]
  BY <1>1 DEF AllValid, NextLoop, Place
<1>4. ASSUME NEW i \in DOMAIN serial
      PROVE  /\ i # p => /\ Decided(serial[i])' <=> Decided(serial[i])
                         /\ Pending(serial[i])' => Pending(serial[i])
             /\ i = p => Pending(serial[i]) /\ ~Pending(serial[i])'
  BY DecideEntries
<1>5. ASSUME NEW v \in Vars, v \notin write_set[t] \/ n < p
      PROVE  After(n)'[v] = After(n)[v]
  <2>1. PICK S : S = 1 .. n
    OBVIOUS
  <2>2. PICK f : f = [i \in S |-> i]
    OBVIOUS
  <2>3. S \in SUBSET (1 .. n) /\ f \in [S -> 1 .. n] /\ \A i \in S : f[i] = i
    BY <2>1, <2>2
  <2>4. \A i, j \in S : i < j => f[i] < f[j]
    BY <2>3
  <2>5. \A i \in S : Wrote(i, v)' <=> Wrote(i, v)
    <3> SUFFICES ASSUME NEW i \in S
                 PROVE  Wrote(i, v)' <=> Wrote(i, v)
      OBVIOUS
    <3>1. i \in DOMAIN serial /\ i <= n
      BY <1>2, <2>1
    <3>2. CASE i = p
      BY <1>3, <1>5, <3>1, <3>2 DEF Wrote
    <3>3. CASE i # p
      BY <1>4, <3>1, <3>3 DEF Wrote
    <3> QED BY <3>2, <3>3
  <2>6. \A i \in S : serial'[f[i]].tx = serial[i].tx /\ (Wrote(f[i], v)' <=> Wrote(i, v))
    BY <2>3, <2>5 DEF Wrote
  <2>7. \A i \in 1 .. n : Wrote(i, v) => i \in S
    BY <2>1
  <2>8. \A k \in 1 .. n : Wrote(k, v)' => \E i \in S : f[i] = k
    BY <2>1, <2>3
  <2>9. n \in 0 .. Len(serial')
    BY <1>2
  <2> QED BY <1>1, <2>3, <2>4, <2>6, <2>7, <2>8, <2>9, AfterMoved
<1>6. ASSUME NEW r, r[1] \in Vars, ReadsFrom(n, r)
      PROVE  ReadsFrom(n, r)'
  <2>1. p <= n => r[1] \notin write_set[t]
    BY <1>3, <1>4, <1>6 DEF ReadsFrom
  <2>2. n \in Nat /\ p \in Nat
    BY <1>2
  <2>3. After(n)'[r[1]] = After(n)[r[1]]
    BY <1>5, <1>6, <2>1, <2>2
  <2>4. \A j \in DOMAIN serial' : Pending(serial[j])' => Pending(serial[j])
    BY <1>4
  <2> QED BY <1>2, <1>6, <2>3, <2>4 DEF ReadsFrom
<1> QED BY <1>5, <1>6

LEMMA DecideKeeps ==
    ASSUME Inv, Inv', SerialInv, NEW t \in Threads, Step(t), AllValid(t), UNCHANGED <<serial, born>>
    PROVE  SerialInv'
<1>1. /\ Types /\ TypeOK /\ Order /\ Serialized /\ Memory = After(Len(serial))
      /\ \A u \in Threads : Place(u) /\ Validated(u) /\ Seen(u)
      /\ \A u \in Attempting : Snapped(u)
  BY DEF Inv, SerialInv
<1>2. /\ pc[t] = "validate" /\ todo[t] = {} /\ pc'[t] = "write"
      /\ UNCHANGED <<done, write_set, snapshot, seen, version_>>
      /\ \A u \in Threads : u # t => pc'[u] = pc[u] /\ todo'[u] = todo[u]
  BY <1>1 DEF AllValid, NextLoop, Goto, Commit, sets, history, TypeOK
<1>3. PICK p \in DOMAIN serial : serial[p].tx = Fresh(t)
  BY <1>1, <1>2 DEF Place
<1>4. /\ DOMAIN serial = 1 .. Len(serial) /\ Len(serial) \in Nat
      /\ \A i \in DOMAIN serial : serial[i] \in Records
  BY <1>1, Domains
<1>5. serial' = serial /\ born' = born
  OBVIOUS
<1>6. Types'
  BY <1>1, <1>5 DEF Types
<1>7. \A n \in 0 .. Len(serial) :
          /\ \A v \in Vars : v \notin write_set[t] \/ n < p => After(n)'[v] = After(n)[v]
          /\ \A r : r[1] \in Vars /\ ReadsFrom(n, r) => ReadsFrom(n, r)'
  BY <1>3, <1>5, <1>6, DecideReads
<1>8. \A i \in DOMAIN serial :
          /\ i # p => (Decided(serial[i])' <=> Decided(serial[i]))
          /\ i = p => Decided(serial[i])'
  BY <1>3, <1>5, DecideEntries
<1>9. /\ \A i \in DOMAIN serial : i - 1 \in 0 .. Len(serial)
      /\ \A i \in DOMAIN serial : \A r \in serial[i].reads : r[1] \in Vars
      /\ \A u \in Threads : born[u] \in 0 .. Len(serial)
  <2>1. \A i \in DOMAIN serial : i - 1 \in 0 .. Len(serial)
    BY <1>4
  <2>2. \A i \in DOMAIN serial : \A r \in serial[i].reads : r[1] \in Vars
    BY <1>4 DEF Records
  <2>3. \A u \in Threads : born[u] \in 0 .. Len(serial)
    BY <1>1, <1>4 DEF Types
  <2> QED BY <2>1, <2>2, <2>3
<1>10. Order'
  BY <1>1, <1>2, <1>5 DEF Order
<1>11. Serialized'
  <2> SUFFICES ASSUME NEW i \in DOMAIN serial, Decided(serial[i])', NEW r \in serial[i].reads
               PROVE  ReadsFrom(i - 1, r)'
    BY <1>5 DEF Serialized
  <2>1. ReadsFrom(i - 1, r)
    <3>1. CASE i = p
      BY <1>1, <1>2, <1>3, <3>1 DEF Validated
    <3>2. CASE i # p
      BY <1>1, <1>8, <3>2 DEF Serialized
    <3> QED BY <3>1, <3>2
  <2> QED BY <1>7, <1>9, <2>1
<1>12. ASSUME NEW u \in Threads
       PROVE  Place(u)'
  BY <1>1, <1>2, <1>5 DEF Place, Fresh
<1>13. ASSUME NEW u \in Threads
       PROVE  Validated(u)'
  <2> SUFFICES ASSUME NEW i \in DOMAIN serial, serial[i].tx = Fresh(u)', pc'[u] = "validate",
                      NEW r \in serial[i].reads, r[1] \notin todo'[u]
               PROVE  ReadsFrom(i - 1, r)'
    BY <1>5 DEF Validated
  <2>1. u # t
    BY <1>2
  <2>2. serial[i].tx = Fresh(u) /\ pc[u] = "validate" /\ r[1] \notin todo[u]
    BY <1>2, <2>1 DEF Fresh
  <2>3. ReadsFrom(i - 1, r)
    BY <1>1, <2>2 DEF Validated
  <2> QED BY <1>7, <1>9, <2>3
<1>14. ASSUME NEW u \in Threads
       PROVE  Seen(u)'
  <2> SUFFICES ASSUME NEW r \in seen[u]
               PROVE  ReadsFrom(born[u], r)'
    BY <1>2, <1>5 DEF Seen
  <2>1. PICK n : n = born[u]
    OBVIOUS
  <2>2. ReadsFrom(n, r) /\ r[1] \in Vars /\ n \in 0 .. Len(serial)
    BY <1>1, <1>9, <2>1 DEF Seen, TypeOK
  <2>3. ReadsFrom(n, r)'
    BY <1>7, <2>2
  <2> QED BY <1>5, <2>1, <2>3 DEF ReadsFrom, After
<1>15. /\ TypeOK /\ (\A u \in Threads : Progress(u)) /\ LockOwnership /\ Versions
       /\ \A v \in write_set[t] : v \in Vars /\ Settled(v, version_[t])
  <2>1. \A v \in write_set[t] : v \in Held(t)
    BY <1>2 DEF Held
  <2>2. \A v \in write_set[t] : v \in Vars /\ Settled(v, version_[t])
    BY <1>2, <2>1, HeldSettled
  <2> QED BY <2>2 DEF Inv, VersionsTellContents
<1>16. ASSUME NEW u \in Attempting'
       PROVE  Snapped(u)'
  <2> SUFFICES ASSUME NEW v \in Vars, Settled(v, version_[u])'
               PROVE  /\ snapshot'[u][v] = After(born[u])'[v]
                      /\ \A j \in DOMAIN serial' : born'[u] < j /\ Decided(serial[j])' =>
                             v \notin serial'[j].writes
    BY DEF Snapped
  <2>1. u \in Threads /\ u \in Attempting
    BY <1>2, <1>16 DEF Attempting
  <2>2. v \notin write_set[t]
    BY <1>2 DEF Settled
  <2>3. Settled(v, version_[u])
    <3>1. version_'[u] <= clock
      BY <1>2, <1>15, <2>1 DEF Versions
    <3>2. Settled(v, version_'[u])
      BY <1>15, <2>1, <3>1, SettledBefore
    <3> QED BY <1>2, <3>2
  <2>4. PICK n : n = born[u]
    OBVIOUS
  <2>5. /\ snapshot[u][v] = After(n)[v] /\ n \in 0 .. Len(serial)
        /\ \A j \in DOMAIN serial : n < j /\ Decided(serial[j]) => v \notin serial[j].writes
    BY <1>1, <1>9, <2>1, <2>3, <2>4 DEF Snapped
  <2>6. snapshot'[u][v] = After(born[u])'[v]
    <3>1. After(n)'[v] = After(n)[v]
      BY <1>7, <2>2, <2>5
    <3>2. After(born[u])' = After(n)'
      BY <1>5, <2>4 DEF After
    <3> QED BY <1>2, <2>5, <3>1, <3>2
  <2>7. \A j \in DOMAIN serial' : born'[u] < j /\ Decided(serial[j])' => v \notin serial'[j].writes
    <3>1. serial[p].writes = write_set[t]
      BY <1>1, <1>3 DEF Place
    <3> QED BY <1>5, <1>8, <2>2, <2>4, <2>5, <3>1
  <2> QED BY <2>6, <2>7
<1>17. (Memory = After(Len(serial)))'
  <2>1. PICK n : n = Len(serial)
    OBVIOUS
  <2>2. n \in 0 .. Len(serial) /\ p \in 1 .. n
    BY <1>3, <1>4, <2>1
  <2>3. ASSUME NEW v \in Vars
        PROVE  Memory'[v] = After(n)'[v]
    <3>1. CASE v \notin write_set[t]
      <4>1. After(n)'[v] = After(n)[v]
        BY <1>7, <2>2, <3>1
      <4> QED BY <1>1, <2>1, <3>1, <4>1, MemoryStep
    <3>2. CASE v \in write_set[t]
      <4>1. Memory'[v] = Fresh(t)
        BY <3>2, MemoryStep
      <4>2. Wrote(p, v)' /\ serial'[p].tx = Fresh(t)
        BY <1>1, <1>3, <1>5, <1>8, <3>2 DEF Wrote, Place
      <4>3. ASSUME NEW j \in 1 .. n, Wrote(j, v)'
            PROVE  j <= p
        <5> SUFFICES ASSUME ~(j <= p)
                     PROVE  FALSE
          OBVIOUS
        <5>1. j \in DOMAIN serial /\ j # p /\ p < j
          BY <1>4, <2>1, <2>2
        <5>2. Decided(serial[j]) /\ v \in serial[j].writes
          BY <1>5, <1>8, <4>3, <5>1 DEF Wrote
        <5>3. t \in Attempting /\ Settled(v, version_[t])
          BY <1>2, <1>15, <3>2 DEF Attempting
        <5>4. born[t] < p /\ born[t] \in Nat
          BY <1>1, <1>3 DEF Place, Types
        <5>5. born[t] < j
          BY <1>4, <5>1, <5>4
        <5> QED BY <1>1, <5>1, <5>2, <5>3, <5>5 DEF Snapped
      <4>4. After(n)'[v] = serial'[p].tx
        <5>1. AfterMeans'
          BY <1>6, AfterIs, PTL
        <5>2. n \in 0 .. Len(serial')
          BY <1>5, <2>2
        <5> QED BY <2>2, <4>2, <4>3, <5>1, <5>2 DEF AfterMeans
      <4> QED BY <4>1, <4>2, <4>4
    <3> QED BY <3>1, <3>2
  <2>4. Memory' = After(n)'
    BY <2>3 DEF Memory, After
  <2>5. n = Len(serial')
    BY <1>5, <2>1
  <2> QED BY <2>4, <2>5 DEF After
<1> QED BY <1>6, <1>10, <1>11, <1>12, <1>13, <1>14, <1>16, <1>17 DEF SerialInv
-----------------------------------------------------------------------------
LEMMA SerialInvInit == HistInit => SerialInv
<1> SUFFICES ASSUME HistInit
             PROVE  SerialInv
  OBVIOUS
<1>1. serial = <<>> /\ born = [t \in Threads |-> 0] /\ Init
  BY DEF HistInit
<1>2. Len(serial) = 0 /\ DOMAIN serial = {} /\ serial \in Seq(Records)
  BY <1>1
<1>3. Types
  BY <1>1, <1>2 DEF Types
<1>4. Order /\ Serialized
  BY <1>2 DEF Order, Serialized
<1>5. ASSUME NEW t \in Threads
      PROVE  Place(t) /\ Validated(t) /\ Seen(t) /\ t \notin Attempting
  <2>1. pc[t] = "idle" /\ seen[t] = {}
    BY <1>1 DEF Init
  <2> QED BY <1>2, <2>1 DEF Place, Validated, Seen, Attempting
<1>6. Memory = After(0)
  <2>1. \A v \in Vars : Memory[v] = Initial
    BY <1>1 DEF Init, Memory
  <2>2. \A v \in Vars : After(0)[v] = Initial
    BY <1>2 DEF After
  <2> QED BY <2>1, <2>2 DEF Memory, After
<1> QED BY <1>2, <1>3, <1>4, <1>5, <1>6 DEF SerialInv, Attempting

LEMMA SerialInvStep == Inv /\ Inv' /\ SerialInv /\ [Next /\ Record]_histVars => SerialInv'
<1> SUFFICES ASSUME Inv, Inv', SerialInv, [Next /\ Record]_histVars
             PROVE  SerialInv'
  OBVIOUS
<1>1. TypeOK
  BY DEF Inv
<1>2. CASE UNCHANGED histVars
  <2>1. /\ UNCHANGED <<serial, born, clock, version_lock, storage, pc, version_, write_set, todo,
                       sync_epoch, done, snapshot, seen>>
    BY <1>2 DEF histVars, vars, shared, sets, call, history
  <2>2. Types' /\ Order'
    BY <2>1 DEF SerialInv, Types, Order
  <2>3. ASSUME NEW t \in Threads
        PROVE  Place(t)'
    <3>1. Place(t)
      BY DEF SerialInv
    <3> QED BY <2>1, <3>1 DEF Place, Fresh
  <2>4. \A n : After(n)' = After(n)
    BY <2>1 DEF After, Decided
  <2>5. \A n, r : ReadsFrom(n, r)' <=> ReadsFrom(n, r)
    BY <2>1, <2>4 DEF ReadsFrom, Pending
  <2>6. Serialized' /\ \A t \in Threads : Validated(t)'
    BY <2>1, <2>5 DEF SerialInv, Serialized, Validated, Decided, Fresh
  <2>7. ASSUME NEW t \in Threads
        PROVE  Seen(t)'
    <3> SUFFICES ASSUME NEW r \in seen[t]
                 PROVE  ReadsFrom(born[t], r)'
      BY <2>1 DEF Seen
    <3>1. PICK n : n = born[t]
      OBVIOUS
    <3>2. ReadsFrom(n, r)
      BY <3>1 DEF SerialInv, Seen
    <3>3. ReadsFrom(n, r)' /\ born'[t] = n
      BY <2>1, <2>5, <3>1, <3>2
    <3> QED BY <3>3 DEF ReadsFrom, After
  <2>8. ASSUME NEW t \in Attempting'
        PROVE  Snapped(t)'
    <3>1. Snapped(t)
      BY <2>1, <2>8 DEF SerialInv, Attempting
    <3>2. \A v \in Vars : Settled(v, version_[t])' => Settled(v, version_[t])
      BY <2>1 DEF Settled
    <3>3. After(born[t])' = After(born[t])
      BY <2>1 DEF After, Decided
    <3>4. \A j \in DOMAIN serial : Decided(serial[j])' <=> Decided(serial[j])
      BY <2>1 DEF Decided
    <3> QED BY <2>1, <3>1, <3>2, <3>3, <3>4 DEF Snapped
  <2>9. (Memory = After(Len(serial)))'
    BY <2>1 DEF SerialInv, Memory, After, Decided, Fresh
  <2> QED BY <2>2, <2>6, <2>7, <2>8, <2>9, <2>3 DEF SerialInv
<1>3. ASSUME NEW t \in Threads, Step(t), Record
      PROVE  SerialInv'
  <2>1. CASE GetClock(t) /\ serial' = serial /\ born' = [born EXCEPT ![t] = Len(serial)]
    BY <1>3, <2>1, BeginKeeps
  <2>2. CASE AllLocked(t) /\ Appends(t)
    BY <1>3, <2>2, AppendKeeps
  <2>3. CASE GivesUp(t) /\ \E k \in DOMAIN serial : Removes(t, k)
    BY <1>3, <2>3, RemoveKeeps
  <2>4. CASE Ends(t) /\ Inserts(t)
    BY <1>3, <2>4, InsertKeeps
  <2>5. CASE AllValid(t) /\ UNCHANGED <<serial, born>>
    BY <1>3, <2>5, DecideKeeps
  <2>6. CASE /\ \/ Outside(t) \/ Validates(t) \/ GoesOn(t) \/ Completes(t)
                \/ GivesUp(t) /\ \A k \in DOMAIN serial : serial[k].tx # Fresh(t)
             /\ UNCHANGED <<serial, born>>
    BY <1>3, <2>6, StaysKeeps
  <2>7. \/ GetClock(t) /\ serial' = serial /\ born' = [born EXCEPT ![t] = Len(serial)]
        \/ AllLocked(t) /\ Appends(t)
        \/ GivesUp(t) /\ \E k \in DOMAIN serial : Removes(t, k)
        \/ Ends(t) /\ Inserts(t)
        \/ /\ GivesUp(t) /\ \A k \in DOMAIN serial : serial[k].tx # Fresh(t)
           /\ UNCHANGED <<serial, born>>
        \/ /\ AllValid(t) \/ Outside(t) \/ Validates(t) \/ GoesOn(t) \/ Completes(t)
           /\ UNCHANGED <<serial, born>>
    BY <1>1, <1>3, RecordStep
  <2> QED BY <2>1, <2>2, <2>3, <2>4, <2>5, <2>6, <2>7
<1>4. CASE Terminated /\ Record
  <2>1. UNCHANGED histVars
    BY <1>4 DEF Terminated, Record, Moved, vars, shared, histVars
  <2> QED BY <1>2, <2>1
<1> QED BY <1>2, <1>3, <1>4 DEF Next

(* The order of the transactions, what each of them has read, and where    *)
(* each commit and each attempt stands in it: inductive.                   *)
THEOREM SerialInvCorrect == HistSpec => [](Inv /\ SerialInv)
<1>1. HistInit => Inv /\ SerialInv
  BY InvInit, SerialInvInit DEF HistInit
<1>2. Inv /\ SerialInv /\ [Next /\ Record]_histVars => Inv' /\ SerialInv'
  <2> SUFFICES ASSUME Inv, SerialInv, [Next /\ Record]_histVars
               PROVE  Inv' /\ SerialInv'
    OBVIOUS
  <2>1. [Next]_vars
    BY DEF histVars
  <2>2. Inv'
    BY <2>1, InvStep
  <2> QED BY <2>2, SerialInvStep
<1> QED BY <1>1, <1>2, PTL DEF HistSpec

(* The commit algorithm is strictly serializable, for any number of        *)
(* threads, variables and transactions: try_commit's validation of the     *)
(* reads under the locks of the writes is enough for the transactions that *)
(* complete to have read, replaced and left what they would one after the  *)
(* other in an order that respects real time, and what an attempt reads    *)
(* that still runs, or gives up, is read from its place in that order.     *)
THEOREM SerializableCorrect == HistSpec => []StrictlySerializable
<1>1. SerialInv => StrictlySerializable
  <2> SUFFICES ASSUME SerialInv
               PROVE  StrictlySerializable
    OBVIOUS
  <2>1. \A i \in 1 .. Len(serial) : Decided(serial[i]) =>
            \A r \in serial[i].reads : r[2] = After(i - 1)[r[1]]
    BY Domains DEF SerialInv, Serialized, ReadsFrom
  <2>2. \A t \in Threads : \A r \in seen[t] : r[2] = After(born[t])[r[1]]
    BY DEF SerialInv, Seen, ReadsFrom
  <2> QED BY <2>1, <2>2 DEF SerialInv, StrictlySerializable
<1> QED BY <1>1, SerialInvCorrect, PTL
=============================================================================
