--------------------------- MODULE FastRwMutexProofs ---------------------------
(***************************************************************************)
(* Mutual exclusion of FastRwMutex, for any finite sets of threads.        *)
(***************************************************************************)
EXTENDS FastRwMutex, FiniteSetTheorems, TLAPS

Inv == TypeOK /\ WordTellsAll /\ Exclusion

LEMMA CountedIsFinite == IsFiniteSet(Counted) /\ Cardinality(Counted) \in Nat
<1>1. Counted \subseteq Threads
  BY DEF Counted
<1>2. IsFiniteSet(Counted)
  BY <1>1, FiniteThreads, FS_Subset
<1> QED BY <1>2, FS_CardinalityType

(* A count of zero: nobody is inside for reading. *)
LEMMA NobodyCounted ==
    ASSUME Cardinality(Counted) = 0
    PROVE  Counted = {}
<1> QED BY CountedIsFinite, FS_EmptySet

LEMMA InvInit == Init => Inv
<1> SUFFICES ASSUME Init PROVE Inv
  OBVIOUS
<1>1. Counted = {}
  BY DEF Init, Counted
<1>2. Cardinality(Counted) = 0
  BY <1>1, FS_EmptySet
<1> QED BY <1>2 DEF Init, Inv, TypeOK, Labels, WordTellsAll, Exclusion

(* How a step changes the set of readers the word counts. *)
LEMMA CountStep ==
    ASSUME TypeOK, WordTellsAll, NEW t \in Threads,
           \/ Counted' = Counted /\ read_count' = read_count
           \/ t \notin Counted /\ Counted' = Counted \cup {t} /\ read_count' = read_count + 1
           \/ t \in Counted /\ Counted' = Counted \ {t} /\ read_count' = read_count - 1
    PROVE  read_count' = Cardinality(Counted') /\ read_count' \in Nat
<1>1. IsFiniteSet(Counted) /\ read_count = Cardinality(Counted) /\ read_count \in Nat
  BY CountedIsFinite DEF WordTellsAll
<1>2. CASE Counted' = Counted /\ read_count' = read_count
  BY <1>1, <1>2
<1>3. CASE t \notin Counted /\ Counted' = Counted \cup {t} /\ read_count' = read_count + 1
  BY <1>1, <1>3, FS_AddElement
<1>4. CASE t \in Counted /\ Counted' = Counted \ {t} /\ read_count' = read_count - 1
  <2>1. Cardinality(Counted \ {t}) = Cardinality(Counted) - 1
    BY <1>1, <1>4, FS_RemoveElement
  <2>2. IsFiniteSet(Counted \ {t})
    BY <1>1, FS_RemoveElement
  <2> QED BY <1>1, <1>4, <2>1, <2>2, FS_CardinalityType
<1> QED BY <1>2, <1>3, <1>4

(* The step of one thread: what it counts, whether it owns the bit. *)
Owners == {t \in Threads : pc[t] \in {"wait", "writing"}}

StepEffect(t) ==
    /\ pc' \in [Threads -> Labels] /\ expected' \in [Threads -> Nat] /\ write_bit' \in BOOLEAN
    /\ \A u \in Threads \ {t} : pc'[u] = pc[u]
    /\ \/ Counted' = Counted /\ read_count' = read_count
       \/ t \notin Counted /\ Counted' = Counted \cup {t} /\ read_count' = read_count + 1
       \/ t \in Counted /\ Counted' = Counted \ {t} /\ read_count' = read_count - 1
    /\ \/ Owners' = Owners /\ write_bit' = write_bit
       \/ ~write_bit /\ Owners' = Owners \cup {t} /\ write_bit'
       \/ t \in Owners /\ Owners' = Owners \ {t} /\ ~write_bit'
    /\ pc'[t] = "writing" => read_count = 0
    /\ pc'[t] = "reading" => ~write_bit

LEMMA StepEffectLemma ==
    ASSUME TypeOK, NEW t \in Threads,
           \/ t \in Readers /\ LockShared(t)
           \/ t \in Writers /\ Lock(t)
           \/ Advance(t) \/ Decide(t) \/ CasFailsSpuriously(t)
    PROVE  StepEffect(t)
<1>1. CASE LockShared(t)
  BY <1>1 DEF LockShared, Goto, Forget, AsExpected, StepEffect, Counted, Owners, TypeOK, Labels
<1>2. CASE Undo(t)
  BY <1>2 DEF Undo, Goto, Forget, AsExpected, StepEffect, Counted, Owners, TypeOK, Labels
<1>3. CASE SharedLoad(t)
  BY <1>3 DEF SharedLoad, Goto, Forget, AsExpected, StepEffect, Counted, Owners, TypeOK, Labels
<1>4. CASE SharedCas(t)
  BY <1>4 DEF SharedCas, Goto, Forget, AsExpected, StepEffect, Counted, Owners, TypeOK, Labels
<1>5. CASE UnlockShared(t)
  BY <1>5 DEF UnlockShared, Goto, Forget, AsExpected, StepEffect, Counted, Owners, TypeOK, Labels
<1>6. CASE Lock(t)
  BY <1>6 DEF Lock, Goto, Forget, AsExpected, StepEffect, Counted, Owners, TypeOK, Labels
<1>7. CASE RequestLoad(t)
  BY <1>7 DEF RequestLoad, Goto, Forget, AsExpected, StepEffect, Counted, Owners, TypeOK, Labels
<1>8. CASE RequestCas(t)
  BY <1>8 DEF RequestCas, Goto, Forget, AsExpected, StepEffect, Counted, Owners, TypeOK, Labels
<1>9. CASE CasFailsSpuriously(t)
  BY <1>9 DEF CasFailsSpuriously, Goto, Forget, AsExpected, StepEffect, Counted, Owners, TypeOK, Labels
<1>10. CASE WaitForReaders(t)
  BY <1>10 DEF WaitForReaders, Goto, Forget, AsExpected, StepEffect, Counted, Owners, TypeOK, Labels
<1>11. CASE Unlock(t)
  BY <1>11 DEF Unlock, Goto, Forget, AsExpected, StepEffect, Counted, Owners, TypeOK, Labels
<1> QED BY <1>1, <1>2, <1>3, <1>4, <1>5, <1>6, <1>7, <1>8, <1>9, <1>10, <1>11 DEF Advance, Decide

LEMMA InvStep == Inv /\ [Next]_vars => Inv'
<1> SUFFICES ASSUME Inv, [Next]_vars PROVE Inv'
  OBVIOUS
<1>1. ASSUME NEW t \in Threads, StepEffect(t)
      PROVE  Inv'
  <2>1. read_count' = Cardinality(Counted') /\ read_count' \in Nat
    BY <1>1, CountStep DEF StepEffect, Inv
  <2>2. TypeOK'
    BY <1>1, <2>1 DEF StepEffect, TypeOK
  <2>3. /\ write_bit' <=> \E u \in Threads : u \in Owners'
        /\ \A u, w \in Owners' : u = w
    <3>1. (write_bit <=> Owners # {}) /\ (\A u, w \in Owners : u = w)
      BY DEF Inv, WordTellsAll, Owners
    <3>2. \/ Owners' = Owners /\ write_bit' = write_bit
          \/ ~write_bit /\ Owners' = Owners \cup {t} /\ write_bit'
          \/ t \in Owners /\ Owners' = Owners \ {t} /\ ~write_bit'
      BY <1>1 DEF StepEffect
    <3>3. (write_bit' <=> Owners' # {}) /\ (\A u, w \in Owners' : u = w)
      BY <3>1, <3>2 DEF Inv, TypeOK
    <3> QED BY <3>3 DEF Owners
  <2>4. WordTellsAll'
    BY <2>1, <2>3 DEF WordTellsAll, Owners
  <2>5. \A u \in Threads : pc'[u] = "writing" => u \in Owners'
    BY DEF Owners
  <2>6. ASSUME NEW u \in Threads, NEW w \in Threads, u # w, pc'[u] = "writing", pc'[w] = "reading"
        PROVE  FALSE
    <3>1. CASE u = t
      <4>1. Counted = {}
        BY <1>1, <2>6, <3>1, NobodyCounted DEF StepEffect, Inv, WordTellsAll
      <4> QED BY <1>1, <2>6, <3>1, <4>1 DEF StepEffect, Counted
    <3>2. CASE w = t
      BY <1>1, <2>6, <3>2 DEF StepEffect, Inv, WordTellsAll
    <3>3. CASE u # t /\ w # t
      BY <1>1, <2>6, <3>3 DEF StepEffect, Inv, Exclusion
    <3> QED BY <3>1, <3>2, <3>3
  <2>7. Exclusion'
    BY <2>3, <2>5, <2>6 DEF Exclusion
  <2> QED BY <2>2, <2>4, <2>7 DEF Inv
<1>2. CASE UNCHANGED vars
  <2>1. Counted' = Counted
    BY <1>2 DEF vars, Counted
  <2> QED BY <1>2, <2>1 DEF vars, Inv, TypeOK, WordTellsAll, Exclusion
<1> QED BY <1>1, <1>2, StepEffectLemma DEF Next, Threads, Inv

THEOREM InvCorrect == Spec => []Inv
<1> QED BY InvInit, InvStep, PTL DEF Spec

(* Every variable of the mutex keeps its type: the count never goes below  *)
(* zero, which the word's bits would read as a writer.                     *)
THEOREM TypeCorrect == Spec => []TypeOK
<1>1. Inv => TypeOK
  BY DEF Inv
<1> QED BY <1>1, InvCorrect, PTL

(* The word counts every reader once and its bit has one owner: no         *)
(* assertion of the mutex can fail.                                        *)
THEOREM WordCounts == Spec => []WordTellsAll
<1>1. Inv => WordTellsAll
  BY DEF Inv
<1> QED BY <1>1, InvCorrect, PTL

(* A writer is alone. *)
THEOREM Exclusive == Spec => []Exclusion
<1>1. Inv => Exclusion
  BY DEF Inv
<1> QED BY <1>1, InvCorrect, PTL
=============================================================================
