------------------------------ MODULE FastRwMutex ------------------------------
(***************************************************************************)
(* fast_rw_mutex: a reader count and a write bit in one word.  A reader    *)
(* counts itself first and looks at the bit afterwards: the count may hold *)
(* readers that are on their way out again.  A writer sets the bit over a  *)
(* count that need not be zero and waits for it to become zero.            *)
(*                                                                         *)
(* One action is one atomic access to the word.  A loop that loads the     *)
(* word and goes round again without having changed anything is a guard.   *)
(***************************************************************************)
EXTENDS Naturals, FiniteSets

CONSTANTS
    Readers,  \* the threads that lock it shared: the owner of a node
    Writers   \* the threads that lock it: whoever registers or unregisters

Threads == Readers \cup Writers

ASSUME FiniteThreads == IsFiniteSet(Threads)

VARIABLES
    write_bit,   \* read_count & write_bit
    read_count,  \* read_count & read_mask
    pc,          \* where each thread is
    expected     \* the count a compare-exchange expects

vars == <<write_bit, read_count, pc, expected>>

Init ==
    /\ write_bit = FALSE
    /\ read_count = 0
    /\ pc = [t \in Threads |-> "out"]
    /\ expected = [t \in Threads |-> 0]

Goto(t, from, to) == pc[t] = from /\ pc' = [pc EXCEPT ![t] = to]

(* An expected value is dead outside of the compare-exchange. *)
Forget(t) == expected' = [expected EXCEPT ![t] = 0]
-----------------------------------------------------------------------------
(* lock_shared and unlock_shared *)

LockShared(t) ==
    /\ Goto(t, "out", IF write_bit THEN "undo" ELSE "reading")
    /\ read_count' = read_count + 1
    /\ UNCHANGED <<write_bit, expected>>

(* Mutant: the slow path leaves the increment behind. *)
LeaveCounted(t) == Goto(t, "undo", "spin") /\ UNCHANGED <<write_bit, read_count, expected>>

(* The slow path takes the increment back and waits for the bit to clear. *)
Undo(t) ==
    /\ Goto(t, "undo", "spin")
    /\ read_count' = read_count - 1
    /\ UNCHANGED <<write_bit, expected>>

SharedLoad(t) ==
    /\ ~write_bit
    /\ Goto(t, "spin", "spin cas")
    /\ expected' = [expected EXCEPT ![t] = read_count]
    /\ UNCHANGED <<write_bit, read_count>>

(* Mutant: the compare-exchange expects the count and not the whole word. *)
AnyBit(t) == read_count = expected[t]

(* The word a compare-exchange of this mutex expects has no write bit. *)
AsExpected(t) == ~write_bit /\ read_count = expected[t]

(* Mutant: the compare-exchange writes back what it has read. *)
SharedCasUncounted(t) ==
    /\ Forget(t)
    /\ UNCHANGED <<write_bit, read_count>>
    /\ \/ AsExpected(t) /\ Goto(t, "spin cas", "reading")
       \/ ~AsExpected(t) /\ Goto(t, "spin cas", "spin")

SharedCas(t) ==
    /\ Forget(t)
    /\ UNCHANGED write_bit
    /\ \/ AsExpected(t) /\ Goto(t, "spin cas", "reading") /\ read_count' = read_count + 1
       \/ ~AsExpected(t) /\ Goto(t, "spin cas", "spin") /\ UNCHANGED read_count

UnlockShared(t) ==
    /\ Goto(t, "reading", "out")
    /\ read_count' = read_count - 1
    /\ UNCHANGED <<write_bit, expected>>
-----------------------------------------------------------------------------
(* lock and unlock *)

(* The compare-exchange is a weak one: it may fail on a free mutex. *)
Lock(t) ==
    /\ \/ ~write_bit /\ read_count = 0 /\ Goto(t, "out", "writing") /\ write_bit' = TRUE
       \/ Goto(t, "out", "request") /\ UNCHANGED write_bit
    /\ UNCHANGED <<read_count, expected>>

RequestLoad(t) ==
    /\ ~write_bit
    /\ Goto(t, "request", "request cas")
    /\ expected' = [expected EXCEPT ![t] = read_count]
    /\ UNCHANGED <<write_bit, read_count>>

(* Mutant: whoever set the bit enters. *)
EnterAnyway(t) ==
    /\ Forget(t)
    /\ UNCHANGED read_count
    /\ \/ AsExpected(t) /\ Goto(t, "request cas", "writing") /\ write_bit' = TRUE
       \/ ~AsExpected(t) /\ Goto(t, "request cas", "request") /\ UNCHANGED write_bit

(* The count the bit was set over tells whether there is anyone to wait for. *)
RequestCas(t) ==
    /\ Forget(t)
    /\ UNCHANGED read_count
    /\ \/ /\ AsExpected(t)
          /\ Goto(t, "request cas", IF expected[t] = 0 THEN "writing" ELSE "wait")
          /\ write_bit' = TRUE
       \/ /\ ~AsExpected(t)
          /\ Goto(t, "request cas", "request")
          /\ UNCHANGED write_bit

(* The weak compare-exchanges of both loops fail for no reason. *)
CasFailsSpuriously(t) ==
    /\ Goto(t, "request cas", "request") \/ Goto(t, "spin cas", "spin")
    /\ Forget(t)
    /\ UNCHANGED <<write_bit, read_count>>

WaitForReaders(t) ==
    /\ read_count = 0
    /\ Goto(t, "wait", "writing")
    /\ UNCHANGED <<write_bit, read_count, expected>>

(* Mutant: the masks are swapped. *)
UnlockReaders(t) ==
    /\ Goto(t, "writing", "out")
    /\ read_count' = 0
    /\ UNCHANGED <<write_bit, expected>>

Unlock(t) ==
    /\ Goto(t, "writing", "out")
    /\ write_bit' = FALSE
    /\ UNCHANGED <<read_count, expected>>
-----------------------------------------------------------------------------
(* What a thread inside the mutex code does, compare-exchanges aside. *)
Advance(t) ==
    \/ Undo(t) \/ SharedLoad(t) \/ UnlockShared(t)
    \/ RequestLoad(t) \/ WaitForReaders(t) \/ Unlock(t)

Decide(t) == SharedCas(t) \/ RequestCas(t)

Next ==
    \/ \E t \in Readers : LockShared(t)
    \/ \E t \in Writers : Lock(t)
    \/ \E t \in Threads : Advance(t) \/ Decide(t) \/ CasFailsSpuriously(t)

Spec == Init /\ [][Next]_vars

(* Threads are scheduled and leave what they have entered; a weak compare- *)
(* exchange does not fail spuriously for ever.  Nobody wins its races.     *)
FairSpec ==
    /\ Spec
    /\ \A t \in Threads : WF_vars(Advance(t)) /\ SF_vars(Decide(t))
-----------------------------------------------------------------------------
(* What holds *)

Labels == {"out", "reading", "undo", "spin", "spin cas", "request", "request cas", "wait",
           "writing"}

(* Type invariant. *)
TypeOK ==
    /\ write_bit \in BOOLEAN
    /\ read_count \in Nat
    /\ pc \in [Threads -> Labels]
    /\ expected \in [Threads -> Nat]

(* The readers the word counts: those inside, and those on their way out. *)
Counted == {t \in Threads : pc[t] \in {"reading", "undo"}}

(* The word counts every reader once and its bit has one owner: the        *)
(* assertions of unlock_shared (prev was read locked) and of unlock (prev  *)
(* was write locked) never fail, and nobody is left counted.               *)
WordTellsAll ==
    /\ read_count = Cardinality(Counted)
    /\ write_bit <=> \E t \in Threads : pc[t] \in {"wait", "writing"}
    /\ \A t, u \in Threads :
           pc[t] \in {"wait", "writing"} /\ pc[u] \in {"wait", "writing"} => t = u

(* A writer is alone. *)
Exclusion ==
    \A t, u \in Threads :
        t # u /\ pc[t] = "writing" => pc[u] \notin {"reading", "writing"}

(* A writer that has set its bit gets in: readers that come later give way,*)
(* although each of them counts itself for a moment.                       *)
WriterEnters == \A t \in Threads : pc[t] = "wait" ~> pc[t] = "writing"

(* Someone gets in whenever someone tries: the loops fail for a reason. *)
LockProgress ==
    \A t \in Threads :
        pc[t] \notin {"out", "reading", "writing"}
            ~> \E u \in Threads : pc[u] \in {"reading", "writing"}
=============================================================================
