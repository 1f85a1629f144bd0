--------------------------- MODULE TransactionalMemory ---------------------------
(***************************************************************************)
(* memory.hpp over Attempts: functions that allocate and construct at once *)
(* and undo it when the attempt fails, and that destroy and deallocate     *)
(* after the grace period of the commit.  They come in two families: with  *)
(* a thread_data, for code that may run outside of transactions, and with  *)
(* a transaction.                                                          *)
(***************************************************************************)
EXTENDS Attempts

mvars == <<stack, committing, tx_state, section, write_set, read_set, working, queue, storage,
           calls, history>>

(* The two families: the first registers in a section only. *)
WithThreadData == ~section \/ tx_state \in KindsThatAllocate

WithTransaction == MayWrite

MayAllocate ==
    /\ ~committing
    /\ WithThreadData \/ WithTransaction

Registers == section

(* Bound: objects of the user's at a time. *)
MaxOwned == 1

RoomFor(trivial) == FreeObjects(trivial) # {} /\ Cardinality(roots \cup mine) < MaxOwned

AfterFail(cs) ==
    fail_callbacks' = IF Registers THEN fail_callbacks \o cs ELSE fail_callbacks

(* Outside of the library, steps are not counted. *)
Counts(n) == IF section THEN Does(n) ELSE calls < MaxCalls /\ UNCHANGED steps

Mine(o) ==
    IF section THEN mine' = mine \cup {o} /\ UNCHANGED roots
    ELSE roots' = roots \cup {o} /\ UNCHANGED mine

Registered(o) == {c \in ToSet(queue \o working) : c[2] = o}

(* What the user may still use: its own, and not given away. *)
Usable(o) == o \in roots \cup mine /\ Registered(o) = {}

Allocate(trivial) ==
    /\ MayAllocate /\ RoomFor(trivial) /\ Counts(1)
    /\ heap' = [heap EXCEPT ![Fresh(trivial)] = "raw"]
    /\ AfterFail(<<<<"deallocate", Fresh(trivial)>>>>)
    /\ Mine(Fresh(trivial))
    /\ UNCHANGED mvars

Construct(o) ==
    /\ MayAllocate /\ Usable(o) /\ heap[o] = "raw" /\ Counts(1)
    /\ heap' = [heap EXCEPT ![o] = "live"]
    /\ AfterFail(IF o \in Trivial THEN <<>> ELSE <<<<"destroy", o>>>>)
    /\ UNCHANGED <<mvars, roots, mine>>

AllocateConstruct(trivial) ==
    /\ MayAllocate /\ RoomFor(trivial) /\ Counts(1)
    /\ heap' = [heap EXCEPT ![Fresh(trivial)] = "live"]
    /\ AfterFail(<<<<"destroy_deallocate", Fresh(trivial)>>>>)
    /\ Mine(Fresh(trivial))
    /\ UNCHANGED mvars

(* deallocate, destroy and destroy_deallocate: sometime_synchronized_after.*)
GiveAway(what, o) ==
    /\ WithTransaction /\ Does(1)
    /\ o \in roots \cup mine
    /\ CASE what = "deallocate" ->
               \/ Registered(o) = {} /\ (heap[o] = "raw" \/ o \in Trivial)
               \/ Registered(o) = {<<"destroy", o>>}
         [] what = "destroy" -> Registered(o) = {} /\ heap[o] = "live" /\ o \notin Trivial
         [] what = "destroy_deallocate" -> Registered(o) = {} /\ heap[o] = "live"
    /\ working' = Append(working, <<what, o>>)
    /\ UNCHANGED <<stack, committing, tx_state, section, write_set, read_set, fail_callbacks,
                   queue, storage, memory, calls, history>>
-----------------------------------------------------------------------------
Next ==
    \/ \E f \in {"read_write", "read_only", "relative"} : Enter(f) \/ Nest(f)
    \/ \E v \in Vars : \/ Write(v) \/ WriteAgain(v) \/ WriteThrows(v)
                       \/ \E track \in BOOLEAN : Read(v, track)
    \/ Return \/ TryCommit \/ CommitFails \/ CommitSucceeds \/ LeaveReadOnly
    \/ UserThrows \/ Retry \/ Shrink \/ ShrinkInside
    \/ \E trivial \in BOOLEAN : Allocate(trivial) \/ AllocateConstruct(trivial)
    \/ \E o \in Objects :
           \/ Construct(o)
           \/ \E what \in {"deallocate", "destroy", "destroy_deallocate"} : GiveAway(what, o)

Spec == Init /\ [][Next]_vars
-----------------------------------------------------------------------------
(* What holds *)

Callback == {"deallocate", "destroy", "destroy_deallocate"} \X Objects

(* unchecked_push_back never writes behind the vector: a slot is to spare. *)
SlotToSpare == Len(write_set.data) < write_set.capacity

(* Type invariant; the vector of the write set has its slot to spare. *)
MemoryTypeOK ==
    /\ stack \in Seq({"read_write", "read_only", "relative"}) /\ Len(stack) <= MaxLevel
    /\ tx_state \in {"none", "read_only", "read_write"}
    /\ section \in BOOLEAN /\ committing \in BOOLEAN
    /\ read_set \in Seq(Vars) /\ SlotToSpare
    /\ fail_callbacks \in Seq(Callback) /\ working \in Seq(Callback) /\ queue \in Seq(Callback)
    /\ storage \in [Vars -> Objects]
    /\ heap \in [Objects -> {"free", "raw", "live", "broken"}]
    /\ roots \subseteq Objects /\ mine \subseteq Objects

(* valid_start_state, before every attempt and after every call, whatever  *)
(* way it has taken out of however many levels: nothing of one attempt is  *)
(* left for the next.                                                      *)
NothingIsLeftOver ==
    stack = <<>> =>
        /\ tx_state = "none" /\ ~section
        /\ write_set.data = <<>> /\ write_set.filter = {} /\ read_set = <<>>
        /\ fail_callbacks = <<>> /\ working = <<>>

(* The kind of a transaction is the one it was entered with, in all of its *)
(* levels and after each of them.                                          *)
KindIsTheOutermost ==
    stack # <<>> =>
        /\ section
        /\ tx_state = IF stack[1] = "relative" THEN "none" ELSE stack[1]

FreedLater == {c[2] : c \in {d \in ToSet(queue) : d[1] # "destroy"}}

(* Between transactions every object that is not free has one owner: a     *)
(* variable, the user, or a callback that frees it; and nothing was ever   *)
(* freed twice, freed with a live value in it or destroyed twice.          *)
NothingIsLost ==
    /\ \A o \in Objects : heap[o] # "broken"
    /\ stack = <<>> =>
           /\ \A v, w \in Vars : v # w => storage[v] # storage[w]
           /\ {o \in Objects : heap[o] # "free"} = roots \cup FreedLater \cup {storage[v] : v \in Vars}
           /\ roots \cap FreedLater = {}
           /\ \A v \in Vars : storage[v] \notin roots \cup FreedLater /\ heap[storage[v]] = "live"

(* A variable reads as what the transaction itself has written to it last, *)
(* through every handle; as what it holds otherwise.                       *)
ReadsOwnWrites ==
    \A s \in seen : s[2] = IF written[s[1]] = Nothing THEN storage[s[1]] ELSE written[s[1]]

(* A commit validates what was read and not written: a variable it locks   *)
(* itself would never be valid, one that is left out might be stale.       *)
ValidatesTheRest ==
    committing /\ write_set.data # <<>> =>
        ToSet(read_set) = tracked \ {v \in Vars : written[v] # Nothing}

(* A trivially destructible object is as good raw as it is live. *)
AsBefore(o, s) == s = before[o] \/ (o \in Trivial /\ {s, before[o]} = {"raw", "live"})

(* An attempt that fails has not been: what it has allocated is free,      *)
(* what it has given away is not, variables hold what they held.           *)
FailuresUndo ==
    [][tx_state = "read_write" /\ steps' < steps /\ ~(committing /\ stack' = <<>>)
       => /\ \A o \in Objects : AsBefore(o, heap'[o])
          /\ storage' = storage /\ roots' = roots /\ queue' = queue]_vars
=============================================================================
