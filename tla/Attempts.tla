-------------------------------- MODULE Attempts --------------------------------
(***************************************************************************)
(* What one thread does between entering the library and leaving it: calls *)
(* of read_write, read_only and relative inside of each other, reads and   *)
(* writes through the write set, memory that is taken and given back       *)
(* (memory.hpp), and the ways out: return and commit, retry, an exception. *)
(*                                                                         *)
(* Other threads show in two ways only: a check of a version may fail at   *)
(* any time, and so may a commit.  Grace periods are Reclamation's: here   *)
(* the callbacks of finalized epochs are a queue that runs between calls.  *)
(***************************************************************************)
EXTENDS WriteSet, FiniteSets, FiniteSetsExt

CONSTANTS
    Objects,    \* storage that an allocator hands out: numbers
    Trivial,    \* objects whose type is trivially destructible
    FirstValue, \* what each variable holds at first
    KindsThatAllocate, \* where functions of memory.hpp are called with a
                       \* thread_data, other than outside of every section
    MaxCalls,   \* bound: calls from outside of every section
    MaxLevel,   \* bound: calls inside of each other
    MaxSteps    \* bound: steps of one attempt

ASSUME AttemptsAssumption ==
    /\ IsFiniteSet(Objects) /\ Objects \subseteq Nat \ {0}
    /\ Trivial \subseteq Objects
    /\ FirstValue \in [Vars -> Objects \ Trivial]
    /\ \A v, w \in Vars : v # w => FirstValue[v] # FirstValue[w]
    /\ MaxCalls \in Nat /\ MaxLevel \in Nat \ {0} /\ MaxSteps \in Nat

VARIABLES
    stack,      \* the calls the thread is in, the innermost last
    committing, \* try_commit has been called
    tx_state,   \* tx_kind: none, read_only, read_write
    section,    \* in_critical_section
    write_set,
    read_set,
    fail_callbacks,
    working,    \* succ_callbacks: the working epoch
    queue,      \* succ_callbacks: the finalized epochs, oldest first
    storage,    \* what each variable holds
    heap,       \* each object: free, raw (allocated), live (constructed)
    roots,      \* objects that belong to the user
    mine,       \* objects that the user's function has allocated in this attempt
    calls,      \* from outside, so far
    steps,      \* of this attempt
    before,     \* history: heap when the attempt began
    written,    \* history: what the attempt has written to each variable
    tracked,    \* history: the variables it has read and tracked
    seen        \* history: the last read, if nothing was written since

callbacks == <<fail_callbacks, working, queue>>
memory == <<heap, roots, mine>>
history == <<before, written, tracked, seen>>
vars == <<stack, committing, tx_state, section, write_set, read_set, callbacks, storage,
          memory, calls, steps, history>>

Nothing == 0

Init ==
    /\ stack = <<>> /\ committing = FALSE
    /\ tx_state = "none" /\ section = FALSE
    /\ write_set = EmptyWriteSet /\ read_set = <<>>
    /\ fail_callbacks = <<>> /\ working = <<>> /\ queue = <<>>
    /\ storage = FirstValue
    /\ heap = [o \in Objects |-> IF \E v \in Vars : FirstValue[v] = o THEN "live" ELSE "free"]
    /\ roots = {} /\ mine = {}
    /\ calls = 0 /\ steps = 0
    /\ before = [o \in Objects |-> "free"]
    /\ written = [v \in Vars |-> Nothing] /\ tracked = {} /\ seen = {}
-----------------------------------------------------------------------------
(* Callbacks: what is done, and the object it is done to. *)

Destroyed(o, s) == IF s = "live" THEN "raw" ELSE "broken"

Freed(o, s) == IF s = "raw" \/ (s = "live" /\ o \in Trivial) THEN "free" ELSE "broken"

After(what, o, s) ==
    CASE what = "deallocate" -> Freed(o, s)
      [] what = "destroy" -> Destroyed(o, s)
      [] what = "destroy_deallocate" ->
            IF o \in Trivial THEN Freed(o, s) ELSE Freed(o, Destroyed(o, s))

Apply(h, c) == [h EXCEPT ![c[2]] = After(c[1], c[2], @)]

Run(cs, h) ==
    LET after[n \in 0 .. Len(cs)] == IF n = 0 THEN h ELSE Apply(after[n - 1], cs[n])
    IN  after[Len(cs)]

(* Mutant: the callbacks run in the order in which they were registered. *)
DoFailInOrder(h) == Run(fail_callbacks, h)

(* do_fail_callbacks: the last one first. *)
DoFailCallbacks(h) == Run(Reverse(fail_callbacks), h)

FreeObjects(trivial) == {o \in Objects : heap[o] = "free" /\ (o \in Trivial) = trivial}

(* The object an allocator returns. *)
Fresh(trivial) == Min(FreeObjects(trivial))
-----------------------------------------------------------------------------
(* Ways in *)

Running == stack # <<>> /\ ~committing

Does(n) ==
    /\ Running /\ steps < MaxSteps
    /\ steps' = steps + n

Forget ==
    /\ written' = [v \in Vars |-> Nothing]
    /\ tracked' = {}
    /\ seen' = {}
    /\ steps' = 0

BeginAttempt(h) == before' = h /\ Forget

EndCall == before' = [o \in Objects |-> "free"] /\ Forget

(* A call from outside of every section. *)
Enter(f) ==
    /\ stack = <<>> /\ calls < MaxCalls
    /\ calls' = calls + 1
    /\ stack' = <<f>>
    /\ tx_state' = IF f = "relative" THEN "none" ELSE f
    /\ section' = TRUE
    /\ BeginAttempt(heap)
    /\ UNCHANGED <<committing, write_set, read_set, callbacks, storage, memory>>

(* Mutant: a read-only call switches the kind of the transaction it is in. *)
NestAndSwitch(f) ==
    /\ Does(1)
    /\ Len(stack) < MaxLevel
    /\ f = "read_only" => tx_state # "none"
    /\ f = "read_write" => tx_state = "read_write"
    /\ stack' = Append(stack, f)
    /\ tx_state' = IF f = "relative" THEN tx_state ELSE f
    /\ UNCHANGED <<committing, section, write_set, read_set, callbacks, storage, memory, calls, history>>

(* A call inside of another: the function is called and no more.  The      *)
(* library asserts what it does not support: writing in a read-only        *)
(* transaction, a transaction in a relative section.                       *)
Nest(f) ==
    /\ Does(1)
    /\ Len(stack) < MaxLevel
    /\ f = "read_only" => tx_state # "none"
    /\ f = "read_write" => tx_state = "read_write"
    /\ stack' = Append(stack, f)
    /\ UNCHANGED <<committing, tx_state, section, write_set, read_set, callbacks, storage,
                   memory, calls, history>>
-----------------------------------------------------------------------------
(* Reads and writes *)

(* Mutant: a read-only call never has the thread_data. *)
OwnKindOnly == Last(stack) = "read_write"

(* The handle the innermost function has been given has the thread_data:   *)
(* read_transaction{tls_td, epoch} in a read-write transaction.            *)
HasThreadData == tx_state = "read_write"

Read(v, track) ==
    /\ Does(1)
    /\ tx_state # "none" /\ Last(stack) # "relative"
    /\ IF HasThreadData /\ Find(write_set, v) # 0
       THEN /\ seen' = {<<v, PendingWrite(write_set, v)>>}
            /\ UNCHANGED <<read_set, tracked>>
       ELSE /\ seen' = {<<v, storage[v]>>}
            /\ read_set' = IF HasThreadData /\ track THEN Append(read_set, v) ELSE read_set
            /\ tracked' = IF HasThreadData /\ track THEN tracked \cup {v} ELSE tracked
    /\ UNCHANGED <<stack, committing, tx_state, section, write_set, callbacks, storage, memory,
                   calls, before, written>>

MayWrite == Running /\ Last(stack) = "read_write"

(* A variable that is written for the first time gets a new storage, ... *)
Write(v) ==
    LET new == Fresh(FALSE)
    IN
    /\ Does(1) /\ MayWrite
    /\ Find(write_set, v) = 0
    /\ FreeObjects(FALSE) # {}
    /\ heap' = [heap EXCEPT ![new] = "live"]
    /\ write_set' = PushBack(write_set, v, new)
    /\ working' = Append(working, <<"destroy_deallocate", storage[v]>>)
    /\ fail_callbacks' = Append(fail_callbacks, <<"destroy_deallocate", new>>)
    /\ written' = [written EXCEPT ![v] = new]
    /\ seen' = {}
    /\ UNCHANGED <<stack, committing, tx_state, section, read_set, queue, storage, roots, mine,
                   calls, before, tracked>>

(* ... which later writes assign to. *)
WriteAgain(v) ==
    /\ Does(1) /\ MayWrite
    /\ Find(write_set, v) # 0
    /\ seen' = {}
    /\ UNCHANGED <<stack, committing, tx_state, section, write_set, read_set, callbacks, storage,
                   memory, calls, before, written, tracked>>
-----------------------------------------------------------------------------
(* Ways out *)

(* An exception is caught by the function at level n, or by none.  Nothing *)
(* is undone by the calls it passes through on its way to the outermost.   *)
Throw(n, h) ==
    IF n > 0
    THEN /\ steps < MaxSteps
         /\ stack' = SubSeq(stack, 1, n)
         /\ steps' = steps + 1
         /\ heap' = h
         /\ UNCHANGED <<tx_state, section, write_set, read_set, fail_callbacks, working, mine,
                        history>>
    ELSE /\ stack' = <<>>
         /\ EndCall
         /\ tx_state' = "none"
         /\ section' = FALSE
         /\ IF tx_state = "read_write"
            THEN /\ heap' = DoFailCallbacks(h)
                 /\ write_set' = ClearSet(write_set)
                 /\ read_set' = <<>> /\ fail_callbacks' = <<>> /\ working' = <<>>
                 /\ mine' = {}
            ELSE /\ heap' = h
                 /\ UNCHANGED <<write_set, read_set, fail_callbacks, working, mine>>

(* The levels that may catch what is thrown at this one. *)
Catchers == 0 .. Len(stack) - 1

UserThrows ==
    /\ Running
    /\ \E n \in Catchers : Throw(n, heap)
    /\ UNCHANGED <<committing, queue, storage, roots, calls>>

(* Mutant: the storage of a value that was not constructed is forgotten. *)
LeaveStorage(h, o) == h

(* allocate_construct of a var: what the constructor leaves is given back. *)
(* (The code also runs the destructor of the value that it has not built.) *)
GiveBack(h, o) == [h EXCEPT ![o] = "free"]

(* The constructor of a new value throws. *)
WriteThrows(v) ==
    LET new == Fresh(FALSE)
    IN
    /\ MayWrite
    /\ Find(write_set, v) = 0
    /\ FreeObjects(FALSE) # {}
    /\ \E n \in 0 .. Len(stack) : Throw(n, GiveBack([heap EXCEPT ![new] = "raw"], new))
    /\ UNCHANGED <<committing, queue, storage, roots, calls>>

(* tx_failure, and the attempt starts over. *)
StartOver ==
    /\ stack' = <<stack[1]>>
    /\ committing' = FALSE
    /\ IF tx_state = "read_write"
       THEN /\ write_set' = ClearSet(write_set)
            /\ read_set' = <<>> /\ fail_callbacks' = <<>> /\ working' = <<>>
            /\ heap' = DoFailCallbacks(heap)
            /\ mine' = {}
       ELSE UNCHANGED <<write_set, read_set, fail_callbacks, working, heap, mine>>
    /\ BeginAttempt(heap')
    /\ UNCHANGED <<tx_state, section, queue, storage, roots, calls>>

(* A check fails, or the user's function retries. *)
Retry ==
    /\ Running /\ tx_state # "none"
    /\ StartOver

(* An inner call returns. *)
Return ==
    /\ Running /\ Len(stack) > 1
    /\ stack' = Front(stack)
    /\ UNCHANGED <<committing, tx_state, section, write_set, read_set, callbacks, storage, memory,
                   calls, steps, history>>

(* The outermost function of a read-write transaction returns. *)
TryCommit ==
    /\ Running /\ Len(stack) = 1 /\ tx_state = "read_write"
    /\ committing' = TRUE
    /\ read_set' = IF write_set.data = <<>> THEN read_set
                   ELSE RemoveWritesFromReads(read_set, write_set)
    /\ UNCHANGED <<stack, tx_state, section, write_set, callbacks, storage, memory, calls, steps,
                   history>>

CommitFails ==
    /\ committing /\ write_set.data # <<>>
    /\ StartOver

FreesIn(cs) == {c[2] : c \in {d \in ToSet(cs) : d[1] # "destroy"}}

Over ==
    /\ stack' = <<>>
    /\ tx_state' = "none"
    /\ section' = FALSE
    /\ EndCall
    /\ UNCHANGED calls

(* Mutant: the callbacks of an attempt that succeeds stay. *)
KeepFailCallbacks ==
    /\ committing /\ committing' = FALSE
    /\ storage' = [v \in Vars |-> IF Find(write_set, v) = 0 THEN storage[v]
                                  ELSE PendingWrite(write_set, v)]
    /\ write_set' = ClearSet(write_set) /\ read_set' = <<>> /\ working' = <<>>
    /\ queue' = queue \o working
    /\ roots' = (roots \cup mine) \ FreesIn(working)
    /\ mine' = {}
    /\ Over
    /\ UNCHANGED <<fail_callbacks, heap>>

(* tx_success; whether it reclaims is left open. *)
CommitSucceeds ==
    /\ committing /\ committing' = FALSE
    /\ storage' = [v \in Vars |-> IF Find(write_set, v) = 0 THEN storage[v]
                                  ELSE PendingWrite(write_set, v)]
    /\ write_set' = ClearSet(write_set)
    /\ read_set' = <<>> /\ fail_callbacks' = <<>> /\ working' = <<>>
    /\ \/ queue' = queue \o working /\ UNCHANGED heap
       \/ queue' = <<>> /\ heap' = Run(queue \o working, heap)
    /\ roots' = (roots \cup mine) \ FreesIn(working)
    /\ mine' = {}
    /\ Over

(* A read-only transaction or a relative section returns. *)
LeaveReadOnly ==
    /\ Running /\ Len(stack) = 1 /\ tx_state # "read_write"
    /\ roots' = roots \cup mine
    /\ mine' = {}
    /\ Over
    /\ UNCHANGED <<committing, write_set, read_set, callbacks, storage, heap>>

(* shrink_to_fit, called between transactions: everything is reclaimed. *)
Shrink ==
    /\ stack = <<>>
    /\ heap' = Run(queue, heap)
    /\ queue' = <<>>
    /\ write_set' = ShrinkToFit(write_set)
    /\ UNCHANGED <<stack, committing, tx_state, section, read_set, fail_callbacks, working,
                   storage, roots, mine, calls, steps, history>>

(* shrink_to_fit, called inside of one. *)
ShrinkInside ==
    /\ Does(1)
    /\ write_set' = ShrinkToFit(write_set)
    /\ UNCHANGED <<stack, committing, tx_state, section, read_set, callbacks, storage, memory,
                   calls, history>>
=============================================================================
