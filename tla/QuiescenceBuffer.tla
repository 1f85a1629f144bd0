--------------------------- MODULE QuiescenceBuffer ---------------------------
(***************************************************************************)
(* quiescence_buffer: the callbacks of a thread's commits in a ring of     *)
(* elements that are headers or callbacks, and the loops of thread_data    *)
(* that run them.  An epoch is a header and the callbacks behind it; the   *)
(* last one is the working epoch.  One thread uses it; it is interleaved   *)
(* only with itself, when a callback runs a transaction.                   *)
(***************************************************************************)
EXTENDS Integers, Sequences

CONSTANTS
    ReclaimLimit,  \* size at which epochs are reclaimed, a power of two
    Reentrant,     \* callbacks whose function runs transactions of its own
    MaxCallbacks,  \* bound: callbacks pushed in all
    MaxNesting     \* bound: reclaiming loops inside each other

ASSUME LimitAssumption ==
    ReclaimLimit \in Nat /\ ReclaimLimit > 2 /\ \E n \in 1 .. ReclaimLimit : ReclaimLimit = 2 ^ n

Callbacks == 1 .. MaxCallbacks

ASSUME BoundsAssumption ==
    MaxCallbacks \in Nat /\ MaxNesting \in Nat /\ Reentrant \subseteq Callbacks

VARIABLES
    ring,      \* the members of quiescence_buffer
    frames,    \* the reclaiming loops in progress, the innermost first
    pushed,    \* number of callbacks pushed
    clock,     \* the epoch of the last commit that wrote
    exiting,   \* the thread's destructor has been called
    runs       \* history: how often each callback has run

vars == <<ring, frames, pushed, clock, exiting, runs>>

(* An element is a callback or a header. *)
Callback(c) == [callback |-> c, epoch |-> 0, size |-> 0, prev_size |-> 0]
Header(prev_size) == [callback |-> 0, epoch |-> 0, size |-> 0, prev_size |-> prev_size]
-----------------------------------------------------------------------------
(* The ring *)

Capacity(r) == r.last_valid_index + 1
Wrap(r, index) == index % Capacity(r)
Size(r) == Wrap(r, r.write_pos - r.ring_begin)
WorkingEpochSize(r) == Wrap(r, r.write_pos - r.epoch_begin)
Empty(r) == Size(r) = 1
FrontEpoch(r) == r.buffer[r.ring_begin].epoch
BackEpoch(r) == r.buffer[Wrap(r, r.epoch_begin - r.buffer[r.epoch_begin].prev_size)].epoch

(* Mutant: the working epoch stays where it was. *)
ReserveInPlace(r) ==
    [r EXCEPT !.buffer = [i \in 0 .. 2 * Capacity(r) - 1 |->
                              IF i < Capacity(r) THEN r.buffer[Wrap(r, r.ring_begin + i)]
                              ELSE Header(0)],
              !.write_pos = Capacity(r),
              !.last_valid_index = 2 * Capacity(r) - 1,
              !.ring_begin = 0]

(* The ring doubles, and its first epoch moves to the beginning. *)
ReserveMore(r) ==
    [r EXCEPT !.buffer = [i \in 0 .. 2 * Capacity(r) - 1 |->
                              IF i < Capacity(r) THEN r.buffer[Wrap(r, r.ring_begin + i)]
                              ELSE Header(0)],
              !.epoch_begin = Wrap(r, r.epoch_begin - r.ring_begin),
              !.write_pos = Capacity(r),
              !.last_valid_index = 2 * Capacity(r) - 1,
              !.ring_begin = 0]

(* An element is written, and the ring grows if it has become full. *)
EmplaceBack(r, element) ==
    LET s == [r EXCEPT !.buffer[Wrap(r, r.write_pos)] = element, !.write_pos = @ + 1]
    IN  IF Wrap(s, s.write_pos) = s.ring_begin THEN ReserveMore(s) ELSE s

ClearWorkingEpoch(r) == [r EXCEPT !.write_pos = r.epoch_begin + 1]

(* Mutant: the size is taken after the new working epoch has begun. *)
FinalizeUnlinked(r, epoch) ==
    LET s == [r EXCEPT !.buffer[r.epoch_begin].epoch = epoch,
                       !.buffer[r.epoch_begin].size = WorkingEpochSize(r),
                       !.epoch_begin = Wrap(r, r.write_pos)]
    IN  EmplaceBack(s, Header(WorkingEpochSize(s)))

(* The working epoch gets its number and its size, a new one begins. *)
FinalizeEpoch(r, epoch) ==
    LET size == WorkingEpochSize(r)
        s == [r EXCEPT !.buffer[r.epoch_begin].epoch = epoch,
                       !.buffer[r.epoch_begin].size = size,
                       !.epoch_begin = Wrap(r, r.write_pos)]
    IN  EmplaceBack(s, Header(size))

Init ==
    /\ ring = [buffer |-> [i \in 0 .. 2 * ReclaimLimit - 1 |-> Header(0)],
               last_valid_index |-> 2 * ReclaimLimit - 1,
               write_pos |-> 1, epoch_begin |-> 0, ring_begin |-> 0]
    /\ frames = <<>>
    /\ pushed = 0
    /\ clock = 0
    /\ exiting = FALSE
    /\ runs = [c \in Callbacks |-> 0]
-----------------------------------------------------------------------------
(* Transactions *)

(* The callback that the innermost loop is in. *)
Current == ring.buffer[Wrap(ring, frames[1].cur_idx)].callback

(* The thread runs a transaction: one of its own, or one of a callback. *)
MayTransact ==
    IF frames = <<>> THEN ~exiting
    ELSE frames[1].pc = "called" /\ Current \in Reentrant

(* A callback is registered, or a storage is going to be replaced. *)
Push ==
    /\ MayTransact
    /\ pushed < MaxCallbacks
    /\ ring' = EmplaceBack(ring, Callback(pushed + 1))
    /\ pushed' = pushed + 1
    /\ UNCHANGED <<frames, clock, exiting, runs>>

(* The attempt fails. *)
Clear ==
    /\ MayTransact
    /\ ring' = ClearWorkingEpoch(ring)
    /\ UNCHANGED <<frames, pushed, clock, exiting, runs>>

(* A reclaiming loop frees epochs before min_epoch, but the first anyway. *)
Reclaim(min_epoch) ==
    /\ Len(frames) < MaxNesting
    /\ frames' = <<[pc |-> "front", cur_idx |-> 0, end |-> 0, min_epoch |-> min_epoch]>> \o frames

(* off_state, when no thread is in an epoch: greater than any. *)
OffState == MaxCallbacks + 1

(* The commit succeeds: reclaim.  The epoch is 0 if it has written nothing *)
(* and only registered callbacks.  What synchronize_min_epoch returns is   *)
(* an epoch later than the one it waits for: that of a thread, which the   *)
(* clock has reached, or off_state.                                        *)
Finalize ==
    /\ MayTransact
    /\ WorkingEpochSize(ring) > 1
    /\ \E epoch \in {0, clock + 1} :
           /\ clock' = IF epoch = 0 THEN clock ELSE epoch
           /\ ring' = FinalizeEpoch(ring, epoch)
    /\ IF Size(ring') >= ReclaimLimit
       THEN \E min_epoch \in (FrontEpoch(ring') + 1 .. clock' + 1) \cup {OffState} :
                Reclaim(min_epoch)
       ELSE UNCHANGED frames
    /\ UNCHANGED <<pushed, exiting, runs>>

(* ~thread_data: reclaim_all. *)
Exit ==
    /\ frames = <<>> /\ ~exiting
    /\ WorkingEpochSize(ring) = 1
    /\ exiting' = TRUE
    /\ IF Empty(ring) THEN UNCHANGED frames ELSE Reclaim(OffState)
    /\ UNCHANGED <<ring, pushed, clock, runs>>
-----------------------------------------------------------------------------
(* do_first_epoch_callbacks, and the loops around it *)

Frame(from) == frames # <<>> /\ frames[1].pc = from

Front ==
    /\ Frame("front")
    /\ frames' = [frames EXCEPT ![1].pc = "loop",
                                ![1].cur_idx = ring.ring_begin + 1,
                                ![1].end = ring.ring_begin + ring.buffer[ring.ring_begin].size]
    /\ UNCHANGED <<ring, pushed, clock, exiting, runs>>

Call ==
    /\ Frame("loop")
    /\ frames[1].cur_idx # frames[1].end
    /\ frames' = [frames EXCEPT ![1].pc = "called"]
    /\ runs' = [runs EXCEPT ![Current] = @ + 1]
    /\ UNCHANGED <<ring, pushed, clock, exiting>>

Return ==
    /\ Frame("called")
    /\ WorkingEpochSize(ring) = 1
    /\ frames' = [frames EXCEPT ![1].pc = "loop", ![1].cur_idx = @ + 1]
    /\ UNCHANGED <<ring, pushed, clock, exiting, runs>>

Retire ==
    /\ Frame("loop")
    /\ frames[1].cur_idx = frames[1].end
    /\ ring' = [ring EXCEPT !.ring_begin = Wrap(ring, frames[1].cur_idx)]
    /\ frames' = [frames EXCEPT ![1].pc = "decide"]
    /\ UNCHANGED <<pushed, clock, exiting, runs>>

GoesOn == ~Empty(ring) /\ FrontEpoch(ring) < frames[1].min_epoch

Decide ==
    /\ Frame("decide")
    /\ frames' = IF GoesOn
                 THEN [frames EXCEPT ![1].pc = "front", ![1].cur_idx = 0, ![1].end = 0]
                 ELSE Tail(frames)
    /\ UNCHANGED <<ring, pushed, clock, exiting, runs>>
-----------------------------------------------------------------------------
Gone == exiting /\ frames = <<>>

Next ==
    \/ Push \/ Clear \/ Finalize \/ Exit
    \/ Front \/ Call \/ Return \/ Retire \/ Decide
    \/ Gone /\ UNCHANGED vars

Spec == Init /\ [][Next]_vars
-----------------------------------------------------------------------------
(* What holds *)

CallbacksOf(r, from, count) ==
    [k \in 1 .. count |-> r.buffer[Wrap(r, from + k - 1)].callback]

(* The working epoch begins so many elements behind the first one. *)
Finalized(r) == Wrap(r, r.epoch_begin - r.ring_begin)

(* The finalized epochs, from one header to the next. *)
Epochs(r) ==
    LET from[i \in 0 .. Finalized(r)] ==
            LET first == r.ring_begin + i
                h == r.buffer[Wrap(r, first)]
            IN  IF h.size \in 1 .. Finalized(r) - i
                THEN <<[epoch |-> h.epoch, callbacks |-> CallbacksOf(r, first + 1, h.size - 1)]>>
                     \o from[i + h.size]
                ELSE <<>>
    IN  from[0]

Busy == frames # <<>> /\ frames[1].pc \in {"loop", "called"}

(* The ring implements the queue, as long as no callback re-enters it:     *)
(* whatever wraps around and whenever it grows, callbacks run in the order *)
(* they were pushed in, once, with their epochs.                           *)
Queue == INSTANCE EpochQueue WITH
    EpochNumbers <- Callbacks \cup {0},
    working <- CallbacksOf(ring, ring.epoch_begin + 1, WorkingEpochSize(ring) - 1),
    epochs <- Epochs(ring),
    busy <- Busy,
    running <- IF ~Busy THEN <<>>
               ELSE LET called == IF frames[1].pc = "called" THEN 1 ELSE 0
                        from == frames[1].cur_idx + called
                    IN  CallbacksOf(ring, from, frames[1].end - from)

ImplementsQueue == Queue!Spec

(* back_epoch, which goes backwards by the size the last header keeps of   *)
(* the epoch before it, finds the epoch that was finalized last, and the   *)
(* assertion at the end of do_first_epoch_callbacks, that the next header  *)
(* knows the size of the epoch before it, does not fail.                   *)
HeadersLinked ==
    LET E == Epochs(ring)
        front == ring.buffer[ring.ring_begin]
    IN  E # <<>> =>
            /\ BackEpoch(ring) = E[Len(E)].epoch
            /\ ring.buffer[Wrap(ring, ring.ring_begin + front.size)].prev_size = front.size

(* A callback runs once: it destroys and frees an object. *)
RunsOnce == \A c \in Callbacks : runs[c] <= 1
=============================================================================
