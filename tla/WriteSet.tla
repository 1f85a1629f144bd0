-------------------------------- MODULE WriteSet --------------------------------
(***************************************************************************)
(* The write set of a thread, pod_hash_set over pod_vector, and what a     *)
(* commit does to the read set with it.  The filter is the set of bits of  *)
(* the variables that were pushed: two variables may share a bit.          *)
(***************************************************************************)
EXTENDS Naturals, SequencesExt

CONSTANTS
    Vars,
    Bit,        \* dumb_reference_hash: the bit of each variable
    start_size  \* pod_vector::start_size

ASSUME StartSizeAssumption == start_size \in Nat \ {0}

(* A vector keeps a slot to spare, the one at last_valid_address_. *)
EmptyWriteSet == [filter |-> {}, data |-> <<>>, capacity |-> start_size]

(* Mutant: the slot to spare is used up before the vector grows. *)
AllocatesWhenFull(s) == Len(s.data) = s.capacity

AllocatesOnNextPush(s) == Len(s.data) = s.capacity - 1

(* emplace_back: grows when the slot to spare is all that is left. *)
EmplaceBack(s, e) ==
    LET data == Append(s.data, e)
    IN  [s EXCEPT !.data = data, !.capacity = IF Len(data) > s.capacity - 1 THEN 2 * @ ELSE @]

UncheckedEmplaceBack(s, e) == [s EXCEPT !.data = Append(@, e)]

ClearSet(s) == [s EXCEPT !.filter = {}, !.data = <<>>]

ShrinkToFit(s) == [s EXCEPT !.capacity = Len(s.data) + 1]

(* push_back, and unchecked_push_back where the caller has checked. *)
PushBack(s, v, storage) ==
    LET e == [dest_var |-> v, pending_write |-> storage]
    IN  [(IF AllocatesOnNextPush(s) THEN EmplaceBack(s, e) ELSE UncheckedEmplaceBack(s, e))
             EXCEPT !.filter = @ \cup {Bit[v]}]

(* find and lookup: the position of a variable, 0 for none. *)
Find(s, v) ==
    IF Bit[v] \notin s.filter THEN 0
    ELSE SelectInSeq(s.data, LAMBDA e : e.dest_var = v)

PendingWrite(s, v) == s.data[Find(s, v)].pending_write

(* The last element takes the place of the one that is erased. *)
UnorderedErase(s, i) == Front([s EXCEPT ![i] = Last(s)])

(* Mutant: the walk starts at the front, and runs past what it erases. *)
RemoveFromFront(reads, s) ==
    FoldLeft(LAMBDA r, i : IF i <= Len(r) /\ Find(s, r[i]) # 0 THEN UnorderedErase(r, i) ELSE r,
             reads, [k \in 1 .. Len(reads) |-> k])

(* remove_writes_from_reads: the walk starts at the back, what takes the   *)
(* place of an erased read has been looked at.                             *)
RemoveWritesFromReads(reads, s) ==
    LET left[n \in 0 .. Len(reads)] ==
            IF n = 0 THEN reads
            ELSE LET i == Len(reads) + 1 - n
                 IN  IF Find(s, left[n - 1][i]) # 0 THEN UnorderedErase(left[n - 1], i)
                     ELSE left[n - 1]
    IN  left[Len(reads)]
=============================================================================
