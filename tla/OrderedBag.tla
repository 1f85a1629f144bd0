------------------------------ MODULE OrderedBag ------------------------------
(***************************************************************************)
(* What the red-black tree promises to the threads that share it, free of  *)
(* nodes, colors and transactions: a bag of keys, on which every call      *)
(* takes effect, or finds its answer, at one instant between its start and *)
(* its end.  An erasure that overlaps a clear may take effect just before  *)
(* it and return afterwards: then it takes a key that the clear has taken  *)
(* out, which nobody else takes.  SharedTree implements this module.       *)
(***************************************************************************)
EXTENDS Naturals

CONSTANTS Threads, Keys,
          Clears  \* names for the clears that calls have yet to outlive

VARIABLES contents,  \* how often each key is in the tree
          doing,     \* the call of each thread, and the answer it has found
          overtaken  \* what clears have taken out, and by whose erasures it
                     \* may have been erased just before

vars == <<contents, doing, overtaken>>

Idle == <<"idle", 0>>

Operations == {"emplace", "erase", "find"} \X Keys \cup {<<"clear", 0>>}

Init ==
    /\ contents \in [Keys -> Nat]
    /\ doing = [t \in Threads |-> Idle]
    /\ overtaken = {}

Call(t, c) ==
    /\ doing[t] = Idle
    /\ doing' = [doing EXCEPT ![t] = c]
    /\ UNCHANGED <<contents, overtaken>>

(* The answer of a call that changes nothing: erase_one of a key that is   *)
(* absent, find of any key.                                                *)
Answer(t, k, present) ==
    /\ doing[t] \in {<<"erase", k>>, <<"find", k>>}
    /\ present = (contents[k] > 0)
    /\ present => doing[t] = <<"find", k>>
    /\ doing' = [doing EXCEPT ![t] = <<"answer", present, doing[t]>>]
    /\ UNCHANGED <<contents, overtaken>>

Taken(bag, k) == [bag EXCEPT ![k] = @ - 1]

(* A thread's erasure is overtaken by nothing any more. *)
Leaves(t, clears) ==
    {c \in {[d EXCEPT !.by = @ \ {t}] : d \in clears} : c.by # {}}

(* The attempt of a call fails: it starts over, without its answer. *)
Forget(t) ==
    /\ doing' = [doing EXCEPT ![t] = IF @[1] = "answer" THEN @[3] ELSE @]
    /\ overtaken' = Leaves(t, overtaken)
    /\ UNCHANGED contents

Return(t) ==
    /\ \/ /\ doing[t][1] = "answer"
          /\ UNCHANGED contents
          /\ overtaken' = Leaves(t, overtaken)
       \/ \E k \in Keys :
              /\ doing[t] = <<"emplace", k>>
              /\ contents' = [contents EXCEPT ![k] = @ + 1]
              /\ overtaken' = Leaves(t, overtaken)
       \/ \E k \in Keys :
              /\ doing[t] = <<"erase", k>> /\ contents[k] > 0
              /\ contents' = Taken(contents, k)
              /\ overtaken' = Leaves(t, overtaken)
       \/ \E k \in Keys, c \in overtaken :
              /\ doing[t] = <<"erase", k>> /\ t \in c.by /\ c.left[k] > 0
              /\ UNCHANGED contents
              /\ overtaken' = Leaves(t, (overtaken \ {c}) \cup {[c EXCEPT !.left = Taken(@, k)]})
    /\ doing' = [doing EXCEPT ![t] = Idle]

(* What is being erased when the tree is cleared may have been erased just *)
(* before.                                                                 *)
Clear(t) ==
    /\ doing[t][1] = "clear"
    /\ contents' = [k \in Keys |-> 0]
    /\ doing' = [doing EXCEPT ![t] = Idle]
    /\ \E n \in Clears \ {c.name : c \in overtaken}, by \in SUBSET {u \in Threads : doing[u][1] = "erase"} :
           overtaken' = Leaves(t, overtaken \cup {[name |-> n, by |-> by, left |-> contents]})

Next ==
    \E t \in Threads :
        \/ Return(t) \/ Clear(t) \/ Forget(t)
        \/ \E c \in Operations : Call(t, c)
        \/ \E k \in Keys, present \in BOOLEAN : Answer(t, k, present)

Spec == Init /\ [][Next]_vars
=============================================================================
