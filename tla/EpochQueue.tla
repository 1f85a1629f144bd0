------------------------------ MODULE EpochQueue ------------------------------
(***************************************************************************)
(* What the quiescence buffer promises: a queue of epochs, each with the   *)
(* callbacks of one commit, and a working epoch that is not in the queue   *)
(* yet.  The callbacks of the first epoch run one after the other, in the  *)
(* order in which they were pushed; then the epoch leaves the queue.       *)
(* QuiescenceBuffer implements this module.                                *)
(***************************************************************************)
EXTENDS Naturals, Sequences

CONSTANTS Callbacks, EpochNumbers

VARIABLES working,  \* the callbacks of the working epoch
          epochs,   \* the finalized epochs, oldest first
          busy,     \* the callbacks of the first one are being run
          running   \* ... those that have not run yet

vars == <<working, epochs, busy, running>>

Init == working = <<>> /\ epochs = <<>> /\ ~busy /\ running = <<>>

Push(c) == working' = Append(working, c) /\ UNCHANGED <<epochs, busy, running>>

Clear == working' = <<>> /\ UNCHANGED <<epochs, busy, running>>

Finalize(e) ==
    /\ working # <<>>
    /\ epochs' = Append(epochs, [epoch |-> e, callbacks |-> working])
    /\ working' = <<>>
    /\ UNCHANGED <<busy, running>>

Front ==
    /\ epochs # <<>> /\ ~busy
    /\ busy' = TRUE
    /\ running' = Head(epochs).callbacks
    /\ UNCHANGED <<working, epochs>>

Run ==
    /\ running # <<>>
    /\ running' = Tail(running)
    /\ UNCHANGED <<working, epochs, busy>>

Retire ==
    /\ busy /\ running = <<>>
    /\ busy' = FALSE
    /\ epochs' = Tail(epochs)
    /\ UNCHANGED <<working, running>>

Next ==
    \/ \E c \in Callbacks : Push(c)
    \/ \E e \in EpochNumbers : Finalize(e)
    \/ Clear \/ Front \/ Run \/ Retire

Spec == Init /\ [][Next]_vars
=============================================================================
