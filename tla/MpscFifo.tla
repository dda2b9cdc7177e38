------------------------------ MODULE MpscFifo ------------------------------
(***************************************************************************)
(* What MpscQueue promises its callers, with the one thing Fifo leaves     *)
(* out: an item takes its place in the order before it can be taken.       *)
(* While the push of the next item is between the two, a pop is told that  *)
(* there is nothing, though later items may already be complete.           *)
(*                                                                         *)
(* MpscQueue is shown to implement this module, and the race control       *)
(* modules are built on it.                                                *)
(***************************************************************************)
EXTENDS Naturals, Sequences

CONSTANT Items      \* what can be put into the queue

VARIABLES
    put,            \* every item that has its place, oldest first
    got,            \* every item handed to the consumer so far, oldest first
    midflight       \* the positions in put whose push is not complete

vars == <<put, got, midflight>>

Init == put = <<>> /\ got = <<>> /\ midflight = {}

\* A push takes the next place for item v.
Exchange(v) ==
    /\ put' = Append(put, v)
    /\ midflight' = midflight \cup {Len(put) + 1}
    /\ UNCHANGED got

\* The push of the item at position i is complete.
Link(i) ==
    /\ i \in midflight
    /\ midflight' = midflight \ {i}
    /\ UNCHANGED <<put, got>>

\* The consumer is given the oldest item it has not had yet.
Take ==
    /\ Len(got) < Len(put)
    /\ Len(got) + 1 \notin midflight
    /\ got' = Append(got, put[Len(got) + 1])
    /\ UNCHANGED <<put, midflight>>

Next ==
    \/ \E v \in Items : Exchange(v)
    \/ \E i \in midflight : Link(i)
    \/ Take

Spec == Init /\ [][Next]_vars

\* Seen from outside it is an unbounded FIFO.
Unbounded == INSTANCE Fifo WITH Sizes <- Nat
=============================================================================
