-------------------------------- MODULE Fifo --------------------------------
(***************************************************************************)
(* What both queues of the simulator promise their callers: the items      *)
(* handed over so far, in the order in which the queue accepted them, and  *)
(* the items the consumer has been given, which are always the oldest ones *)
(* accepted.  Sizes says how many items the queue may hold.                *)
(*                                                                         *)
(* SpscQueue and MpscQueue are each shown to implement this module.        *)
(***************************************************************************)
EXTENDS Naturals, Sequences

CONSTANTS
    Items,      \* what can be put into the queue
    Sizes       \* how many items may be inside the queue

VARIABLES
    put,        \* every item accepted so far, oldest first
    got         \* every item handed to the consumer so far, oldest first

vars == <<put, got>>

Init == put = <<>> /\ got = <<>>

\* The queue accepts item v.
Put(v) ==
    /\ Len(put) + 1 - Len(got) \in Sizes
    /\ put' = Append(put, v)
    /\ UNCHANGED got

\* The consumer is given the oldest item it has not had yet.
Take ==
    /\ Len(got) < Len(put)
    /\ got' = Append(got, put[Len(got) + 1])
    /\ UNCHANGED put

Next == (\E v \in Items : Put(v)) \/ Take

Spec == Init /\ [][Next]_vars
=============================================================================
