------------------------------- MODULE Board --------------------------------
(***************************************************************************)
(* What Leaderboard promises its callers: the first thread to update it    *)
(* owns it for good, its updates take effect in their order, one at a time *)
(* and whole, and a reader is given the standings of one moment between    *)
(* its call and its return.                                                *)
(*                                                                         *)
(* Leaderboard is shown to implement this module.                          *)
(***************************************************************************)
EXTENDS Naturals

CONSTANTS
    Writers,    \* threads that may update
    Readers,    \* threads that look
    Nobody,     \* no owner
    Numbers,    \* the numbers of the updates of a writer
    NoView      \* what a reader has that is inside a call

VARIABLES
    writer,     \* the owner
    value,      \* the standings: whose update they are, and its number
    view        \* reader -> the standings it was given last

vars == <<writer, value, view>>

Init ==
    /\ writer = Nobody /\ value = <<Nobody, 0>>
    /\ view = [r \in Readers |-> NoView]

Claim(w) ==
    /\ writer = Nobody
    /\ writer' = w
    /\ UNCHANGED <<value, view>>

\* The owner's update number n.
Publish(w, n) ==
    /\ writer = w
    /\ n > value[2]
    /\ value' = <<w, n>>
    /\ UNCHANGED <<writer, view>>

Call(r) ==
    /\ view' = [view EXCEPT ![r] = NoView]
    /\ UNCHANGED <<writer, value>>

Look(r) ==
    /\ view[r] = NoView
    /\ view' = [view EXCEPT ![r] = value]
    /\ UNCHANGED <<writer, value>>

Next ==
    \/ \E w \in Writers : Claim(w) \/ \E n \in Numbers : Publish(w, n)
    \/ \E r \in Readers : Call(r) \/ Look(r)

Spec == Init /\ [][Next]_vars
=============================================================================
