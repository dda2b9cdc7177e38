------------------------------ MODULE TaskPool ------------------------------
(***************************************************************************)
(* What ThreadPool promises its callers: the tasks that submit accepted    *)
(* are started in that order, once each, by workers that run one at a      *)
(* time; from the moment it stops the pool accepts no task, and its        *)
(* destructor returns only when every task accepted has run.               *)
(*                                                                         *)
(* ThreadPool is shown to implement this module, and RaceControl is built  *)
(* on it.                                                                  *)
(***************************************************************************)
EXTENDS Sequences

CONSTANTS
    Tasks,      \* what can be submitted
    Workers,    \* the threads of the pool
    NoTask      \* what an idle worker runs

VARIABLES
    queued,     \* the tasks accepted and not started, oldest first
    running,    \* worker -> the task it runs
    phase       \* "open", "stopping" or "destroyed"

vars == <<queued, running, phase>>

Init == queued = <<>> /\ running = [w \in Workers |-> NoTask] /\ phase = "open"

Submit(t) ==
    /\ phase = "open"
    /\ queued' = Append(queued, t)
    /\ UNCHANGED <<running, phase>>

Start(w) ==
    /\ running[w] = NoTask /\ queued # <<>>
    /\ running' = [running EXCEPT ![w] = Head(queued)]
    /\ queued' = Tail(queued)
    /\ UNCHANGED phase

Finish(w) ==
    /\ running[w] # NoTask
    /\ running' = [running EXCEPT ![w] = NoTask]
    /\ UNCHANGED <<queued, phase>>

\* The destructor begins.
Stop ==
    /\ phase = "open"
    /\ phase' = "stopping"
    /\ UNCHANGED <<queued, running>>

\* The destructor returns.
Destroyed ==
    /\ phase = "stopping"
    /\ queued = <<>> /\ \A w \in Workers : running[w] = NoTask
    /\ phase' = "destroyed"
    /\ UNCHANGED <<queued, running>>

Next ==
    \/ \E t \in Tasks : Submit(t)
    \/ \E w \in Workers : Start(w) \/ Finish(w)
    \/ Stop \/ Destroyed

Spec == Init /\ [][Next]_vars
=============================================================================
