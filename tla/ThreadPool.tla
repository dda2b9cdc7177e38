----------------------------- MODULE ThreadPool -----------------------------
(***************************************************************************)
(* ThreadPool of concurrency/thread_pool.{h,cpp}: worker threads that take *)
(* tasks from one queue under a mutex and a condition variable, clients    *)
(* that submit tasks, and a destructor that stops and joins the workers.   *)
(*                                                                         *)
(* What a thread does with the mutex held is kept in separate steps where  *)
(* another thread's step could come between if the mutex were not: the     *)
(* predicate of the wait and the blocking, the check of stop_ and the      *)
(* emplace.  A waiting worker can also wake spuriously.                    *)
(***************************************************************************)
EXTENDS Naturals, Sequences, FiniteSets

CONSTANTS
    Workers,        \* the threads of the pool
    Clients,        \* the threads that call submit
    Owner,          \* the thread that destroys the pool
    Nobody,         \* no thread (the mutex is free), no task
    MaxSubmits      \* bound of the model: submits by each client

Threads == Workers \cup Clients \cup {Owner}

ASSUME ThreadsAssumption ==
    /\ Workers \cap Clients = {}
    /\ Owner \notin Workers \cup Clients
    /\ Nobody \notin Threads
    /\ Workers # {} /\ IsFiniteSet(Workers) /\ IsFiniteSet(Clients)

ASSUME SubmitsAssumption == MaxSubmits \in Nat

\* The task of the k-th submit by client c.
Tasks == Clients \X (1..MaxSubmits)

ASSUME NoTaskAssumption == Nobody \notin Tasks

VARIABLES
    mutex_,     \* the thread that holds the mutex
    tasks_,     \* the queue
    stop_,
    wpc,        \* worker -> where it is in worker_loop
    task,       \* worker -> the task it has taken
    cpc,        \* client -> where it is in submit
    submits,    \* client -> how many submits it has begun
    dtor,       \* where the destructor is
    done        \* history: the tasks that ran to their end (the future is ready)

workerVars == <<wpc, task, done>>
clientVars == <<cpc, submits>>
vars == <<mutex_, tasks_, stop_, workerVars, clientVars, dtor>>

\* The workers blocked in cv_.wait.
Waiting == {w \in Workers : wpc[w] = "wait"}

Init ==
    /\ mutex_ = Nobody /\ tasks_ = <<>> /\ stop_ = FALSE
    /\ wpc = [w \in Workers |-> "lock"]
    /\ task = [w \in Workers |-> Nobody]
    /\ cpc = [c \in Clients |-> "idle"]
    /\ submits = [c \in Clients |-> 0]
    /\ dtor = "alive" /\ done = {}

-----------------------------------------------------------------------------
(* worker_loop *)

\* Take the mutex: at the head of the loop, or to return from the wait.
WorkerLock(w) ==
    /\ wpc[w] = "lock" /\ mutex_ = Nobody
    /\ mutex_' = w
    /\ wpc' = [wpc EXCEPT ![w] = "check"]
    /\ UNCHANGED <<tasks_, stop_, task, done, clientVars, dtor>>

\* The predicate of the wait is false.  Its mutant forgets stop_.
NoTasks == tasks_ = <<>>
NothingYet == ~stop_ /\ tasks_ = <<>>

\* The worker is going to block.
WorkerMustWait(w) ==
    /\ wpc[w] = "check"
    /\ NothingYet
    /\ wpc' = [wpc EXCEPT ![w] = "block"]
    /\ UNCHANGED <<mutex_, tasks_, stop_, task, done, clientVars, dtor>>

\* The wait releases the mutex and blocks, in one step.
WorkerBlock(w) ==
    /\ wpc[w] = "block"
    /\ mutex_' = Nobody
    /\ wpc' = [wpc EXCEPT ![w] = "wait"]
    /\ UNCHANGED <<tasks_, stop_, task, done, clientVars, dtor>>

\* The wait ends though nobody notified.
SpuriousWakeup(w) ==
    /\ wpc[w] = "wait"
    /\ wpc' = [wpc EXCEPT ![w] = "lock"]
    /\ UNCHANGED <<mutex_, tasks_, stop_, task, done, clientVars, dtor>>

\* The pool is stopping and there is nothing left to do.  Its mutant leaves
\* the queue as it is.
Stopped == stop_
AllDone == stop_ /\ tasks_ = <<>>

WorkerExit(w) ==
    /\ wpc[w] = "check"
    /\ AllDone
    /\ mutex_' = Nobody
    /\ wpc' = [wpc EXCEPT ![w] = "exited"]
    /\ UNCHANGED <<tasks_, stop_, task, done, clientVars, dtor>>

\* Take the front task, stopping or not, and release the mutex.
WorkerDequeue(w) ==
    /\ wpc[w] = "check"
    /\ tasks_ # <<>>
    /\ task' = [task EXCEPT ![w] = Head(tasks_)]
    /\ tasks_' = Tail(tasks_)
    /\ mutex_' = Nobody
    /\ wpc' = [wpc EXCEPT ![w] = "run"]
    /\ UNCHANGED <<stop_, done, clientVars, dtor>>

\* The task ends, outside the mutex.  Whether it returned or threw, the
\* packaged_task stores the outcome in the future and the worker goes on.
WorkerRun(w) ==
    /\ wpc[w] = "run"
    /\ done' = done \cup {task[w]}
    /\ task' = [task EXCEPT ![w] = Nobody]
    /\ wpc' = [wpc EXCEPT ![w] = "lock"]
    /\ UNCHANGED <<mutex_, tasks_, stop_, clientVars, dtor>>

-----------------------------------------------------------------------------
(* submit *)

\* The task a client is submitting.  Its mutant is an empty function.
NoFunction(c) == Nobody
TaskOf(c) == <<c, submits[c]>>

\* Wrap the callable and take its future; the mutex comes next.  The pool
\* is there to be called until the destructor returns.
SubmitBegin(c) ==
    /\ cpc[c] = "idle"
    /\ submits[c] < MaxSubmits /\ dtor # "joined"
    /\ submits' = [submits EXCEPT ![c] = @ + 1]
    /\ cpc' = [cpc EXCEPT ![c] = "lock"]
    /\ UNCHANGED <<mutex_, tasks_, stop_, workerVars, dtor>>

SubmitLock(c) ==
    /\ cpc[c] = "lock" /\ mutex_ = Nobody
    /\ mutex_' = c
    /\ cpc' = [cpc EXCEPT ![c] = "check"]
    /\ UNCHANGED <<tasks_, stop_, submits, workerVars, dtor>>

\* throw std::runtime_error; the unique_lock releases the mutex.
SubmitThrow(c) ==
    /\ cpc[c] = "check"
    /\ stop_
    /\ mutex_' = Nobody
    /\ cpc' = [cpc EXCEPT ![c] = "idle"]
    /\ UNCHANGED <<tasks_, stop_, submits, workerVars, dtor>>

SubmitEmplace(c) ==
    /\ cpc[c] = "check"
    /\ ~stop_
    /\ tasks_' = Append(tasks_, TaskOf(c))
    /\ mutex_' = Nobody
    /\ cpc' = [cpc EXCEPT ![c] = "notify"]
    /\ UNCHANGED <<stop_, submits, workerVars, dtor>>

\* Mutant of NotifyOne: nobody is woken.
NotifyNone == UNCHANGED wpc

\* cv_.notify_one() wakes one of the waiting workers, if there is one.
NotifyOne ==
    wpc' \in IF Waiting = {} THEN {wpc}
             ELSE {[wpc EXCEPT ![w] = "lock"] : w \in Waiting}

SubmitNotify(c) ==
    /\ cpc[c] = "notify"
    /\ NotifyOne
    /\ cpc' = [cpc EXCEPT ![c] = "idle"]
    /\ UNCHANGED <<mutex_, tasks_, stop_, task, done, submits, dtor>>

-----------------------------------------------------------------------------
(* the destructor *)

DtorLock ==
    /\ dtor = "alive" /\ mutex_ = Nobody
    /\ mutex_' = Owner
    /\ dtor' = "locked"
    /\ UNCHANGED <<tasks_, stop_, workerVars, clientVars>>

DtorStop ==
    /\ dtor = "locked"
    /\ stop_' = TRUE
    /\ mutex_' = Nobody
    /\ dtor' = "notify"
    /\ UNCHANGED <<tasks_, workerVars, clientVars>>

DtorNotifyAll ==
    /\ dtor = "notify"
    /\ wpc' = [w \in Workers |-> IF w \in Waiting THEN "lock" ELSE wpc[w]]
    /\ dtor' = "join"
    /\ UNCHANGED <<mutex_, tasks_, stop_, task, done, clientVars>>

\* Every join has returned.
DtorJoin ==
    /\ dtor = "join"
    /\ \A w \in Workers : wpc[w] = "exited"
    /\ dtor' = "joined"
    /\ UNCHANGED <<mutex_, tasks_, stop_, workerVars, clientVars>>

-----------------------------------------------------------------------------

WorkerStep(w) ==
    \/ WorkerMustWait(w) \/ WorkerBlock(w) \/ WorkerExit(w)
    \/ WorkerDequeue(w) \/ WorkerRun(w)

ClientStep(c) == SubmitThrow(c) \/ SubmitEmplace(c) \/ SubmitNotify(c)

DtorStep == DtorStop \/ DtorNotifyAll \/ DtorJoin

Next ==
    \/ \E w \in Workers : WorkerLock(w) \/ WorkerStep(w) \/ SpuriousWakeup(w)
    \/ \E c \in Clients : SubmitBegin(c) \/ SubmitLock(c) \/ ClientStep(c)
    \/ DtorLock \/ DtorStep

Spec == Init /\ [][Next]_vars

\* Threads run, tasks end, and a thread that waits for a mutex that is
\* released again and again gets it in the end.  Nobody need submit, or
\* destroy the pool, and no wait need wake without a notification.
Fairness ==
    /\ \A w \in Workers : SF_vars(WorkerLock(w)) /\ WF_vars(WorkerStep(w))
    /\ \A c \in Clients : SF_vars(SubmitLock(c)) /\ WF_vars(ClientStep(c))
    /\ WF_vars(DtorStep)

FairSpec == Spec /\ Fairness

-----------------------------------------------------------------------------
(* Properties *)

\* Every variable has its type.
TypeOK ==
    /\ mutex_ \in Threads \cup {Nobody}
    /\ tasks_ \in Seq(Tasks)
    /\ stop_ \in BOOLEAN
    /\ wpc \in [Workers -> {"lock", "check", "block", "wait", "run", "exited"}]
    /\ task \in [Workers -> Tasks \cup {Nobody}]
    /\ cpc \in [Clients -> {"idle", "lock", "check", "notify"}]
    /\ submits \in [Clients -> 0..MaxSubmits]
    /\ dtor \in {"alive", "locked", "notify", "join", "joined"}
    /\ done \subseteq Tasks

Phase == IF dtor = "joined" THEN "destroyed" ELSE IF stop_ THEN "stopping" ELSE "open"

Abstract == INSTANCE TaskPool WITH
    NoTask <- Nobody, queued <- tasks_, running <- task, phase <- Phase

\* The pool is what its callers are promised: tasks are started in the order
\* in which submit accepted them, none after the pool has stopped is
\* accepted, and the destructor returns when all of them have run, so that no
\* future a client holds is left waiting for ever.
ImplementsPool == Abstract!Spec

\* No wakeup is lost.  While a worker sleeps, every queued task has a worker
\* of its own on the way to it, or a notification that is about to be sent
\* for it; no worker is about to sleep though the pool is stopping or a task
\* is queued; and none sleeps once the destructor has notified them all.
NoLostWakeup ==
    /\ Waiting # {} =>
          Len(tasks_) <= Cardinality({w \in Workers : wpc[w] \in {"lock", "check"}})
                         + Cardinality({c \in Clients : cpc[c] = "notify"})
    /\ \A w \in Workers : wpc[w] = "block" => ~stop_ /\ tasks_ = <<>>
    /\ dtor \in {"join", "joined"} => Waiting = {}

\* Every task accepted is run.
AcceptedAreRun ==
    \A t \in Tasks : (\E i \in DOMAIN tasks_ : tasks_[i] = t) ~> t \in done

\* A destructor that has the mutex returns: no worker is missed.
DtorReturns == dtor = "locked" ~> dtor = "joined"
=============================================================================
