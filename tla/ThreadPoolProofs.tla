-------------------------- MODULE ThreadPoolProofs --------------------------
(***************************************************************************)
(* For any workers, any clients and any number of submits, ThreadPool      *)
(* implements TaskPool: order of the starts, refusal once stopped, and a   *)
(* destructor that drains the queue.                                       *)
(***************************************************************************)
EXTENDS ThreadPool, FiniteSetTheorems, TLAPS

\* A worker is in a task just when it is running it.
RunsItsTask == \A w \in Workers : task[w] # Nobody <=> wpc[w] = "run"

\* A worker that has left its loop has left nothing behind, for good.
ExitsWhenDrained == \A w \in Workers : wpc[w] = "exited" => stop_ /\ tasks_ = <<>>

\* A client inside submit has a task to submit.
SubmitsItsTask == \A c \in Clients : cpc[c] # "idle" => submits[c] >= 1

\* Where the destructor is.
DtorInOrder ==
    /\ dtor \in {"notify", "join", "joined"} => stop_
    /\ dtor = "joined" => \A w \in Workers : wpc[w] = "exited"

IndInv == TypeOK /\ RunsItsTask /\ ExitsWhenDrained /\ SubmitsItsTask /\ DtorInOrder

-----------------------------------------------------------------------------

\* The pool starts in the inductive invariant.
LEMMA InitIndInv == Init => IndInv
<1> SUFFICES ASSUME Init PROVE IndInv
  OBVIOUS
<1>1. TypeOK
  <2>1. 0 \in 0..MaxSubmits /\ <<>> \in Seq(Tasks)
    BY SubmitsAssumption
  <2> QED
    BY <2>1 DEF Init, TypeOK, Threads
<1>2. RunsItsTask /\ ExitsWhenDrained /\ SubmitsItsTask /\ DtorInOrder
  BY DEF Init, RunsItsTask, ExitsWhenDrained, SubmitsItsTask, DtorInOrder
<1> QED
  BY <1>1, <1>2 DEF IndInv

\* The task of a client that is inside submit is a task.
LEMMA TaskOfIsTask ==
    ASSUME IndInv, NEW c \in Clients, cpc[c] # "idle"
    PROVE  TaskOf(c) \in Tasks
<1>1. submits[c] \in 1..MaxSubmits
  BY SubmitsAssumption DEF IndInv, TypeOK, SubmitsItsTask
<1> QED
  BY <1>1 DEF TaskOf, Tasks

\* Every step keeps every variable in its type.
LEMMA StepTypeOK ==
    ASSUME IndInv, [Next]_vars
    PROVE  TypeOK'
<1> USE DEF IndInv, TypeOK
<1>1. CASE UNCHANGED vars
  BY <1>1 DEF vars, workerVars, clientVars
<1>2. ASSUME NEW w \in Workers, WorkerLock(w) \/ WorkerStep(w) \/ SpuriousWakeup(w)
      PROVE  TypeOK'
  <2>1. CASE WorkerDequeue(w)
    BY <2>1 DEF WorkerDequeue, clientVars
  <2>2. CASE WorkerRun(w)
    BY <2>2 DEF WorkerRun, RunsItsTask, clientVars
  <2>3. CASE WorkerLock(w) \/ WorkerMustWait(w) \/ WorkerBlock(w) \/ WorkerExit(w)
             \/ SpuriousWakeup(w)
    BY <2>3 DEF WorkerLock, WorkerMustWait, WorkerBlock, WorkerExit, SpuriousWakeup,
                clientVars, Threads
  <2> QED
    BY <1>2, <2>1, <2>2, <2>3 DEF WorkerStep
<1>3. ASSUME NEW c \in Clients, SubmitBegin(c) \/ SubmitLock(c) \/ ClientStep(c)
      PROVE  TypeOK'
  <2>1. CASE SubmitBegin(c)
    BY <2>1, SubmitsAssumption DEF SubmitBegin, workerVars
  <2>2. CASE SubmitEmplace(c)
    <3>1. TaskOf(c) \in Tasks
      BY <2>2, TaskOfIsTask DEF SubmitEmplace
    <3> QED
      BY <2>2, <3>1 DEF SubmitEmplace, workerVars
  <2>3. CASE SubmitNotify(c)
    BY <2>3 DEF SubmitNotify, NotifyOne, Waiting
  <2>4. CASE SubmitLock(c) \/ SubmitThrow(c)
    BY <2>4 DEF SubmitLock, SubmitThrow, workerVars, Threads
  <2> QED
    BY <1>3, <2>1, <2>2, <2>3, <2>4 DEF ClientStep
<1>4. CASE DtorLock \/ DtorStep
  BY <1>4 DEF DtorLock, DtorStep, DtorStop, DtorNotifyAll, DtorJoin, workerVars, clientVars,
              Threads, Waiting
<1> QED
  BY <1>1, <1>2, <1>3, <1>4 DEF Next

\* Every step keeps the four facts about the threads.
LEMMA StepThreads ==
    ASSUME IndInv, [Next]_vars
    PROVE  RunsItsTask' /\ ExitsWhenDrained' /\ SubmitsItsTask' /\ DtorInOrder'
<1> USE DEF IndInv, TypeOK, RunsItsTask, ExitsWhenDrained, SubmitsItsTask, DtorInOrder
<1>1. CASE UNCHANGED vars
  BY <1>1 DEF vars, workerVars, clientVars
<1>2. ASSUME NEW w \in Workers, WorkerLock(w) \/ WorkerStep(w) \/ SpuriousWakeup(w)
      PROVE  RunsItsTask' /\ ExitsWhenDrained' /\ SubmitsItsTask' /\ DtorInOrder'
  <2>1. CASE WorkerDequeue(w)
    <3>1. Head(tasks_) \in Tasks /\ Head(tasks_) # Nobody
      BY <2>1, NoTaskAssumption DEF WorkerDequeue
    <3> QED
      BY <2>1, <3>1 DEF WorkerDequeue, clientVars
  <2>2. CASE WorkerExit(w)
    BY <2>2 DEF WorkerExit, AllDone, clientVars
  <2>3. CASE WorkerRun(w)
    BY <2>3 DEF WorkerRun, clientVars
  <2>4. CASE WorkerLock(w) \/ WorkerMustWait(w) \/ WorkerBlock(w) \/ SpuriousWakeup(w)
    BY <2>4 DEF WorkerLock, WorkerMustWait, WorkerBlock, SpuriousWakeup, clientVars
  <2> QED
    BY <1>2, <2>1, <2>2, <2>3, <2>4 DEF WorkerStep
<1>3. ASSUME NEW c \in Clients, SubmitBegin(c) \/ SubmitLock(c) \/ ClientStep(c)
      PROVE  RunsItsTask' /\ ExitsWhenDrained' /\ SubmitsItsTask' /\ DtorInOrder'
  <2>1. CASE SubmitBegin(c)
    BY <2>1, SubmitsAssumption DEF SubmitBegin, workerVars
  <2>2. CASE SubmitEmplace(c)
    BY <2>2 DEF SubmitEmplace, workerVars
  <2>3. CASE SubmitNotify(c)
    BY <2>3 DEF SubmitNotify, NotifyOne, Waiting
  <2>4. CASE SubmitLock(c) \/ SubmitThrow(c)
    BY <2>4 DEF SubmitLock, SubmitThrow, workerVars
  <2> QED
    BY <1>3, <2>1, <2>2, <2>3, <2>4 DEF ClientStep
<1>4. CASE DtorLock \/ DtorStep
  BY <1>4 DEF DtorLock, DtorStep, DtorStop, DtorNotifyAll, DtorJoin, workerVars, clientVars,
              Waiting
<1> QED
  BY <1>1, <1>2, <1>3, <1>4 DEF Next

\* The inductive invariant holds throughout.
THEOREM Invariance == Spec => []IndInv
<1>1. IndInv /\ [Next]_vars => IndInv'
  BY StepTypeOK, StepThreads DEF IndInv
<1> QED
  BY <1>1, InitIndInv, PTL DEF Spec

\* Every variable keeps its type.
THEOREM TypeCorrect == Spec => []TypeOK
<1>1. IndInv => TypeOK
  BY DEF IndInv
<1> QED
  BY <1>1, Invariance, PTL

-----------------------------------------------------------------------------

\* A step of the pool is a step of the abstract pool, or none: a dequeue
\* starts the oldest task, an emplace submits to an open pool, the last join
\* finds an empty queue and no worker in a task.
LEMMA StepRefines ==
    ASSUME IndInv, [Next]_vars
    PROVE  [Abstract!Next]_(Abstract!vars)
<1> USE DEF Abstract!Next, Abstract!vars
<1>1. CASE UNCHANGED vars
  BY <1>1 DEF vars, workerVars, clientVars, Phase
<1>2. ASSUME NEW w \in Workers, WorkerLock(w) \/ WorkerStep(w) \/ SpuriousWakeup(w)
      PROVE  [Abstract!Next]_(Abstract!vars)
  <2>1. CASE WorkerDequeue(w)
    <3>1. task[w] = Nobody
      BY <2>1 DEF WorkerDequeue, IndInv, RunsItsTask
    <3>2. Abstract!Start(w)
      BY <2>1, <3>1 DEF WorkerDequeue, Abstract!Start, Phase
    <3> QED
      BY <3>2
  <2>2. CASE WorkerRun(w)
    <3>1. task[w] # Nobody
      BY <2>2 DEF WorkerRun, IndInv, RunsItsTask
    <3>2. Abstract!Finish(w)
      BY <2>2, <3>1 DEF WorkerRun, Abstract!Finish, Phase
    <3> QED
      BY <3>2
  <2>3. CASE WorkerLock(w) \/ WorkerMustWait(w) \/ WorkerBlock(w) \/ WorkerExit(w)
             \/ SpuriousWakeup(w)
    BY <2>3 DEF WorkerLock, WorkerMustWait, WorkerBlock, WorkerExit, SpuriousWakeup, Phase
  <2> QED
    BY <1>2, <2>1, <2>2, <2>3 DEF WorkerStep
<1>3. ASSUME NEW c \in Clients, SubmitBegin(c) \/ SubmitLock(c) \/ ClientStep(c)
      PROVE  [Abstract!Next]_(Abstract!vars)
  <2>1. CASE SubmitEmplace(c)
    <3>1. TaskOf(c) \in Tasks
      BY <2>1, TaskOfIsTask DEF SubmitEmplace
    <3>2. Phase = "open"
      BY <2>1 DEF SubmitEmplace, IndInv, DtorInOrder, Phase
    <3>3. Abstract!Submit(TaskOf(c))
      BY <2>1, <3>2 DEF SubmitEmplace, Abstract!Submit, Phase, workerVars
    <3> QED
      BY <3>1, <3>3
  <2>2. CASE SubmitBegin(c) \/ SubmitLock(c) \/ SubmitThrow(c) \/ SubmitNotify(c)
    BY <2>2 DEF SubmitBegin, SubmitLock, SubmitThrow, SubmitNotify, Phase, workerVars
  <2> QED
    BY <1>3, <2>1, <2>2 DEF ClientStep
<1>4. CASE DtorLock
  BY <1>4 DEF DtorLock, Phase, workerVars
<1>5. CASE DtorStop
  <2>1. CASE stop_
    BY <1>5, <2>1 DEF DtorStop, Phase, workerVars
  <2>2. CASE ~stop_
    <3>1. Abstract!Stop
      BY <1>5, <2>2 DEF DtorStop, Abstract!Stop, Phase, workerVars
    <3> QED
      BY <3>1
  <2> QED
    BY <2>1, <2>2
<1>6. CASE DtorNotifyAll
  BY <1>6 DEF DtorNotifyAll, Phase
<1>7. CASE DtorJoin
  <2>1. PICK w \in Workers : wpc[w] = "exited"
    BY <1>7, ThreadsAssumption DEF DtorJoin
  <2>2. stop_ /\ tasks_ = <<>>
    BY <2>1 DEF IndInv, ExitsWhenDrained
  <2>3. \A v \in Workers : task[v] = Nobody
    BY <1>7 DEF DtorJoin, IndInv, RunsItsTask
  <2>4. Abstract!Destroyed
    BY <1>7, <2>2, <2>3 DEF DtorJoin, Abstract!Destroyed, Phase, workerVars
  <2> QED
    BY <2>4
<1> QED
  BY <1>1, <1>2, <1>3, <1>4, <1>5, <1>6, <1>7 DEF Next, DtorStep

\* The thread pool implements the abstract pool.
THEOREM Refinement == Spec => ImplementsPool
<1>1. Init => Abstract!Init
  BY DEF Init, Abstract!Init, Phase
<1>2. IndInv /\ [Next]_vars => [Abstract!Next]_(Abstract!vars)
  BY StepRefines
<1> QED
  BY <1>1, <1>2, Invariance, PTL DEF Spec, ImplementsPool, Abstract!Spec

-----------------------------------------------------------------------------
(* Wakeups *)

\* Who is between the lock and the release of the mutex holds it.
HoldsTheMutex ==
    /\ \A w \in Workers : wpc[w] \in {"check", "block"} => mutex_ = w
    /\ \A c \in Clients : cpc[c] = "check" => mutex_ = c
    /\ dtor = "locked" => mutex_ = Owner

\* The workers on their way to the queue, and the clients about to notify one.
Coming == {w \in Workers : wpc[w] \in {"lock", "check"}}
Notifying == {c \in Clients : cpc[c] = "notify"}

\* The three parts of NoLostWakeup.
EnoughAreComing ==
    Waiting # {} => Len(tasks_) <= Cardinality(Coming) + Cardinality(Notifying)
BlocksForAReason == \A w \in Workers : wpc[w] = "block" => ~stop_ /\ tasks_ = <<>>
NoneSleepsOn == dtor \in {"join", "joined"} => Waiting = {}

WakeInv == IndInv /\ HoldsTheMutex /\ EnoughAreComing /\ BlocksForAReason /\ NoneSleepsOn

LEMMA InitWakeInv == Init => WakeInv
BY InitIndInv DEF WakeInv, Init, HoldsTheMutex, EnoughAreComing, BlocksForAReason,
   NoneSleepsOn, Waiting

\* Only the holder gets on.
LEMMA StepMutex == ASSUME IndInv, HoldsTheMutex, [Next]_vars PROVE HoldsTheMutex'
<1> USE ThreadsAssumption DEF IndInv, TypeOK, HoldsTheMutex, Threads
<1>1. CASE UNCHANGED vars
  BY <1>1 DEF vars, workerVars, clientVars
<1>2. ASSUME NEW w \in Workers, WorkerLock(w) \/ WorkerStep(w) \/ SpuriousWakeup(w)
      PROVE  HoldsTheMutex'
  <2>1. CASE WorkerLock(w)
    BY <2>1 DEF WorkerLock, clientVars
  <2>2. CASE WorkerMustWait(w)
    BY <2>2 DEF WorkerMustWait, clientVars
  <2>3. CASE WorkerBlock(w)
    BY <2>3 DEF WorkerBlock, clientVars
  <2>4. CASE WorkerExit(w)
    BY <2>4 DEF WorkerExit, clientVars
  <2>5. CASE WorkerDequeue(w)
    BY <2>5 DEF WorkerDequeue, clientVars
  <2>6. CASE WorkerRun(w)
    BY <2>6 DEF WorkerRun, clientVars
  <2>7. CASE SpuriousWakeup(w)
    BY <2>7 DEF SpuriousWakeup, clientVars
  <2> QED
    BY <1>2, <2>1, <2>2, <2>3, <2>4, <2>5, <2>6, <2>7 DEF WorkerStep
<1>3. ASSUME NEW c \in Clients, SubmitBegin(c) \/ SubmitLock(c) \/ ClientStep(c)
      PROVE  HoldsTheMutex'
  <2>1. CASE SubmitBegin(c)
    BY <2>1 DEF SubmitBegin, workerVars
  <2>2. CASE SubmitLock(c)
    BY <2>2 DEF SubmitLock, workerVars
  <2>3. CASE SubmitThrow(c)
    BY <2>3 DEF SubmitThrow, workerVars
  <2>4. CASE SubmitEmplace(c)
    BY <2>4 DEF SubmitEmplace, workerVars
  <2>5. CASE SubmitNotify(c)
    BY <2>5 DEF SubmitNotify, NotifyOne, Waiting
  <2> QED
    BY <1>3, <2>1, <2>2, <2>3, <2>4, <2>5 DEF ClientStep
<1>4. CASE DtorLock
  BY <1>4 DEF DtorLock, workerVars, clientVars
<1>5. CASE DtorStep
  <2>1. CASE DtorStop
    BY <2>1 DEF DtorStop, workerVars, clientVars
  <2>2. CASE DtorNotifyAll
    BY <2>2 DEF DtorNotifyAll, Waiting, clientVars
  <2>3. CASE DtorJoin
    BY <2>3 DEF DtorJoin, workerVars, clientVars
  <2> QED
    BY <1>5, <2>1, <2>2, <2>3 DEF DtorStep
<1> QED
  BY <1>1, <1>2, <1>3, <1>4, <1>5 DEF Next

\* A worker that has found nothing to do holds the mutex until it sleeps, so
\* that nothing can be submitted, and nobody can stop the pool, meanwhile.
LEMMA StepBlocks == ASSUME WakeInv, [Next]_vars PROVE BlocksForAReason'
<1> SUFFICES ASSUME NEW v \in Workers, wpc'[v] = "block" PROVE ~stop_' /\ tasks_' = <<>>
  BY DEF BlocksForAReason
<1> USE DEF WakeInv, BlocksForAReason, HoldsTheMutex
<1>1. wpc \in [Workers -> {"lock", "check", "block", "wait", "run", "exited"}]
  BY DEF IndInv, TypeOK
<1>2. CASE UNCHANGED vars
  BY <1>2 DEF vars, workerVars
<1>3. ASSUME NEW w \in Workers, WorkerLock(w) \/ WorkerStep(w) \/ SpuriousWakeup(w)
      PROVE  ~stop_' /\ tasks_' = <<>>
  <2>1. CASE WorkerMustWait(w)
    BY <2>1 DEF WorkerMustWait, NothingYet
  <2>2. CASE WorkerDequeue(w)
    <3>1. v # w /\ wpc[v] = "block"
      BY <1>1, <2>2 DEF WorkerDequeue
    <3>2. mutex_ = v /\ mutex_ = w
      BY <2>2, <3>1 DEF WorkerDequeue
    <3> QED
      BY <3>1, <3>2
  <2>3. CASE WorkerLock(w) \/ WorkerBlock(w) \/ WorkerExit(w) \/ WorkerRun(w)
             \/ SpuriousWakeup(w)
    <3>1. wpc[v] = "block" /\ UNCHANGED <<stop_, tasks_>>
      BY <1>1, <2>3 DEF WorkerLock, WorkerBlock, WorkerExit, WorkerRun, SpuriousWakeup
    <3> QED
      BY <3>1
  <2> QED
    BY <1>3, <2>1, <2>2, <2>3 DEF WorkerStep
<1>4. ASSUME NEW c \in Clients, SubmitBegin(c) \/ SubmitLock(c) \/ ClientStep(c)
      PROVE  ~stop_' /\ tasks_' = <<>>
  <2>1. wpc[v] = "block"
    BY <1>1, <1>4 DEF SubmitBegin, SubmitLock, ClientStep, SubmitThrow, SubmitEmplace,
                      SubmitNotify, NotifyOne, Waiting, workerVars
  <2>2. c # v
    BY ThreadsAssumption
  <2>3. UNCHANGED <<stop_, tasks_>>
    BY <1>4, <2>1, <2>2 DEF SubmitBegin, SubmitLock, ClientStep, SubmitThrow, SubmitEmplace,
                            SubmitNotify
  <2> QED
    BY <2>1, <2>3
<1>5. CASE DtorLock \/ DtorStep
  <2>1. wpc[v] = "block"
    BY <1>1, <1>5 DEF DtorLock, DtorStep, DtorStop, DtorNotifyAll, DtorJoin, Waiting, workerVars
  <2>2. Owner # v
    BY ThreadsAssumption
  <2>3. UNCHANGED <<stop_, tasks_>>
    BY <1>5, <2>1, <2>2 DEF DtorLock, DtorStep, DtorStop, DtorNotifyAll, DtorJoin
  <2> QED
    BY <2>1, <2>3
<1> QED
  BY <1>2, <1>3, <1>4, <1>5 DEF Next

\* When the destructor has notified them all, nobody goes to sleep again.
LEMMA StepSleeps == ASSUME WakeInv, [Next]_vars PROVE NoneSleepsOn'
<1> SUFFICES ASSUME dtor' \in {"join", "joined"}, NEW v \in Workers, wpc'[v] = "wait"
             PROVE  FALSE
  BY DEF NoneSleepsOn, Waiting
<1> USE DEF WakeInv
<1>1. wpc \in [Workers -> {"lock", "check", "block", "wait", "run", "exited"}]
  BY DEF IndInv, TypeOK
<1>2. dtor \in {"join", "joined"} => wpc[v] # "wait" /\ stop_
  BY DEF NoneSleepsOn, Waiting, IndInv, DtorInOrder
<1>3. wpc[v] = "block" => ~stop_
  BY DEF BlocksForAReason
<1>4. CASE UNCHANGED vars
  BY <1>2, <1>4 DEF vars, workerVars
<1>5. ASSUME NEW w \in Workers, WorkerLock(w) \/ WorkerStep(w) \/ SpuriousWakeup(w)
      PROVE  FALSE
  <2>1. dtor \in {"join", "joined"}
    BY <1>5 DEF WorkerLock, WorkerStep, WorkerMustWait, WorkerBlock, WorkerExit,
                WorkerDequeue, WorkerRun, SpuriousWakeup
  <2>2. wpc[v] = "wait" \/ wpc[v] = "block"
    BY <1>1, <1>5 DEF WorkerLock, WorkerStep, WorkerMustWait, WorkerBlock, WorkerExit,
                      WorkerDequeue, WorkerRun, SpuriousWakeup
  <2> QED
    BY <1>2, <1>3, <2>1, <2>2
<1>6. ASSUME NEW c \in Clients, SubmitBegin(c) \/ SubmitLock(c) \/ ClientStep(c)
      PROVE  FALSE
  <2>1. dtor \in {"join", "joined"} /\ wpc[v] = "wait"
    BY <1>1, <1>6 DEF SubmitBegin, SubmitLock, ClientStep, SubmitThrow, SubmitEmplace,
                      SubmitNotify, NotifyOne, Waiting, workerVars
  <2> QED
    BY <1>2, <2>1
<1>7. CASE DtorLock \/ DtorStop \/ DtorJoin
  BY <1>2, <1>7 DEF DtorLock, DtorStop, DtorJoin, workerVars
<1>8. CASE DtorNotifyAll
  BY <1>1, <1>8 DEF DtorNotifyAll, Waiting
<1> QED
  BY <1>4, <1>5, <1>6, <1>7, <1>8 DEF Next, DtorStep

\* There are finitely many of each.
LEMMA CountsAreNumbers ==
    /\ IsFiniteSet(Coming) /\ IsFiniteSet(Notifying)
    /\ Cardinality(Coming) \in Nat /\ Cardinality(Notifying) \in Nat
<1>1. IsFiniteSet(Coming) /\ IsFiniteSet(Notifying)
  <2>1. Coming \in SUBSET Workers /\ Notifying \in SUBSET Clients
    BY DEF Coming, Notifying
  <2>2. IsFiniteSet(Workers) /\ IsFiniteSet(Clients)
    BY ThreadsAssumption
  <2> QED
    BY <2>1, <2>2, FS_Subset
<1> QED
  BY <1>1, FS_CardinalityType

\* The same after a step.
LEMMA CountsStayNumbers ==
    /\ IsFiniteSet(Coming') /\ IsFiniteSet(Notifying')
    /\ Cardinality(Coming') \in Nat /\ Cardinality(Notifying') \in Nat
<1>1. IsFiniteSet(Coming') /\ IsFiniteSet(Notifying')
  <2>1. Coming' \in SUBSET Workers /\ Notifying' \in SUBSET Clients
    BY DEF Coming, Notifying
  <2>2. IsFiniteSet(Workers) /\ IsFiniteSet(Clients)
    BY ThreadsAssumption
  <2> QED
    BY <2>1, <2>2, FS_Subset
<1> QED
  BY <1>1, FS_CardinalityType

\* A step after which as many or more are coming for the same tasks.
LEMMA NoFewerCome ==
    ASSUME EnoughAreComing, IndInv, tasks_' = tasks_, Waiting' # {} => Waiting # {},
           Cardinality(Coming') + Cardinality(Notifying')
               >= Cardinality(Coming) + Cardinality(Notifying)
    PROVE  EnoughAreComing'
<1>1. Len(tasks_) \in Nat
  BY DEF IndInv, TypeOK
<1> QED
  BY <1>1, CountsAreNumbers, CountsStayNumbers DEF EnoughAreComing

\* With no task queued nobody need come.
LEMMA NothingToComeFor == ASSUME tasks_' = <<>> PROVE EnoughAreComing'
<1>1. Len(tasks_') = 0
  OBVIOUS
<1> QED
  BY <1>1, CountsStayNumbers DEF EnoughAreComing

LEMMA StepEnough == ASSUME WakeInv, [Next]_vars PROVE EnoughAreComing'
<1> USE DEF WakeInv
<1>1. /\ wpc \in [Workers -> {"lock", "check", "block", "wait", "run", "exited"}]
      /\ cpc \in [Clients -> {"idle", "lock", "check", "notify"}]
      /\ tasks_ \in Seq(Tasks) /\ Len(tasks_) \in Nat
  BY DEF IndInv, TypeOK
<1>2. ASSUME UNCHANGED tasks_, Waiting' = Waiting, Coming' = Coming, Notifying' = Notifying
      PROVE  EnoughAreComing'
  BY <1>2, NoFewerCome, CountsAreNumbers
<1>3. CASE UNCHANGED vars
  BY <1>2, <1>3 DEF vars, workerVars, clientVars, Waiting, Coming, Notifying
<1>4. ASSUME NEW w \in Workers, WorkerLock(w) \/ WorkerStep(w) \/ SpuriousWakeup(w)
      PROVE  EnoughAreComing'
  <2>1. CASE WorkerLock(w)
    <3>1. Waiting' = Waiting /\ Coming' = Coming /\ Notifying' = Notifying
      BY <1>1, <2>1 DEF WorkerLock, clientVars, Waiting, Coming, Notifying
    <3> QED
      BY <1>2, <2>1, <3>1 DEF WorkerLock
  <2>2. CASE WorkerMustWait(w) \/ WorkerBlock(w) \/ WorkerExit(w)
    <3>1. tasks_' = <<>>
      BY <2>2 DEF WorkerMustWait, WorkerBlock, WorkerExit, NothingYet, AllDone, BlocksForAReason
    <3> QED
      BY <3>1, NothingToComeFor
  <2>3. CASE WorkerDequeue(w)
    <3>1. /\ Waiting' = Waiting /\ Coming' = Coming \ {w} /\ w \in Coming
          /\ Notifying' = Notifying
      BY <1>1, <2>3 DEF WorkerDequeue, clientVars, Waiting, Coming, Notifying
    <3>2. Cardinality(Coming') = Cardinality(Coming) - 1
      BY <3>1, CountsAreNumbers, FS_RemoveElement
    <3>3. Len(tasks_') = Len(tasks_) - 1
      BY <1>1, <2>3 DEF WorkerDequeue
    <3> QED
      BY <1>1, <3>1, <3>2, <3>3, CountsAreNumbers DEF EnoughAreComing
  <2>4. CASE WorkerRun(w) \/ SpuriousWakeup(w)
    <3>1. /\ Waiting' \subseteq Waiting /\ Coming' = Coming \cup {w} /\ w \notin Coming
          /\ Notifying' = Notifying /\ tasks_' = tasks_
      BY <1>1, <2>4 DEF WorkerRun, SpuriousWakeup, clientVars, Waiting, Coming, Notifying
    <3>2. Cardinality(Coming') = Cardinality(Coming) + 1
      BY <3>1, CountsAreNumbers, FS_AddElement
    <3>3. Cardinality(Coming') + Cardinality(Notifying')
              >= Cardinality(Coming) + Cardinality(Notifying)
      BY <3>1, <3>2, CountsAreNumbers
    <3> QED
      BY <3>1, <3>3, NoFewerCome
  <2> QED
    BY <1>4, <2>1, <2>2, <2>3, <2>4 DEF WorkerStep
<1>5. ASSUME NEW c \in Clients, SubmitBegin(c) \/ SubmitLock(c) \/ ClientStep(c)
      PROVE  EnoughAreComing'
  <2>1. CASE SubmitBegin(c) \/ SubmitLock(c) \/ SubmitThrow(c)
    <3>1. /\ Waiting' = Waiting /\ Coming' = Coming /\ Notifying' = Notifying
          /\ tasks_' = tasks_
      BY <1>1, <2>1 DEF SubmitBegin, SubmitLock, SubmitThrow, workerVars, Waiting, Coming,
                        Notifying
    <3> QED
      BY <1>2, <3>1
  <2>2. CASE SubmitEmplace(c)
    <3>1. /\ Waiting' = Waiting /\ Coming' = Coming /\ c \notin Notifying
          /\ Notifying' = Notifying \cup {c}
      BY <1>1, <2>2 DEF SubmitEmplace, workerVars, Waiting, Coming, Notifying
    <3>2. Cardinality(Notifying') = Cardinality(Notifying) + 1
      BY <3>1, CountsAreNumbers, FS_AddElement
    <3>3. Len(tasks_') = Len(tasks_) + 1
      <4>1. TaskOf(c) \in Tasks
        BY <2>2, TaskOfIsTask DEF SubmitEmplace
      <4> QED
        BY <1>1, <2>2, <4>1 DEF SubmitEmplace
    <3> QED
      BY <1>1, <3>1, <3>2, <3>3, CountsAreNumbers DEF EnoughAreComing
  <2>3. CASE SubmitNotify(c) /\ Waiting = {}
    <3>1. Waiting' = {}
      BY <2>3 DEF SubmitNotify, NotifyOne, Waiting
    <3> QED
      BY <3>1 DEF EnoughAreComing
  <2>4. CASE SubmitNotify(c) /\ Waiting # {}
    <3>1. PICK v \in Waiting : wpc' = [wpc EXCEPT ![v] = "lock"]
      BY <2>4 DEF SubmitNotify, NotifyOne
    <3>2. /\ Coming' = Coming \cup {v} /\ v \notin Coming /\ c \in Notifying
          /\ Notifying' = Notifying \ {c} /\ tasks_' = tasks_
      BY <1>1, <2>4, <3>1 DEF SubmitNotify, Waiting, Coming, Notifying
    <3>3. Cardinality(Coming') = Cardinality(Coming) + 1
      BY <3>2, CountsAreNumbers, FS_AddElement
    <3>4. Cardinality(Notifying') = Cardinality(Notifying) - 1
      BY <3>2, CountsAreNumbers, FS_RemoveElement
    <3>5. Cardinality(Coming') + Cardinality(Notifying')
              >= Cardinality(Coming) + Cardinality(Notifying)
      BY <3>3, <3>4, CountsAreNumbers
    <3> QED
      BY <2>4, <3>2, <3>5, NoFewerCome
  <2> QED
    BY <1>5, <2>1, <2>2, <2>3, <2>4 DEF ClientStep
<1>6. CASE DtorLock \/ DtorStop \/ DtorJoin
  <2>1. /\ Waiting' = Waiting /\ Coming' = Coming /\ Notifying' = Notifying
        /\ tasks_' = tasks_
    BY <1>6 DEF DtorLock, DtorStop, DtorJoin, workerVars, clientVars, Waiting, Coming, Notifying
  <2> QED
    BY <1>2, <2>1
<1>7. CASE DtorNotifyAll
  <2>1. Waiting' = {}
    BY <1>7 DEF DtorNotifyAll, Waiting
  <2> QED
    BY <2>1 DEF EnoughAreComing
<1> QED
  BY <1>3, <1>4, <1>5, <1>6, <1>7 DEF Next, DtorStep

\* No wakeup is lost, for any number of workers and clients, wherever between
\* its predicate and its sleep a worker is overtaken.
THEOREM WakeupsArrive == Spec => []NoLostWakeup
<1>1. WakeInv /\ [Next]_vars => WakeInv'
  <2> SUFFICES ASSUME WakeInv, [Next]_vars PROVE WakeInv'
    OBVIOUS
  <2>1. IndInv'
    BY StepTypeOK, StepThreads DEF WakeInv, IndInv
  <2> QED
    BY <2>1, StepMutex, StepBlocks, StepSleeps, StepEnough DEF WakeInv
<1>2. WakeInv => NoLostWakeup
  BY DEF WakeInv, EnoughAreComing, BlocksForAReason, NoneSleepsOn, NoLostWakeup, Coming,
         Notifying
<1> QED
  BY <1>1, <1>2, InitWakeInv, PTL DEF Spec
=============================================================================
