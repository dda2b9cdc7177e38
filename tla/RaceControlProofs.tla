-------------------------- MODULE RaceControlProofs -------------------------
(***************************************************************************)
(* For any grid, workers, periods and length of the race: at most one call *)
(* of each job is in flight, the weather changes announced are the changes *)
(* there have been, and only calls in flight at the last process_events,   *)
(* or what is queued behind them, can be missing from the report.          *)
(***************************************************************************)
EXTENDS RaceControl, FiniteSetTheorems, TLAPS

Points == {"idle", "check", "gate", "read", "write", "push", "link"}
Changes == [lap : Nat, to : WeatherStates]

\* Types of the variables that the proofs need.
Types ==
    /\ lap \in 1..MaxLap /\ inPit \subseteq Drivers
    /\ future \in [Jobs -> {"invalid", "pending", "ready"}]
    /\ queued \in Seq(Task) /\ running \in [Workers -> Task \cup {NoTask}]
    /\ wpc \in [Workers -> Points] /\ at \in [Workers -> Nat \ {0}]
    /\ state_ \in WeatherStates /\ new_state \in [Workers -> WeatherStates]
    /\ last_update_lap_ \in Nat /\ changes \in Seq(Changes)

\* A worker is at a point of the task it runs.
AtItsTask ==
    \A w \in Workers :
        /\ wpc[w] = "idle" <=> running[w] = NoTask
        /\ wpc[w] = "check" => running[w].job = "track_limits"
        /\ wpc[w] \in {"gate", "read", "write", "push"} => running[w].job = "weather"

\* Where in the queue of the pool, and at which workers, a job is.
Waits(job) == {i \in DOMAIN queued : queued[i].job = job}
Runs(job) == {w \in Workers : running[w] # NoTask /\ running[w].job = job}

\* A call that is pending is in one place of the two, any other in none.
OneCall ==
    \A j \in Jobs :
        IF future[j] = "pending"
        THEN \/ Runs(j) = {} /\ \E i \in DOMAIN queued : Waits(j) = {i}
             \/ Waits(j) = {} /\ \E w \in Workers : Runs(j) = {w}
        ELSE Waits(j) = {} /\ Runs(j) = {}

\* The last change announced.
LastChange == IF changes = <<>> THEN [lap |-> 0, to |-> "DRY"] ELSE changes[Len(changes)]

\* Where a worker is from the decision to change the weather to its push.
Changing == {"read", "write", "push"}

\* What the worker in update has in hand goes one step beyond the last change
\* announced, and the weather is behind it only between its two steps.
ChangeInHand ==
    /\ LastChange.lap <= last_update_lap_
    /\ \A w \in Workers :
          /\ wpc[w] \in Changing =>
                running[w].lap = last_update_lap_
                /\ LastChange.lap + WeatherLaps <= last_update_lap_
          /\ wpc[w] \in {"write", "push"} => new_state[w] = Following[LastChange.to]
          /\ wpc[w] = "push" => state_ = new_state[w]
    /\ (\A w \in Workers : wpc[w] # "push") => state_ = LastChange.to

\* The changes announced follow the cycle, far enough apart.
InCycle ==
    \A i \in DOMAIN changes :
        LET before == IF i = 1 THEN [lap |-> 0, to |-> "DRY"] ELSE changes[i - 1] IN
        /\ changes[i].to = Following[before.to]
        /\ changes[i].lap >= before.lap + WeatherLaps

\* Types of the queue and of the call of process_events.
QueueTypes ==
    /\ put \in Seq(Enforcer!Events) /\ Len(got) \in Nat /\ Len(got) <= Len(put)
    /\ seen \subseteq DOMAIN put /\ announced \subseteq DOMAIN put
    /\ idx \in Enforcer!Ids
    /\ gpc = "enforcing" <=> pc # "idle"

\* The pops have given up before a place whose link they could miss.
GaveUp ==
    gpc \in {"loop", "exited"} \/ (gpc = "enforcing" /\ pc # "drain") =>
        Len(got) + 1 \notin (seen \cup Enforcer!Own) \ announced

\* The inductive invariant: of the tasks, of the weather, of the queue.
TaskInv == Types /\ AtItsTask /\ OneCall
WeatherInv == ChangeInHand /\ InCycle
QueueInv == QueueTypes /\ GaveUp
IndInv == TaskInv /\ WeatherInv /\ QueueInv

-----------------------------------------------------------------------------
(* The queue and process_events *)

LEMMA InitQueue == Init => QueueInv
<1> SUFFICES ASSUME Init PROVE QueueInv
  OBVIOUS
<1>1. /\ put = <<>> /\ got = <<>> /\ pc = "idle" /\ announced = {} /\ seen = {}
      /\ gpc = "loop" /\ idx = NoId
  BY DEF Init, Enforcer!Init, Enforcer!Queue!Init
<1>2. QueueTypes
  BY <1>1 DEF QueueTypes, Enforcer!Ids
<1>3. GaveUp
  BY <1>1 DEF GaveUp, Enforcer!Own
<1> QED
  BY <1>2, <1>3 DEF QueueInv

\* Steps that leave the queue and process_events alone.
LEMMA QueueKept ==
    ASSUME QueueInv, UNCHANGED <<put, got, seen, announced, pc, idx>>,
           gpc' \in {"loop", "exited"} => gpc \in {"loop", "exited"},
           gpc' = "enforcing" <=> gpc = "enforcing"
    PROVE  QueueInv'
BY DEF QueueInv, QueueTypes, GaveUp, Enforcer!Own

\* A place is taken in the queue, by a worker or by process_events itself.
LEMMA PlaceTaken ==
    ASSUME QueueInv, NEW e \in Enforcer!Events, Enforcer!Queue!Exchange(e)
    PROVE  /\ put' \in Seq(Enforcer!Events) /\ got' = got
           /\ Len(put) \in Nat /\ Len(put') = Len(put) + 1
           /\ DOMAIN put = 1..Len(put) /\ DOMAIN put' = 1..(Len(put) + 1)
           /\ Enforcer!Own' \subseteq Enforcer!Own \cup {Len(put) + 1}
           /\ e.type # "PENALTY_ISSUED" => Enforcer!Own' = Enforcer!Own
<1>1. put' = Append(put, e) /\ got' = got
  BY DEF Enforcer!Queue!Exchange
<1>2. put \in Seq(Enforcer!Events) /\ Len(put) \in Nat /\ DOMAIN put = 1..Len(put)
  BY DEF QueueInv, QueueTypes
<1>3. /\ put' \in Seq(Enforcer!Events) /\ Len(put') = Len(put) + 1
      /\ DOMAIN put' = 1..(Len(put) + 1) /\ put'[Len(put) + 1] = e
      /\ \A i \in 1..Len(put) : put'[i] = put[i]
  BY <1>1, <1>2
<1>4. Enforcer!Own' \subseteq Enforcer!Own \cup {Len(put) + 1}
  BY <1>2, <1>3 DEF Enforcer!Own
<1>5. ASSUME e.type # "PENALTY_ISSUED" PROVE Enforcer!Own' = Enforcer!Own
  <2>1. ASSUME NEW i \in Enforcer!Own PROVE i \in Enforcer!Own'
    BY <1>2, <1>3 DEF Enforcer!Own
  <2>2. ASSUME NEW i \in Enforcer!Own' PROVE i \in Enforcer!Own
    BY <1>2, <1>3, <1>5 DEF Enforcer!Own
  <2> QED
    BY <2>1, <2>2
<1> QED
  BY <1>1, <1>2, <1>3, <1>4, <1>5

\* The push of a worker: what the pops could miss stays missed.
LEMMA WorkerPushQueue ==
    ASSUME QueueInv, NEW e \in Enforcer!Events, e.type # "PENALTY_ISSUED",
           Enforcer!Queue!Exchange(e), UNCHANGED <<seen, announced, pc, idx, gpc>>
    PROVE  QueueInv'
<1>1. /\ put' \in Seq(Enforcer!Events) /\ got' = got
      /\ Len(put) \in Nat /\ Len(put') = Len(put) + 1
      /\ DOMAIN put = 1..Len(put) /\ DOMAIN put' = 1..(Len(put) + 1)
      /\ Enforcer!Own' = Enforcer!Own
  BY PlaceTaken
<1>2. QueueTypes'
  <2>1. DOMAIN put \subseteq DOMAIN put' /\ Len(got) <= Len(put')
    BY <1>1 DEF QueueInv, QueueTypes
  <2> QED
    BY <1>1, <2>1 DEF QueueInv, QueueTypes
<1>3. GaveUp'
  BY <1>1 DEF QueueInv, GaveUp
<1> QED
  BY <1>2, <1>3 DEF QueueInv

LEMMA ResubmitQueue ==
    ASSUME QueueInv, NEW due \in BOOLEAN, NEW task \in Task, Resubmit(due, task),
           gpc \in {"track_limits", "weather"}, gpc' \in {"weather", "enforce"},
           UNCHANGED <<put, got, announced, pc, idx>>
    PROVE  QueueInv'
<1>1. seen' \subseteq DOMAIN put
  BY DEF Resubmit, PushedBy, poolVars, QueueInv, QueueTypes
<1>2. QueueTypes'
  BY <1>1 DEF QueueInv, QueueTypes
<1>3. GaveUp'
  BY DEF GaveUp
<1> QED
  BY <1>2, <1>3 DEF QueueInv

LEMMA EnforceQueue == QueueInv /\ Enforce => QueueInv'
<1> SUFFICES ASSUME QueueInv, Enforce PROVE QueueInv'
  OBVIOUS
<1>1. /\ gpc' = "enforcing" /\ pc' = "drain" /\ announced' = {}
      /\ put' = put /\ got' = got /\ seen' = seen /\ idx' = idx
  BY DEF Enforce, Enforcer!ProcessEvents, Enforcer!queueVars, poolVars
<1> QED
  BY <1>1 DEF QueueInv, QueueTypes, GaveUp

\* A step of process_events after its pops that pushes nothing.
LEMMA ProcessQueue ==
    ASSUME QueueInv, gpc = "enforcing", pc \notin {"idle", "drain"}, pc' # "drain",
           UNCHANGED <<put, got, seen, announced>>, idx' \in Enforcer!Ids,
           gpc' = IF pc' = "idle" THEN "loop" ELSE gpc
    PROVE  QueueInv'
BY DEF QueueInv, QueueTypes, GaveUp, Enforcer!Own

LEMMA AnnounceQueue ==
    ASSUME QueueInv, gpc = "enforcing", Enforcer!Announce, seen' = seen,
           gpc' = IF pc' = "idle" THEN "loop" ELSE gpc
    PROVE  QueueInv'
<1> DEFINE e == Enforcer!PenaltyIssued(idx)
<1>1. e \in Enforcer!Events
  BY DEF QueueInv, QueueTypes, Enforcer!PenaltyIssued, Enforcer!Events, Enforcer!Types
<1>2. /\ pc = "push" /\ pc' = "link" /\ Enforcer!Queue!Exchange(e) /\ idx' = idx
      /\ announced' = announced \cup {Len(put')}
  BY DEF Enforcer!Announce
<1> HIDE DEF e
<1>3. /\ put' \in Seq(Enforcer!Events) /\ got' = got
      /\ Len(put) \in Nat /\ Len(put') = Len(put) + 1
      /\ DOMAIN put = 1..Len(put) /\ DOMAIN put' = 1..(Len(put) + 1)
      /\ Enforcer!Own' \subseteq Enforcer!Own \cup {Len(put) + 1}
  BY <1>1, <1>2, PlaceTaken
<1>4. QueueTypes'
  <2>1. DOMAIN put \subseteq DOMAIN put' /\ Len(put) + 1 \in DOMAIN put'
        /\ Len(got) <= Len(put')
    BY <1>3 DEF QueueInv, QueueTypes
  <2>2. announced' \subseteq DOMAIN put'
    BY <1>2, <1>3, <2>1 DEF QueueInv, QueueTypes
  <2> QED
    BY <1>2, <1>3, <2>1, <2>2 DEF QueueInv, QueueTypes
<1>5. GaveUp'
  <2>1. Len(got) + 1 \notin (seen \cup Enforcer!Own) \ announced
    BY <1>2 DEF QueueInv, GaveUp
  <2>2. Len(got) + 1 \notin (seen \cup Enforcer!Own') \ announced'
    BY <1>2, <1>3, <2>1
  <2> QED
    BY <1>3, <2>2 DEF GaveUp
<1> QED
  BY <1>4, <1>5 DEF QueueInv

LEMMA EnforcingQueue == QueueInv /\ Enforcing => QueueInv'
<1> SUFFICES ASSUME QueueInv, Enforcing PROVE QueueInv'
  OBVIOUS
<1>1. gpc = "enforcing" /\ gpc' = (IF pc' = "idle" THEN "loop" ELSE gpc) /\ seen' = seen
  BY DEF Enforcing, poolVars
<1>2. CASE Enforcer!DrainPop
  <2>1. /\ pc = "drain" /\ pc' = pc /\ idx' = idx /\ announced' = announced /\ put' = put
        /\ Len(got) < Len(put) /\ got' = Append(got, put[Len(got) + 1])
    BY <1>2 DEF Enforcer!DrainPop, Enforcer!Queue!Take
  <2>2. Len(got') = Len(got) + 1
    BY <2>1
  <2> QED
    BY <1>1, <2>1, <2>2 DEF QueueInv, QueueTypes, GaveUp
<1>3. CASE Enforcer!DrainEnd(Certain)
  <2>1. /\ pc = "drain" /\ pc' = "process" /\ idx' = idx /\ announced' = announced
        /\ put' = put /\ got' = got /\ Len(got) + 1 \notin Enforcer!Own \cup seen
    BY <1>3 DEF Enforcer!DrainEnd, Enforcer!queueVars, Certain
  <2> QED
    BY <1>1, <2>1 DEF QueueInv, QueueTypes, GaveUp, Enforcer!Own
<1>4. CASE Enforcer!ProcessStep
  <2>1. CASE Enforcer!Announce
    BY <1>1, <2>1, AnnounceQueue
  <2>2. CASE Enforcer!AnnounceLink
    <3>1. pc = "link" /\ pc' = "extra" /\ UNCHANGED <<put, got, announced, idx>>
      BY <2>2 DEF Enforcer!AnnounceLink, Enforcer!Queue!Link
    <3> QED
      BY <1>1, <3>1, ProcessQueue DEF QueueInv, QueueTypes
  <2>3. CASE Enforcer!Count
    <3>1. /\ pc = "process" /\ pc' \in {"cas", "process"} /\ UNCHANGED <<put, got, announced>>
          /\ idx' \in Enforcer!Ids
      BY <2>3 DEF Enforcer!Count, Enforcer!IsWarning, Enforcer!queueVars, Enforcer!Ids
    <3> QED
      BY <1>1, <3>1, ProcessQueue
  <2>4. CASE Enforcer!Skip \/ Enforcer!Penalise \/ Enforcer!AddPitTime \/ Enforcer!Return
    <3>1. /\ pc \in {"process", "cas", "extra"} /\ pc' \in {"push", "process", "idle"}
          /\ UNCHANGED <<put, got, announced, idx>>
      BY <2>4 DEF Enforcer!Skip, Enforcer!Penalise, Enforcer!AddPitTime, Enforcer!Return,
                  Enforcer!Out, Enforcer!queueVars
    <3> QED
      BY <1>1, <3>1, ProcessQueue DEF QueueInv, QueueTypes
  <2> QED
    BY <1>4, <2>1, <2>2, <2>3, <2>4 DEF Enforcer!ProcessStep
<1> QED
  BY <1>2, <1>3, <1>4 DEF Enforcing

\* A worker's step changes the queue only by taking a place in it, or
\* completing it.
LEMMA WorkerQueue == ASSUME QueueInv, TaskInv, NEW w \in Workers, WorkerStep(w) PROVE QueueInv'
<1>1. CASE CheckViolation(w)
  <2> DEFINE e == Enforcer!TrackLimits(Grid[at[w]])
  <2>1. Grid[at[w]] \in Drivers
    <3>1. at[w] \in 1..Len(Grid)
      BY <1>1, GridAssumption DEF CheckViolation, TaskInv, Types
    <3> QED
      BY <3>1, GridAssumption
  <2>2. e \in Enforcer!Events /\ e.type # "PENALTY_ISSUED"
    BY <2>1 DEF Enforcer!TrackLimits, Enforcer!Events, Enforcer!Types, Enforcer!Ids
  <2>3. Enforcer!Queue!Exchange(e) /\ UNCHANGED <<seen, announced, pc, idx, gpc>>
    BY <1>1 DEF CheckViolation, PushBegin, poolVars, threadVars, enforcerVars
  <2> HIDE DEF e
  <2> QED
    BY <2>2, <2>3, WorkerPushQueue
<1>2. CASE WeatherPush(w)
  <2> DEFINE e == [type |-> "SOMETHING_ELSE", driver_id |-> NoId]
  <2>1. e \in Enforcer!Events /\ e.type # "PENALTY_ISSUED"
    BY DEF Enforcer!Events, Enforcer!Types, Enforcer!Ids
  <2>2. Enforcer!Queue!Exchange(e) /\ UNCHANGED <<seen, announced, pc, idx, gpc>>
    BY <1>2 DEF WeatherPush, PushBegin, poolVars, threadVars, enforcerVars
  <2> HIDE DEF e
  <2> QED
    BY <2>1, <2>2, WorkerPushQueue
<1>3. CASE PushEnd(w)
  <2>1. UNCHANGED <<put, got, seen, announced, pc, idx, gpc>>
    BY <1>3 DEF PushEnd, Enforcer!Queue!Link, threadVars, enforcerVars
  <2> QED
    BY <2>1, QueueKept
<1>4. CASE \/ TakeTask(w) \/ CheckClean(w) \/ CheckReturns(w)
           \/ WeatherTooEarly(w) \/ WeatherDue(w) \/ WeatherRead(w) \/ WeatherWrite(w)
  <2>1. UNCHANGED <<put, got, seen, announced, pc, idx, gpc>>
    BY <1>4 DEF TakeTask, CheckClean, CheckReturns, WeatherTooEarly, WeatherDue, WeatherRead,
                WeatherWrite, queueVars, enforcerVars, threadVars, poolVars
  <2> QED
    BY <2>1, QueueKept
<1> QED
  BY <1>1, <1>2, <1>3, <1>4 DEF WorkerStep

-----------------------------------------------------------------------------
(* The tasks and the weather *)

LEMMA InitTasks == Init => TaskInv /\ WeatherInv
<1> SUFFICES ASSUME Init PROVE TaskInv /\ WeatherInv
  OBVIOUS
<1>1. /\ queued = <<>> /\ running = [w \in Workers |-> NoTask]
      /\ future = [j \in Jobs |-> "invalid"] /\ wpc = [w \in Workers |-> "idle"]
      /\ lap = 1 /\ inPit = {} /\ at = [w \in Workers |-> 1]
      /\ state_ = "DRY" /\ last_update_lap_ = 0 /\ changes = <<>>
      /\ new_state = [w \in Workers |-> "DRY"]
  BY DEF Init, Pool!Init
<1>2. Types
  BY <1>1, BoundsAssumption DEF Types, Points, WeatherStates
<1>3. AtItsTask
  BY <1>1 DEF AtItsTask
<1>4. OneCall
  BY <1>1 DEF OneCall, Waits, Runs
<1>5. ChangeInHand /\ InCycle
  BY <1>1 DEF ChangeInHand, InCycle, LastChange, Changing
<1> QED
  BY <1>2, <1>3, <1>4, <1>5 DEF TaskInv, WeatherInv

\* Only one worker is in update.
LEMMA OneUpdate ==
    ASSUME TaskInv, NEW w \in Workers, NEW u \in Workers,
           wpc[w] # "idle", running[w].job = "weather",
           wpc[u] # "idle", running[u].job = "weather"
    PROVE  u = w
<1>1. w \in Runs("weather") /\ u \in Runs("weather")
  BY DEF TaskInv, AtItsTask, Runs
<1>2. PICK v \in Workers : Runs("weather") = {v}
  <2>1. "weather" \in Jobs
    BY DEF Jobs
  <2> QED
    BY <1>1, <2>1 DEF TaskInv, OneCall
<1> QED
  BY <1>1, <1>2

\* Where the calls are depends on the pool alone.
LEMMA OneCallKept ==
    ASSUME OneCall, UNCHANGED <<future, queued, running>>
    PROVE  OneCall'
BY DEF OneCall, Waits, Runs

\* A call is submitted when the last one is over.
LEMMA SubmitTasks ==
    ASSUME TaskInv, NEW task \in Task, Pool!Submit(task), Idle(task.job),
           future' = [future EXCEPT ![task.job] = "pending"],
           UNCHANGED <<lap, inPit, wpc, at, state_, new_state, last_update_lap_, changes>>
    PROVE  TaskInv'
<1> DEFINE j == task.job
<1>1. j \in Jobs
  BY DEF Task
<1>2. queued' = Append(queued, task) /\ running' = running
  BY DEF Pool!Submit
<1>3. queued \in Seq(Task) /\ future \in [Jobs -> {"invalid", "pending", "ready"}]
  BY DEF TaskInv, Types
<1>4. /\ queued' \in Seq(Task) /\ Len(queued) \in Nat /\ Len(queued') = Len(queued) + 1
      /\ DOMAIN queued = 1..Len(queued) /\ DOMAIN queued' = 1..(Len(queued) + 1)
      /\ queued'[Len(queued) + 1] = task
      /\ \A i \in 1..Len(queued) : queued'[i] = queued[i]
  BY <1>2, <1>3
<1>5. /\ future' \in [Jobs -> {"invalid", "pending", "ready"}] /\ future'[j] = "pending"
      /\ \A k \in Jobs \ {j} : future'[k] = future[k]
  BY <1>1, <1>3
<1>6. OneCall'
  <2>1. \A k \in Jobs : Runs(k)' = Runs(k)
    BY <1>2 DEF Runs
  <2>2. Waits(j) = {} /\ Runs(j) = {}
    BY <1>1 DEF Idle, TaskInv, OneCall
  <2>3. Waits(j)' = {Len(queued) + 1}
    BY <1>4, <2>2 DEF Waits
  <2>4. \A k \in Jobs \ {j} : Waits(k)' = Waits(k)
    BY <1>4 DEF Waits
  <2>5. Len(queued) + 1 \in DOMAIN queued' /\ DOMAIN queued \subseteq DOMAIN queued'
    BY <1>4
  <2> SUFFICES ASSUME NEW k \in Jobs
               PROVE  IF future'[k] = "pending"
                      THEN \/ Runs(k)' = {} /\ \E i \in DOMAIN queued' : Waits(k)' = {i}
                           \/ Waits(k)' = {} /\ \E w \in Workers : Runs(k)' = {w}
                      ELSE Waits(k)' = {} /\ Runs(k)' = {}
    BY DEF OneCall
  <2>6. CASE k = j
    BY <1>1, <1>5, <2>1, <2>2, <2>3, <2>5, <2>6
  <2>7. CASE k # j
    BY <1>5, <2>1, <2>4, <2>5, <2>7 DEF TaskInv, OneCall
  <2> QED
    BY <2>6, <2>7
<1>7. Types'
  BY <1>2, <1>4, <1>5 DEF TaskInv, Types
<1>8. AtItsTask'
  BY <1>2 DEF TaskInv, AtItsTask
<1> QED
  BY <1>6, <1>7, <1>8 DEF TaskInv

\* A worker takes the oldest call.
LEMMA StartTasks == ASSUME TaskInv, NEW w \in Workers, TakeTask(w) PROVE TaskInv'
<1>1. /\ running[w] = NoTask /\ queued # <<>>
      /\ running' = [running EXCEPT ![w] = Head(queued)] /\ queued' = Tail(queued)
      /\ wpc' = [wpc EXCEPT
                    ![w] = IF running'[w].job = "weather" THEN "gate" ELSE "check"]
      /\ UNCHANGED <<lap, inPit, future, at, state_, new_state, last_update_lap_, changes>>
  BY DEF TakeTask, Pool!Start, weatherVars, simVars
<1>2. /\ queued \in Seq(Task) /\ running \in [Workers -> Task \cup {NoTask}]
      /\ wpc \in [Workers -> Points]
  BY DEF TaskInv, Types
<1>3. PICK t \in Task : t = Head(queued) /\ t = queued[1]
  BY <1>1, <1>2
<1>4. /\ Len(queued) \in Nat \ {0} /\ queued' \in Seq(Task) /\ Len(queued') = Len(queued) - 1
      /\ DOMAIN queued = 1..Len(queued) /\ DOMAIN queued' = 1..(Len(queued) - 1)
      /\ \A i \in 1..(Len(queued) - 1) : queued'[i] = queued[i + 1]
  BY <1>1, <1>2
<1>5. /\ running' \in [Workers -> Task \cup {NoTask}] /\ running'[w] = t
      /\ \A u \in Workers \ {w} : running'[u] = running[u]
  BY <1>1, <1>2, <1>3
<1>6. t.job \in Jobs /\ t # NoTask /\ t.job \in {"track_limits", "weather"}
  BY NoTaskAssumption DEF Task, Jobs
<1>7. /\ wpc' \in [Workers -> Points]
      /\ wpc'[w] = IF t.job = "weather" THEN "gate" ELSE "check"
      /\ \A u \in Workers \ {w} : wpc'[u] = wpc[u]
  BY <1>1, <1>2, <1>5 DEF Points
<1>8. OneCall'
  <2> SUFFICES ASSUME NEW k \in Jobs
               PROVE  IF future[k] = "pending"
                      THEN \/ Runs(k)' = {} /\ \E i \in DOMAIN queued' : Waits(k)' = {i}
                           \/ Waits(k)' = {} /\ \E u \in Workers : Runs(k)' = {u}
                      ELSE Waits(k)' = {} /\ Runs(k)' = {}
    BY <1>1 DEF OneCall
  <2>1. \A i \in 1..(Len(queued) - 1) : i \in Waits(k)' <=> i + 1 \in Waits(k)
    BY <1>4 DEF Waits
  <2>2. Waits(k)' \subseteq 1..(Len(queued) - 1) /\ Waits(k) \subseteq 1..Len(queued)
    BY <1>4 DEF Waits
  <2>3. CASE k = t.job
    <3>1. 1 \in Waits(k)
      BY <1>3, <1>4, <2>3 DEF Waits
    <3>2. future[k] = "pending" /\ Runs(k) = {} /\ Waits(k) = {1}
      BY <3>1 DEF TaskInv, OneCall
    <3>3. Waits(k)' = {}
      BY <1>4, <2>1, <2>2, <3>2
    <3>4. Runs(k)' = {w}
      BY <1>5, <1>6, <2>3, <3>2 DEF Runs
    <3> QED
      BY <3>2, <3>3, <3>4
  <2>4. CASE k # t.job
    <3>1. Runs(k)' = Runs(k)
      BY <1>1, <1>5, <2>4 DEF Runs
    <3>2. 1 \notin Waits(k)
      BY <1>3, <2>4 DEF Waits
    <3>3. CASE Waits(k) = {}
      <4>1. Waits(k)' = {}
        BY <2>1, <2>2, <3>3
      <4> QED
        BY <3>1, <3>3, <4>1 DEF TaskInv, OneCall
    <3>4. CASE Waits(k) # {}
      <4>1. future[k] = "pending" /\ Runs(k) = {}
        BY <3>4 DEF TaskInv, OneCall
      <4>2. PICK i \in 1..Len(queued) : Waits(k) = {i}
        BY <1>4, <3>4 DEF TaskInv, OneCall
      <4>3. i # 1
        BY <3>2, <4>2
      <4>4. PICK m \in 1..(Len(queued) - 1) : i = m + 1
        <5>1. i - 1 \in 1..(Len(queued) - 1) /\ i = (i - 1) + 1
          BY <1>4, <4>3
        <5> QED
          BY <5>1
      <4>5. Waits(k)' = {m}
        <5>1. m \in Waits(k)'
          BY <2>1, <4>2, <4>4
        <5>2. ASSUME NEW n \in Waits(k)' PROVE n = m
          <6>1. n \in 1..(Len(queued) - 1) /\ n + 1 \in Waits(k)
            BY <2>1, <2>2, <5>2
          <6>2. n + 1 = m + 1
            BY <4>2, <4>4, <6>1
          <6> QED
            BY <1>4, <6>1, <6>2
        <5> QED
          BY <5>1, <5>2
      <4> QED
        BY <1>4, <3>1, <4>1, <4>4, <4>5
    <3> QED
      BY <3>3, <3>4
  <2> QED
    BY <2>3, <2>4
<1>9. Types'
  BY <1>1, <1>4, <1>5, <1>7 DEF TaskInv, Types
<1>10. AtItsTask'
  <2> SUFFICES ASSUME NEW u \in Workers
               PROVE  /\ wpc'[u] = "idle" <=> running'[u] = NoTask
                      /\ wpc'[u] = "check" => running'[u].job = "track_limits"
                      /\ wpc'[u] \in {"gate", "read", "write", "push"} =>
                            running'[u].job = "weather"
    BY DEF AtItsTask
  <2>1. CASE u = w
    BY <1>5, <1>6, <1>7, <2>1
  <2>2. CASE u # w
    BY <1>5, <1>7, <2>2 DEF TaskInv, AtItsTask
  <2> QED
    BY <2>1, <2>2
<1> QED
  BY <1>8, <1>9, <1>10 DEF TaskInv

\* A call is over.
LEMMA OverTasks ==
    ASSUME TaskInv, NEW w \in Workers, Over(w), UNCHANGED <<lap, inPit>>,
           state_' \in WeatherStates, last_update_lap_' \in Nat, changes' \in Seq(Changes)
    PROVE  TaskInv'
<1>1. PICK t \in Task : t = running[w]
  BY DEF Over, Pool!Finish, TaskInv, Types
<1>2. /\ future' = [future EXCEPT ![t.job] = "ready"]
      /\ running[w] # NoTask /\ running' = [running EXCEPT ![w] = NoTask]
      /\ queued' = queued /\ wpc' = [wpc EXCEPT ![w] = "idle"]
      /\ at' = [at EXCEPT ![w] = 1] /\ new_state' = [new_state EXCEPT ![w] = "DRY"]
  BY <1>1 DEF Over, Pool!Finish
<1>3. t.job \in Jobs
  BY DEF Task
<1>4. /\ running \in [Workers -> Task \cup {NoTask}] /\ wpc \in [Workers -> Points]
      /\ future \in [Jobs -> {"invalid", "pending", "ready"}]
      /\ at \in [Workers -> Nat \ {0}] /\ new_state \in [Workers -> WeatherStates]
  BY DEF TaskInv, Types
<1>5. /\ running' \in [Workers -> Task \cup {NoTask}] /\ running'[w] = NoTask
      /\ \A u \in Workers \ {w} : running'[u] = running[u]
  BY <1>2, <1>4
<1>6. /\ wpc' \in [Workers -> Points] /\ wpc'[w] = "idle"
      /\ \A u \in Workers \ {w} : wpc'[u] = wpc[u]
  BY <1>2, <1>4 DEF Points
<1>7. /\ future' \in [Jobs -> {"invalid", "pending", "ready"}] /\ future'[t.job] = "ready"
      /\ \A k \in Jobs \ {t.job} : future'[k] = future[k]
  BY <1>2, <1>3, <1>4
<1>8. at' \in [Workers -> Nat \ {0}] /\ new_state' \in [Workers -> WeatherStates]
  BY <1>2, <1>4 DEF WeatherStates
<1>9. OneCall'
  <2>1. \A k \in Jobs : Waits(k)' = Waits(k)
    BY <1>2 DEF Waits
  <2>2. w \in Runs(t.job)
    BY <1>1, <1>2 DEF Runs
  <2>3. Waits(t.job) = {} /\ Runs(t.job) = {w}
    BY <1>3, <2>2 DEF TaskInv, OneCall
  <2>4. Runs(t.job)' = {}
    BY <1>5, <2>3 DEF Runs
  <2>5. \A k \in Jobs \ {t.job} : Runs(k)' = Runs(k)
    BY <1>1, <1>2, <1>5 DEF Runs
  <2> SUFFICES ASSUME NEW k \in Jobs
               PROVE  IF future'[k] = "pending"
                      THEN \/ Runs(k)' = {} /\ \E i \in DOMAIN queued : Waits(k)' = {i}
                           \/ Waits(k)' = {} /\ \E u \in Workers : Runs(k)' = {u}
                      ELSE Waits(k)' = {} /\ Runs(k)' = {}
    BY <1>2 DEF OneCall
  <2>6. CASE k = t.job
    BY <1>3, <1>7, <2>1, <2>3, <2>4, <2>6
  <2>7. CASE k # t.job
    BY <1>7, <2>1, <2>5, <2>7 DEF TaskInv, OneCall
  <2> QED
    BY <2>6, <2>7
<1>10. Types'
  BY <1>2, <1>5, <1>6, <1>7, <1>8 DEF TaskInv, Types
<1>11. AtItsTask'
  BY <1>5, <1>6 DEF TaskInv, AtItsTask
<1> QED
  BY <1>9, <1>10, <1>11 DEF TaskInv

\* A step of worker w within a task.
LEMMA PointTasks ==
    ASSUME TaskInv, NEW w \in Workers, NEW p \in Points \ {"idle"},
           UNCHANGED <<lap, inPit, future, queued, running>>, wpc' = [wpc EXCEPT ![w] = p],
           wpc[w] # "idle", p = "check" => running[w].job = "track_limits",
           p \in Changing \cup {"gate"} => running[w].job = "weather",
           at' \in [Workers -> Nat \ {0}], state_' \in WeatherStates,
           new_state' \in [Workers -> WeatherStates],
           last_update_lap_' \in Nat, changes' \in Seq(Changes)
    PROVE  TaskInv'
<1>1. wpc \in [Workers -> Points]
  BY DEF TaskInv, Types
<1>2. /\ wpc' \in [Workers -> Points] /\ wpc'[w] = p
      /\ \A u \in Workers \ {w} : wpc'[u] = wpc[u]
  BY <1>1
<1>3. Types'
  BY <1>2 DEF TaskInv, Types
<1>4. OneCall'
  BY OneCallKept DEF TaskInv
<1>5. AtItsTask'
  BY <1>2 DEF TaskInv, AtItsTask, Changing
<1> QED
  BY <1>3, <1>4, <1>5 DEF TaskInv

\* Steps that neither change the weather nor announce it.
LEMMA WeatherKept ==
    ASSUME WeatherInv, UNCHANGED <<state_, last_update_lap_, changes>>,
           \A w \in Workers : wpc[w] \in Changing \/ wpc'[w] \in Changing =>
               /\ wpc'[w] = wpc[w] /\ running'[w] = running[w]
               /\ new_state'[w] = new_state[w]
    PROVE  WeatherInv'
<1>1. LastChange' = LastChange
  BY DEF LastChange
<1>2. InCycle'
  BY DEF WeatherInv, InCycle
<1>3. \A w \in Workers : wpc'[w] # "push" <=> wpc[w] # "push"
  BY DEF Changing
<1>4. ChangeInHand'
  BY <1>1, <1>3 DEF WeatherInv, ChangeInHand, Changing
<1> QED
  BY <1>2, <1>4 DEF WeatherInv

\* The task of a worker is a call with its lap.
LEMMA ItsCall ==
    ASSUME TaskInv, NEW w \in Workers, wpc[w] # "idle"
    PROVE  running[w] \in Task /\ running[w].lap \in Nat
BY BoundsAssumption DEF TaskInv, Types, AtItsTask, Task

LEMMA LastChangeType == ASSUME TaskInv PROVE LastChange \in Changes
<1>1. changes \in Seq(Changes)
  BY DEF TaskInv, Types
<1>2. CASE changes = <<>>
  BY <1>2 DEF LastChange, Changes, WeatherStates
<1>3. CASE changes # <<>>
  BY <1>1, <1>3 DEF LastChange
<1> QED
  BY <1>2, <1>3

\* A due update keeps its lap; no other worker has a change in hand.
LEMMA DueTasks ==
    ASSUME TaskInv, WeatherInv, NEW w \in Workers, WeatherDue(w)
    PROVE  TaskInv' /\ WeatherInv'
<1>1. /\ wpc[w] = "gate" /\ running[w].lap - last_update_lap_ >= WeatherLaps
      /\ last_update_lap_' = running[w].lap
      /\ UNCHANGED <<lap, inPit, state_, changes>>
  BY DEF WeatherDue, Keep, simVars
<1>2. running[w].lap \in Nat /\ running[w].job = "weather"
  BY <1>1, ItsCall DEF TaskInv, AtItsTask
<1>3. state_ \in WeatherStates /\ last_update_lap_ \in Nat /\ changes \in Seq(Changes)
      /\ at \in [Workers -> Nat \ {0}] /\ new_state \in [Workers -> WeatherStates]
      /\ wpc \in [Workers -> Points]
  BY DEF TaskInv, Types
<1>4. ASSUME Over(w) PROVE TaskInv'
  BY <1>1, <1>2, <1>3, <1>4, OverTasks
<1>5. ASSUME wpc' = [wpc EXCEPT ![w] = "read"],
             UNCHANGED <<future, queued, phase, running, at, pushing, new_state>>
      PROVE  TaskInv'
  <2>1. "read" \in Points \ {"idle"}
    BY DEF Points
  <2> QED
    BY <1>1, <1>2, <1>3, <1>5, <2>1, PointTasks
<1>6. TaskInv'
  BY <1>4, <1>5 DEF WeatherDue
<1>7. \A u \in Workers : wpc[u] \notin Changing
  <2> SUFFICES ASSUME NEW u \in Workers, wpc[u] \in Changing PROVE FALSE
    OBVIOUS
  <2>1. wpc[u] # "idle" /\ running[u].job = "weather"
    BY DEF Changing, TaskInv, AtItsTask
  <2>2. u = w
    BY <1>1, <1>2, <2>1, OneUpdate
  <2> QED
    BY <1>1, <2>2 DEF Changing
<1>8. \A u \in Workers : /\ wpc'[u] \in Changing => u = w /\ wpc'[u] = "read"
                         /\ wpc'[u] # "push" /\ wpc[u] # "push" /\ wpc'[u] # "write"
  <2>1. wpc' = [wpc EXCEPT ![w] = "idle"] \/ wpc' = [wpc EXCEPT ![w] = "read"]
    BY DEF WeatherDue, Over
  <2> QED
    BY <1>3, <1>7, <2>1 DEF Changing
<1>9. running'[w] = running[w] \/ wpc'[w] = "idle"
  BY <1>3 DEF WeatherDue, Over
<1>10. LastChange' = LastChange /\ LastChange.lap \in Nat
  BY <1>1, LastChangeType DEF LastChange, Changes
<1>11. LastChange.lap <= last_update_lap_
  BY DEF WeatherInv, ChangeInHand
<1>12. LastChange.lap + WeatherLaps <= last_update_lap_' /\ LastChange.lap <= last_update_lap_'
  BY <1>1, <1>2, <1>3, <1>10, <1>11, PeriodAssumption
<1>13. ChangeInHand'
  <2>1. state_ = LastChange.to
    BY <1>8 DEF WeatherInv, ChangeInHand
  <2>2. ASSUME NEW u \in Workers, wpc'[u] \in Changing
        PROVE  running'[u].lap = last_update_lap_'
    BY <1>1, <1>8, <1>9, <2>2 DEF Changing
  <2> QED
    BY <1>1, <1>8, <1>10, <1>12, <2>1, <2>2 DEF ChangeInHand
<1>14. InCycle'
  BY <1>1 DEF WeatherInv, InCycle
<1> QED
  BY <1>6, <1>13, <1>14 DEF WeatherInv

\* The next weather is read while nobody else is changing it.
LEMMA ReadTasks ==
    ASSUME TaskInv, WeatherInv, NEW w \in Workers, WeatherRead(w)
    PROVE  TaskInv' /\ WeatherInv'
<1>1. /\ wpc[w] = "read" /\ wpc' = [wpc EXCEPT ![w] = "write"]
      /\ new_state' = [new_state EXCEPT ![w] = Following[state_]]
      /\ UNCHANGED <<running, at, state_, last_update_lap_, changes, lap, inPit, future, queued>>
  BY DEF WeatherRead, poolVars, simVars
<1>2. /\ wpc \in [Workers -> Points] /\ new_state \in [Workers -> WeatherStates]
      /\ state_ \in WeatherStates /\ at \in [Workers -> Nat \ {0}]
      /\ last_update_lap_ \in Nat /\ changes \in Seq(Changes)
  BY DEF TaskInv, Types
<1>3. Following[state_] \in WeatherStates
  BY <1>2 DEF Following, WeatherStates
<1>4. /\ new_state' \in [Workers -> WeatherStates] /\ new_state'[w] = Following[state_]
      /\ wpc'[w] = "write"
      /\ \A u \in Workers \ {w} : new_state'[u] = new_state[u] /\ wpc'[u] = wpc[u]
  BY <1>1, <1>2, <1>3
<1>5. running[w].job = "weather"
  BY <1>1 DEF TaskInv, AtItsTask
<1>6. TaskInv'
  <2>1. "write" \in Points \ {"idle"}
    BY DEF Points
  <2> QED
    BY <1>1, <1>2, <1>4, <1>5, <2>1, PointTasks
<1>7. \A u \in Workers \ {w} : wpc[u] \notin Changing
  BY <1>1, <1>5, OneUpdate DEF Changing, TaskInv, AtItsTask
<1>8. LastChange' = LastChange
  BY <1>1 DEF LastChange
<1>9. ChangeInHand'
  <2>1. state_ = LastChange.to
    BY <1>1, <1>7 DEF WeatherInv, ChangeInHand, Changing
  <2>2. \A u \in Workers : wpc'[u] \in Changing => u = w
    BY <1>4, <1>7
  <2>3. /\ running[w].lap = last_update_lap_ /\ LastChange.lap <= last_update_lap_
        /\ LastChange.lap + WeatherLaps <= last_update_lap_
    BY <1>1 DEF WeatherInv, ChangeInHand, Changing
  <2> QED
    BY <1>1, <1>4, <1>8, <2>1, <2>2, <2>3 DEF ChangeInHand, Changing
<1>10. InCycle'
  BY <1>1 DEF WeatherInv, InCycle
<1> QED
  BY <1>6, <1>9, <1>10 DEF WeatherInv

LEMMA WriteTasks ==
    ASSUME TaskInv, WeatherInv, NEW w \in Workers, WeatherWrite(w)
    PROVE  TaskInv' /\ WeatherInv'
<1>1. /\ wpc[w] = "write" /\ wpc' = [wpc EXCEPT ![w] = "push"] /\ state_' = new_state[w]
      /\ UNCHANGED <<running, at, new_state, last_update_lap_, changes, lap, inPit, future,
                     queued>>
  BY DEF WeatherWrite, poolVars, simVars
<1>2. /\ wpc \in [Workers -> Points] /\ new_state \in [Workers -> WeatherStates]
      /\ at \in [Workers -> Nat \ {0}]
      /\ last_update_lap_ \in Nat /\ changes \in Seq(Changes)
  BY DEF TaskInv, Types
<1>3. wpc'[w] = "push" /\ \A u \in Workers \ {w} : wpc'[u] = wpc[u]
  BY <1>1, <1>2
<1>4. running[w].job = "weather"
  BY <1>1 DEF TaskInv, AtItsTask
<1>5. TaskInv'
  <2>1. "push" \in Points \ {"idle"} /\ state_' \in WeatherStates
    BY <1>1, <1>2 DEF Points
  <2> QED
    BY <1>1, <1>2, <1>4, <2>1, PointTasks
<1>6. \A u \in Workers \ {w} : wpc[u] \notin Changing
  BY <1>1, <1>4, OneUpdate DEF Changing, TaskInv, AtItsTask
<1>7. LastChange' = LastChange
  BY <1>1 DEF LastChange
<1>8. ChangeInHand'
  <2>1. \A u \in Workers : wpc'[u] \in Changing => u = w
    BY <1>3, <1>6
  <2>2. /\ running[w].lap = last_update_lap_ /\ LastChange.lap <= last_update_lap_
        /\ LastChange.lap + WeatherLaps <= last_update_lap_
        /\ new_state[w] = Following[LastChange.to]
    BY <1>1 DEF WeatherInv, ChangeInHand, Changing
  <2> QED
    BY <1>1, <1>3, <1>7, <2>1, <2>2 DEF ChangeInHand, Changing
<1>9. InCycle'
  BY <1>1 DEF WeatherInv, InCycle
<1> QED
  BY <1>5, <1>8, <1>9 DEF WeatherInv

\* The announcement is the next change of the cycle.
LEMMA PushTasks ==
    ASSUME TaskInv, WeatherInv, NEW w \in Workers, WeatherPush(w)
    PROVE  TaskInv' /\ WeatherInv'
<1> DEFINE c == [lap |-> running[w].lap, to |-> new_state[w]]
<1>1. /\ wpc[w] = "push" /\ wpc' = [wpc EXCEPT ![w] = "link"]
      /\ changes' = Append(changes, c)
      /\ UNCHANGED <<running, at, state_, new_state, last_update_lap_, lap, inPit, future,
                     queued>>
  BY DEF WeatherPush, PushBegin, poolVars, simVars
<1>2. /\ wpc \in [Workers -> Points] /\ new_state \in [Workers -> WeatherStates]
      /\ state_ \in WeatherStates /\ at \in [Workers -> Nat \ {0}]
      /\ last_update_lap_ \in Nat /\ changes \in Seq(Changes)
  BY DEF TaskInv, Types
<1>3. running[w].job = "weather" /\ running[w].lap \in Nat
  BY <1>1, ItsCall DEF TaskInv, AtItsTask
<1>4. c \in Changes /\ c.lap = running[w].lap /\ c.to = new_state[w]
  BY <1>2, <1>3 DEF Changes
<1> HIDE DEF c
<1>5. /\ Len(changes) \in Nat /\ changes' \in Seq(Changes) /\ changes' # <<>>
      /\ Len(changes') = Len(changes) + 1 /\ changes'[Len(changes) + 1] = c
      /\ DOMAIN changes = 1..Len(changes) /\ DOMAIN changes' = 1..(Len(changes) + 1)
      /\ \A i \in 1..Len(changes) : changes'[i] = changes[i]
      /\ changes = <<>> <=> Len(changes) = 0
  <2>1. Len(changes) \in Nat /\ DOMAIN changes = 1..Len(changes)
        /\ (changes = <<>> <=> Len(changes) = 0)
    BY <1>2
  <2>2. /\ changes' \in Seq(Changes) /\ Len(changes') = Len(changes) + 1
        /\ DOMAIN changes' = 1..(Len(changes) + 1) /\ changes'[Len(changes) + 1] = c
    BY <1>1, <1>2, <1>4
  <2>3. \A i \in 1..Len(changes) : changes'[i] = changes[i]
    BY <1>1, <1>2, <1>4
  <2>4. changes' # <<>>
    BY <2>1, <2>2
  <2> QED
    BY <2>1, <2>2, <2>3, <2>4
<1>6. TaskInv'
  <2>1. "link" \in Points \ {"idle"} /\ "link" \notin Changing
    BY DEF Points, Changing
  <2>2. wpc[w] # "idle" /\ "link" # "check" /\ "link" \notin Changing \cup {"gate"}
    BY <1>1 DEF Changing
  <2> QED
    BY <1>1, <1>2, <1>5, <2>1, <2>2, PointTasks
<1>7. \A u \in Workers \ {w} : wpc[u] \notin Changing
  BY <1>1, <1>3, OneUpdate DEF Changing, TaskInv, AtItsTask
<1>8. \A u \in Workers : wpc'[u] \notin Changing
  BY <1>1, <1>2, <1>7 DEF Changing
<1>9. LastChange' = c
  BY <1>5 DEF LastChange
<1>10. /\ c.lap = last_update_lap_ /\ LastChange.lap + WeatherLaps <= c.lap
       /\ c.to = Following[LastChange.to] /\ state_ = c.to
  BY <1>1, <1>4 DEF WeatherInv, ChangeInHand, Changing
<1>11. ChangeInHand'
  BY <1>1, <1>2, <1>8, <1>9, <1>10 DEF ChangeInHand, Changing
<1>12. InCycle'
  <2> SUFFICES ASSUME NEW i \in 1..(Len(changes) + 1)
               PROVE  LET before == IF i = 1 THEN [lap |-> 0, to |-> "DRY"]
                                    ELSE changes'[i - 1] IN
                      /\ changes'[i].to = Following[before.to]
                      /\ changes'[i].lap >= before.lap + WeatherLaps
    BY <1>5 DEF InCycle
  <2>1. CASE i = Len(changes) + 1
    <3>1. (IF i = 1 THEN [lap |-> 0, to |-> "DRY"] ELSE changes'[i - 1]) = LastChange
      <4>1. CASE Len(changes) = 0
        BY <1>5, <2>1, <4>1 DEF LastChange
      <4>2. CASE Len(changes) # 0
        <5>1. i # 1 /\ i - 1 = Len(changes) /\ Len(changes) \in 1..Len(changes)
          BY <1>5, <2>1, <4>2
        <5> QED
          BY <1>5, <4>2, <5>1 DEF LastChange
      <4> QED
        BY <4>1, <4>2
    <3>2. LastChange.lap \in Nat /\ c.lap \in Nat
      BY <1>4, LastChangeType DEF Changes
    <3>3. c.lap >= LastChange.lap + WeatherLaps
      BY <1>10, <3>2, PeriodAssumption
    <3>4. changes'[i] = c
      BY <1>5, <2>1
    <3> QED
      BY <1>10, <3>1, <3>3, <3>4
  <2>2. CASE i # Len(changes) + 1
    <3>1. i \in DOMAIN changes /\ changes'[i] = changes[i]
      BY <1>5, <2>2
    <3>2. i # 1 => changes'[i - 1] = changes[i - 1]
      <4>1. i # 1 => i - 1 \in 1..Len(changes)
        BY <1>5, <2>2
      <4> QED
        BY <1>5, <4>1
    <3> QED
      BY <3>1, <3>2 DEF WeatherInv, InCycle
  <2> QED
    BY <2>1, <2>2
<1> QED
  BY <1>6, <1>11, <1>12 DEF WeatherInv

\* Steps that leave the tasks and the weather alone, but perhaps for the lap
\* and for who is in the pits.
LEMMA TasksKept ==
    ASSUME TaskInv, WeatherInv, lap' \in 1..MaxLap, inPit' \subseteq Drivers,
           UNCHANGED <<future, queued, running, wpc, state_, new_state, last_update_lap_,
                       changes>>,
           at' \in [Workers -> Nat \ {0}]
    PROVE  TaskInv' /\ WeatherInv'
<1>1. Types' /\ AtItsTask'
  BY DEF TaskInv, Types, AtItsTask
<1>2. OneCall'
  BY OneCallKept DEF TaskInv
<1>3. WeatherInv'
  BY WeatherKept
<1> QED
  BY <1>1, <1>2, <1>3 DEF TaskInv

LEMMA WorkerTasks ==
    ASSUME TaskInv, WeatherInv, NEW w \in Workers, WorkerStep(w)
    PROVE  TaskInv' /\ WeatherInv'
<1>1. /\ wpc \in [Workers -> Points] /\ new_state \in [Workers -> WeatherStates]
      /\ state_ \in WeatherStates /\ at \in [Workers -> Nat \ {0}]
      /\ last_update_lap_ \in Nat /\ changes \in Seq(Changes)
      /\ lap \in 1..MaxLap /\ inPit \subseteq Drivers
      /\ running \in [Workers -> Task \cup {NoTask}]
  BY DEF TaskInv, Types
<1>2. CASE TakeTask(w)
  <2>1. /\ wpc[w] = "idle"
        /\ wpc' = [wpc EXCEPT ![w] = IF running'[w].job = "weather" THEN "gate" ELSE "check"]
        /\ running' = [running EXCEPT ![w] = Head(queued)]
        /\ UNCHANGED <<state_, last_update_lap_, changes, new_state>>
    BY <1>2 DEF TakeTask, Pool!Start, weatherVars, TaskInv, AtItsTask
  <2>2. /\ wpc'[w] \in {"gate", "check"}
        /\ \A u \in Workers \ {w} : wpc'[u] = wpc[u] /\ running'[u] = running[u]
    BY <1>1, <2>1
  <2>3. WeatherInv'
    BY <2>1, <2>2, WeatherKept DEF Changing
  <2> QED
    BY <1>2, <2>3, StartTasks
<1>3. ASSUME Over(w), wpc[w] \notin Changing,
             UNCHANGED <<lap, inPit, state_, last_update_lap_, changes>>
      PROVE  TaskInv' /\ WeatherInv'
  <2>1. TaskInv'
    BY <1>1, <1>3, OverTasks
  <2>2. /\ wpc' = [wpc EXCEPT ![w] = "idle"] /\ running' = [running EXCEPT ![w] = NoTask]
        /\ new_state' = [new_state EXCEPT ![w] = "DRY"]
    BY <1>3 DEF Over, Pool!Finish
  <2>3. /\ wpc'[w] = "idle"
        /\ \A u \in Workers \ {w} : /\ wpc'[u] = wpc[u] /\ running'[u] = running[u]
                                    /\ new_state'[u] = new_state[u]
    BY <1>1, <2>2
  <2>4. WeatherInv'
    BY <1>3, <2>3, WeatherKept DEF Changing
  <2> QED
    BY <2>1, <2>4
<1>4. ASSUME NEW p \in {"check", "link"}, wpc[w] \in {"check", "link"},
             p = "check" => running[w].job = "track_limits",
             wpc' = [wpc EXCEPT ![w] = p], at' \in [Workers -> Nat \ {0}],
             UNCHANGED <<lap, inPit, future, queued, running, state_, new_state,
                         last_update_lap_, changes>>
      PROVE  TaskInv' /\ WeatherInv'
  <2>1. p \in Points \ {"idle"} /\ p \notin Changing \cup {"gate"}
    BY DEF Points, Changing
  <2>2. TaskInv'
    BY <1>1, <1>4, <2>1, PointTasks
  <2>3. wpc'[w] = p /\ \A u \in Workers \ {w} : wpc'[u] = wpc[u]
    BY <1>1, <1>4
  <2>4. WeatherInv'
    BY <1>4, <2>3, WeatherKept DEF Changing
  <2> QED
    BY <2>2, <2>4
<1>5. CASE PushEnd(w)
  <2>1. wpc[w] = "link" /\ UNCHANGED <<lap, inPit, state_, last_update_lap_, changes>>
    BY <1>5 DEF PushEnd, simVars
  <2>2. CASE running[w].job = "weather"
    <3>1. Over(w)
      BY <1>5, <2>2 DEF PushEnd
    <3> QED
      BY <1>3, <2>1, <3>1 DEF Changing
  <2>3. CASE running[w].job # "weather"
    <3>1. wpc' = [wpc EXCEPT ![w] = "check"]
          /\ UNCHANGED <<future, queued, running, at, new_state>>
      BY <1>5, <2>3 DEF PushEnd
    <3>2. running[w].job = "track_limits"
      BY <2>1, <2>3, ItsCall DEF Task, Jobs
    <3> QED
      BY <1>1, <1>4, <2>1, <3>1, <3>2
  <2> QED
    BY <2>2, <2>3
<1>6. CASE CheckClean(w)
  <2>1. at' = [at EXCEPT ![w] = @ + 1]
        /\ UNCHANGED <<lap, inPit, future, queued, running, wpc, state_, new_state,
                       last_update_lap_, changes>>
    BY <1>6 DEF CheckClean, simVars, poolVars, weatherVars
  <2>2. at' \in [Workers -> Nat \ {0}]
    BY <1>1, <2>1
  <2> QED
    BY <1>1, <2>1, <2>2, TasksKept
<1>7. CASE CheckViolation(w)
  <2>1. /\ wpc[w] = "check" /\ wpc' = [wpc EXCEPT ![w] = "link"]
        /\ at' = [at EXCEPT ![w] = @ + 1]
        /\ UNCHANGED <<lap, inPit, future, queued, running, state_, new_state,
                       last_update_lap_, changes>>
    BY <1>7 DEF CheckViolation, PushBegin, simVars, poolVars, weatherVars
  <2>2. at' \in [Workers -> Nat \ {0}]
    BY <1>1, <2>1
  <2> QED
    BY <1>4, <2>1, <2>2
<1>8. CASE CheckReturns(w) \/ WeatherTooEarly(w)
  <2>1. /\ Over(w) /\ wpc[w] \in {"check", "gate"}
        /\ UNCHANGED <<lap, inPit, state_, last_update_lap_, changes>>
    BY <1>8 DEF CheckReturns, WeatherTooEarly, simVars
  <2> QED
    BY <1>3, <2>1 DEF Changing
<1> QED
  BY <1>2, <1>5, <1>6, <1>7, <1>8, DueTasks, ReadTasks, WriteTasks, PushTasks DEF WorkerStep

LEMMA SubmitsTasks ==
    ASSUME TaskInv, WeatherInv, SubmitTrackLimits \/ SubmitWeather
    PROVE  TaskInv' /\ WeatherInv'
<1>1. /\ lap \in 1..MaxLap /\ inPit \subseteq Drivers /\ at \in [Workers -> Nat \ {0}]
      /\ state_ \in WeatherStates /\ new_state \in [Workers -> WeatherStates]
  BY DEF TaskInv, Types
<1>2. PICK task \in Task, due \in BOOLEAN : Resubmit(due, task)
  <2>1. CASE SubmitTrackLimits
    <3>1. [job |-> "track_limits", lap |-> lap, inPit |-> inPit] \in Task
      BY <1>1 DEF Task, Jobs
    <3>2. (ticks % PerTrackLimits = 0) \in BOOLEAN
      OBVIOUS
    <3> QED
      BY <2>1, <3>1, <3>2, Zenon DEF SubmitTrackLimits
  <2>2. CASE SubmitWeather
    <3>1. [job |-> "weather", lap |-> lap, inPit |-> {}] \in Task
      BY <1>1 DEF Task, Jobs
    <3> QED
      BY <2>2, <3>1, Zenon DEF SubmitWeather
  <2> QED
    BY <2>1, <2>2
<1>3. UNCHANGED <<lap, inPit, wpc, at, state_, new_state, last_update_lap_, changes>>
  BY DEF SubmitTrackLimits, SubmitWeather, simVars, weatherVars
<1>4. CASE due /\ Idle(task.job)
  <2>1. Pool!Submit(task) /\ future' = [future EXCEPT ![task.job] = "pending"]
    BY <1>2, <1>4 DEF Resubmit
  <2>2. TaskInv'
    BY <1>3, <1>4, <2>1, SubmitTasks
  <2>3. running' = running
    BY <2>1 DEF Pool!Submit
  <2>4. WeatherInv'
    BY <1>3, <2>3, WeatherKept
  <2> QED
    BY <2>2, <2>4
<1>5. CASE ~(due /\ Idle(task.job))
  <2>1. UNCHANGED <<future, queued, running>>
    BY <1>2, <1>5 DEF Resubmit, poolVars
  <2> QED
    BY <1>1, <1>3, <2>1, TasksKept
<1> QED
  BY <1>4, <1>5

-----------------------------------------------------------------------------
(* Theorems *)

\* The inductive invariant holds.
THEOREM Invariance == Spec => []IndInv
<1>1. Init => IndInv
  BY InitQueue, InitTasks DEF IndInv
<1>2. IndInv /\ [Next]_vars => IndInv'
  <2> SUFFICES ASSUME IndInv, [Next]_vars PROVE IndInv'
    OBVIOUS
  <2> USE DEF IndInv
  <2>1. /\ lap \in 1..MaxLap /\ inPit \subseteq Drivers /\ at \in [Workers -> Nat \ {0}]
    BY DEF TaskInv, Types
  <2>2. CASE Tick
    <3>1. /\ lap' \in 1..MaxLap /\ inPit' \subseteq Drivers /\ gpc' = "track_limits"
          /\ gpc = "loop"
      BY <2>1, <2>2 DEF Tick
    <3>2. UNCHANGED <<poolVars, workerVars, weatherVars, queueVars, enforcerVars>>
      BY <2>2 DEF Tick
    <3>3. TaskInv' /\ WeatherInv'
      BY <2>1, <3>1, <3>2, TasksKept DEF poolVars, workerVars, weatherVars
    <3>4. QueueInv'
      BY <3>1, <3>2, QueueKept DEF poolVars, queueVars, enforcerVars
    <3> QED
      BY <3>3, <3>4
  <2>3. CASE SubmitTrackLimits
    <3>1. TaskInv' /\ WeatherInv'
      BY <2>3, SubmitsTasks
    <3>2. [job |-> "track_limits", lap |-> lap, inPit |-> inPit] \in Task
      BY <2>1 DEF Task, Jobs
    <3>3. /\ gpc = "track_limits" /\ gpc' = "weather"
          /\ UNCHANGED <<put, got, announced, pc, idx>>
          /\ Resubmit(ticks % PerTrackLimits = 0,
                      [job |-> "track_limits", lap |-> lap, inPit |-> inPit])
      BY <2>3 DEF SubmitTrackLimits, queueVars, enforcerVars
    <3>4. PICK due \in BOOLEAN :
              Resubmit(due, [job |-> "track_limits", lap |-> lap, inPit |-> inPit])
      BY <3>3, Zenon
    <3>5. QueueInv'
      BY <3>2, <3>3, <3>4, ResubmitQueue
    <3> QED
      BY <3>1, <3>5
  <2>4. CASE SubmitWeather
    <3>1. TaskInv' /\ WeatherInv'
      BY <2>4, SubmitsTasks
    <3>2. [job |-> "weather", lap |-> lap, inPit |-> {}] \in Task
      BY <2>1 DEF Task, Jobs
    <3>3. /\ gpc = "weather" /\ gpc' = "enforce"
          /\ UNCHANGED <<put, got, announced, pc, idx>>
          /\ Resubmit(TRUE, [job |-> "weather", lap |-> lap, inPit |-> {}])
      BY <2>4 DEF SubmitWeather, queueVars, enforcerVars
    <3>4. QueueInv'
      BY <3>2, <3>3, ResubmitQueue
    <3> QED
      BY <3>1, <3>4
  <2>5. CASE Enforce \/ Enforcing
    <3>1. UNCHANGED <<simVars, poolVars, workerVars, weatherVars>>
      BY <2>5 DEF Enforce, Enforcing
    <3>2. TaskInv' /\ WeatherInv'
      BY <2>1, <3>1, TasksKept DEF simVars, poolVars, workerVars, weatherVars
    <3> QED
      BY <2>5, <3>2, EnforceQueue, EnforcingQueue
  <2>6. CASE GeneratorExit \/ MainStops \/ MainReturns \/ UNCHANGED vars
    <3>1. /\ UNCHANGED <<simVars, future, seen, queued, running, wpc, at, weatherVars,
                         queueVars, enforcerVars>>
          /\ gpc' = gpc \/ (gpc = "loop" /\ gpc' = "exited")
      BY <2>6 DEF GeneratorExit, MainStops, MainReturns, Pool!Stop, Pool!Destroyed, vars,
                  threadVars, poolVars, workerVars
    <3>2. TaskInv' /\ WeatherInv'
      BY <2>1, <3>1, TasksKept DEF simVars, weatherVars
    <3>3. QueueInv'
      BY <3>1, QueueKept DEF queueVars, enforcerVars
    <3> QED
      BY <3>2, <3>3
  <2>7. ASSUME NEW w \in Workers, WorkerStep(w) PROVE IndInv'
    BY <2>7, WorkerQueue, WorkerTasks
  <2> QED
    BY <2>2, <2>3, <2>4, <2>5, <2>6, <2>7 DEF Next, Generator, Main
<1> QED
  BY <1>1, <1>2, PTL DEF Spec

\* At most one call of each job is in flight, whichever worker runs it: what
\* TrackLimitsMonitor and WeatherSystem leave unsynchronised is touched by
\* one thread at a time.
THEOREM OneInFlight == Spec => []SingleFlight
<1>1. ASSUME IndInv, NEW j \in Jobs
      PROVE  InFlight(j) = IF future[j] = "pending" THEN 1 ELSE 0
  <2>1. InFlight(j) = Cardinality(Waits(j)) + Cardinality(Runs(j))
    BY DEF InFlight, Waits, Runs
  <2>2. ASSUME NEW S, S = {} PROVE Cardinality(S) = 0
    BY <2>2, FS_EmptySet
  <2>3. ASSUME NEW S, NEW x, S = {x} PROVE Cardinality(S) = 1
    BY <2>3, FS_Singleton
  <2>4. CASE future[j] # "pending"
    <3>1. Cardinality(Waits(j)) = 0 /\ Cardinality(Runs(j)) = 0
      BY <1>1, <2>2, <2>4 DEF IndInv, TaskInv, OneCall
    <3> QED
      BY <2>1, <2>4, <3>1
  <2>5. CASE future[j] = "pending" /\ Waits(j) = {}
    <3>1. PICK w \in Workers : Runs(j) = {w}
      BY <1>1, <2>5 DEF IndInv, TaskInv, OneCall
    <3>2. Cardinality(Waits(j)) = 0 /\ Cardinality(Runs(j)) = 1
      BY <2>2, <2>3, <2>5, <3>1
    <3> QED
      BY <2>1, <2>5, <3>2
  <2>6. CASE future[j] = "pending" /\ Waits(j) # {}
    <3>1. Runs(j) = {}
      BY <1>1, <2>6 DEF IndInv, TaskInv, OneCall
    <3>2. PICK i \in DOMAIN queued : Waits(j) = {i}
      BY <1>1, <2>6 DEF IndInv, TaskInv, OneCall
    <3>3. Cardinality(Waits(j)) = 1 /\ Cardinality(Runs(j)) = 0
      BY <2>2, <2>3, <3>1, <3>2
    <3> QED
      BY <2>1, <2>6, <3>3
  <2> QED
    BY <2>4, <2>5, <2>6
<1>2. IndInv => SingleFlight
  BY <1>1 DEF SingleFlight
<1> QED
  BY <1>2, Invariance, PTL

\* The weather changes announced follow the cycle, far enough apart, and are
\* the changes that readers see.
THEOREM ChangesAnnounced == Spec => []WeatherIsAnnounced
<1>1. ASSUME IndInv PROVE WeatherIsAnnounced
  <2>1. (IF changes = <<>> THEN "DRY" ELSE changes[Len(changes)].to) = LastChange.to
    BY DEF LastChange
  <2>2. \/ state_ = LastChange.to
        \/ \E w \in Workers : wpc[w] = "push" /\ new_state[w] = state_
    BY <1>1 DEF IndInv, WeatherInv, ChangeInHand
  <2> QED
    BY <1>1, <2>1, <2>2 DEF IndInv, WeatherInv, InCycle, WeatherIsAnnounced
<1> QED
  BY <1>1, Invariance, PTL

\* When process_events has returned, every event before the first that some
\* call in flight has pushed, or that it has announced itself, is processed.
THEOREM ProcessedWhenFoundOver == Spec => []FoundOverIsProcessed
<1>1. ASSUME IndInv PROVE FoundOverIsProcessed
  <2> SUFFICES ASSUME gpc \in {"loop", "exited"}, NEW n \in DOMAIN put,
                      1..n \subseteq (seen \cup Enforcer!Own) \ announced
               PROVE  n <= Len(got)
    BY DEF FoundOverIsProcessed
  <2>1. n \in Nat /\ Len(got) \in Nat
    BY <1>1 DEF IndInv, QueueInv, QueueTypes
  <2>2. Len(got) + 1 \notin 1..n
    BY <1>1 DEF IndInv, QueueInv, GaveUp
  <2> QED
    BY <2>1, <2>2
<1> QED
  BY <1>1, Invariance, PTL

-----------------------------------------------------------------------------
(* Race control uses the pool and the queue as they allow *)

\* A step is a step of the pool or leaves the pool alone.
LEMMA PoolStep == IndInv /\ [Next]_vars => [Pool!Next]_(Pool!vars)
<1> SUFFICES ASSUME IndInv, [Next]_vars
             PROVE  Pool!Next \/ UNCHANGED <<queued, running, phase>>
  BY DEF Pool!vars
<1>1. lap \in 1..MaxLap /\ inPit \subseteq Drivers
  BY DEF IndInv, TaskInv, Types
<1>2. ASSUME NEW w \in Workers, Pool!Start(w) \/ Pool!Finish(w) PROVE Pool!Next
  BY <1>2 DEF Pool!Next
<1>3. ASSUME NEW task \in Task, NEW due \in BOOLEAN, Resubmit(due, task)
      PROVE  Pool!Next \/ UNCHANGED <<queued, running, phase>>
  <2>1. CASE due /\ Idle(task.job)
    BY <1>3, <2>1 DEF Resubmit, Pool!Next
  <2>2. CASE ~(due /\ Idle(task.job))
    BY <1>3, <2>2 DEF Resubmit, poolVars
  <2> QED
    BY <2>1, <2>2
<1>4. CASE SubmitTrackLimits
  <2>1. [job |-> "track_limits", lap |-> lap, inPit |-> inPit] \in Task
    BY <1>1 DEF Task, Jobs
  <2>2. PICK due \in BOOLEAN :
            Resubmit(due, [job |-> "track_limits", lap |-> lap, inPit |-> inPit])
    <3>1. (ticks % PerTrackLimits = 0) \in BOOLEAN
      OBVIOUS
    <3> QED
      BY <1>4, <3>1, Zenon DEF SubmitTrackLimits
  <2> QED
    BY <1>3, <2>1, <2>2
<1>5. CASE SubmitWeather
  <2>1. [job |-> "weather", lap |-> lap, inPit |-> {}] \in Task
    BY <1>1 DEF Task, Jobs
  <2>2. Resubmit(TRUE, [job |-> "weather", lap |-> lap, inPit |-> {}])
    BY <1>5 DEF SubmitWeather
  <2> QED
    BY <1>3, <2>1, <2>2
<1>6. ASSUME NEW w \in Workers, WorkerStep(w)
      PROVE  Pool!Next \/ UNCHANGED <<queued, running, phase>>
  <2>1. CASE TakeTask(w)
    BY <1>2, <2>1 DEF TakeTask
  <2>2. CASE PushEnd(w) \/ WeatherDue(w)
    BY <1>2, <2>2 DEF PushEnd, WeatherDue, Over
  <2>3. CASE CheckReturns(w) \/ WeatherTooEarly(w)
    BY <1>2, <2>3 DEF CheckReturns, WeatherTooEarly, Over
  <2>4. CASE \/ CheckClean(w) \/ CheckViolation(w)
             \/ WeatherRead(w) \/ WeatherWrite(w) \/ WeatherPush(w)
    BY <2>4 DEF CheckClean, CheckViolation, WeatherRead, WeatherWrite, WeatherPush, poolVars
  <2> QED
    BY <1>6, <2>1, <2>2, <2>3, <2>4 DEF WorkerStep
<1>7. CASE MainReturns
  BY <1>7 DEF MainReturns, Pool!Next
<1>8. CASE \/ Tick \/ Enforce \/ Enforcing \/ GeneratorExit \/ MainStops \/ UNCHANGED vars
  BY <1>8 DEF Tick, Enforce, Enforcing, GeneratorExit, MainStops, vars, poolVars, workerVars
<1> QED
  BY <1>4, <1>5, <1>6, <1>7, <1>8 DEF Next, Generator, Main

\* A step is a step of the queue or leaves the queue alone.
LEMMA QueueStep == IndInv /\ [Next]_vars => [Enforcer!Queue!Next]_(Enforcer!Queue!vars)
<1> SUFFICES ASSUME IndInv, [Next]_vars
             PROVE  Enforcer!Queue!Next \/ UNCHANGED <<put, got, midflight>>
  BY DEF Enforcer!Queue!vars
<1>1. ASSUME NEW e \in Enforcer!Events, Enforcer!Queue!Exchange(e) PROVE Enforcer!Queue!Next
  BY <1>1 DEF Enforcer!Queue!Next
<1>2. ASSUME NEW i, Enforcer!Queue!Link(i) PROVE Enforcer!Queue!Next
  BY <1>2 DEF Enforcer!Queue!Next, Enforcer!Queue!Link
<1>3. CASE Enforcing
  <2>1. CASE Enforcer!DrainPop
    BY <2>1 DEF Enforcer!DrainPop, Enforcer!Queue!Next
  <2>2. CASE Enforcer!Announce
    <3>1. Enforcer!PenaltyIssued(idx) \in Enforcer!Events
      BY DEF IndInv, QueueInv, QueueTypes, Enforcer!PenaltyIssued, Enforcer!Events,
             Enforcer!Types
    <3> QED
      BY <1>1, <2>2, <3>1 DEF Enforcer!Announce
  <2>3. CASE Enforcer!AnnounceLink
    BY <1>2, <2>3 DEF Enforcer!AnnounceLink
  <2>4. CASE \/ Enforcer!DrainEnd(Certain) \/ Enforcer!Skip \/ Enforcer!Count
             \/ Enforcer!Penalise \/ Enforcer!AddPitTime \/ Enforcer!Return
    BY <2>4 DEF Enforcer!DrainEnd, Enforcer!Skip, Enforcer!Count, Enforcer!Penalise,
                Enforcer!AddPitTime, Enforcer!Return, Enforcer!queueVars
  <2> QED
    BY <1>3, <2>1, <2>2, <2>3, <2>4 DEF Enforcing, Enforcer!ProcessStep
<1>4. ASSUME NEW w \in Workers, WorkerStep(w)
      PROVE  Enforcer!Queue!Next \/ UNCHANGED <<put, got, midflight>>
  <2>1. CASE CheckViolation(w)
    <3>1. at[w] \in 1..Len(Grid)
      BY <2>1, GridAssumption DEF CheckViolation, IndInv, TaskInv, Types
    <3>2. Grid[at[w]] \in Drivers
      BY <3>1, GridAssumption
    <3>3. Enforcer!TrackLimits(Grid[at[w]]) \in Enforcer!Events
      BY <3>2 DEF Enforcer!TrackLimits, Enforcer!Events, Enforcer!Types, Enforcer!Ids
    <3> QED
      BY <1>1, <2>1, <3>3 DEF CheckViolation, PushBegin
  <2>2. CASE WeatherPush(w)
    <3>1. [type |-> "SOMETHING_ELSE", driver_id |-> NoId] \in Enforcer!Events
      BY DEF Enforcer!Events, Enforcer!Types, Enforcer!Ids
    <3> QED
      BY <1>1, <2>2, <3>1 DEF WeatherPush, PushBegin
  <2>3. CASE PushEnd(w)
    BY <1>2, <2>3 DEF PushEnd
  <2>4. CASE \/ TakeTask(w) \/ CheckClean(w) \/ CheckReturns(w)
             \/ WeatherTooEarly(w) \/ WeatherDue(w) \/ WeatherRead(w) \/ WeatherWrite(w)
    BY <2>4 DEF TakeTask, CheckClean, CheckReturns, WeatherTooEarly, WeatherDue,
                WeatherRead, WeatherWrite, queueVars
  <2> QED
    BY <1>4, <2>1, <2>2, <2>3, <2>4 DEF WorkerStep
<1>5. CASE \/ Tick \/ SubmitTrackLimits \/ SubmitWeather \/ Enforce \/ GeneratorExit
           \/ Main \/ UNCHANGED vars
  BY <1>5 DEF Tick, SubmitTrackLimits, SubmitWeather, Enforce, Enforcer!ProcessEvents,
              GeneratorExit, Main, MainStops, MainReturns, vars, queueVars,
              Enforcer!queueVars
<1> QED
  BY <1>3, <1>4, <1>5 DEF Next, Generator

\* Race control puts tasks into the pool and events into the queue only as
\* TaskPool and MpscFifo allow: what ThreadPool and MpscQueue implement is
\* what race control is built on.
THEOREM UsesTheParts == Spec => Pool!Spec /\ Enforcer!Queue!Spec
<1>1. Init => Pool!Init /\ Enforcer!Queue!Init
  BY DEF Init, Enforcer!Init
<1> QED
  BY <1>1, PoolStep, QueueStep, Invariance, PTL DEF Spec, Pool!Spec, Enforcer!Queue!Spec
=============================================================================
