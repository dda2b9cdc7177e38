---------------------------- MODULE RaceControl -----------------------------
(***************************************************************************)
(* Race control as main.cpp wires it: after every tick the generator       *)
(* thread submits TrackLimitsMonitor::check (every PerTrackLimits-th tick) *)
(* and WeatherSystem::update to the thread pool, each only when its last   *)
(* call is over, and then runs PenaltyEnforcer::process_events itself; the *)
(* pool's workers push events into the race control queue meanwhile.       *)
(*                                                                         *)
(* The pool is the TaskPool that ThreadPool implements, the queue is the   *)
(* MpscFifo that MpscQueue implements, inside PenaltyEnforcer.             *)
(* The simulation is abstracted to the race lap, and to who is in the pits.*)
(***************************************************************************)
EXTENDS Naturals, Sequences, FiniteSets

CONSTANTS
    Grid,               \* the drivers, in the order of DRIVERS
    NoId,               \* the driver_id of an event that names no driver
    Workers,            \* the threads of the pool
    NoTask,             \* what an idle worker runs
    PerTrackLimits,     \* 9: ticks from one track limits check to the next
    WeatherLaps,        \* 5: laps from one weather update to the next
    MaxTicks,           \* bound of the model: ticks of the race
    MaxLap              \* bound of the model: laps of the race

ASSUME PeriodAssumption == PerTrackLimits \in Nat \ {0} /\ WeatherLaps \in Nat \ {0}
ASSUME BoundsAssumption == MaxTicks \in Nat /\ MaxLap \in Nat \ {0}

Drivers == {Grid[i] : i \in DOMAIN Grid}
ASSUME GridAssumption == Grid \in Seq(Drivers)
Jobs == {"track_limits", "weather"}
WeatherStates == {"DRY", "DAMP", "WET"}

VARIABLES
    gpc,                \* where the generator thread is
    stopGenerator,      \* stop requested of its jthread
    ticks,              \* tick_counter
    lap,                \* race_lap_
    inPit,              \* the drivers in the pits
    pitted,             \* the drivers that have made their stop
    future,             \* job -> "invalid", "pending" or "ready"
    queued, running,    \* the pool: the tasks waiting, worker -> task
    phase,              \* and whether it is being destroyed
    seen,               \* the positions in put whose push happens-before the
                        \* generator: it has found the call that made it over
    wpc,                \* worker -> where it is in the task
    at,                 \* worker -> the index of the driver it checks next
    pushing,            \* worker -> the position in put it is pushing at
    state_,             \* the weather
    last_update_lap_,
    new_state,          \* worker -> the weather it is about to write
    changes,            \* history: the weather changes announced, in order
    owed,               \* history: the drivers whose penalty was PENDING when
                        \* they entered the pits
    mpc                 \* where main is

\* the variables of PenaltyEnforcer
VARIABLES put, got, midflight, pc, batch, idx, warnings_, states_,
          extra_pit_time_, announced

queueVars == <<put, got, midflight>>
enforcerVars == <<pc, batch, idx, warnings_, states_, extra_pit_time_, announced>>
simVars == <<lap, inPit, pitted, owed>>
weatherVars == <<state_, last_update_lap_, new_state, changes>>
workerVars == <<running, wpc, at, pushing>>
poolVars == <<future, queued, phase, seen>>
threadVars == <<gpc, stopGenerator, ticks, mpc>>
vars == <<threadVars, simVars, poolVars, workerVars, weatherVars, queueVars, enforcerVars>>

\* The tasks and their ticks bound the events; the bound of PenaltyEnforcer
\* on its unknown pushers is not used here.
Enforcer == INSTANCE PenaltyEnforcer WITH
    Strangers <- {NoId}, Pushers <- 0, MaxEvents <- 0

Task == [job : Jobs, lap : 1..MaxLap, inPit : SUBSET Drivers]
Pool == INSTANCE TaskPool WITH Tasks <- Task

ASSUME NoTaskAssumption == NoTask \notin Task

Init ==
    /\ gpc = "loop" /\ stopGenerator = FALSE /\ ticks = 0 /\ mpc = "race"
    /\ lap = 1 /\ inPit = {} /\ pitted = {} /\ owed = {}
    /\ Pool!Init /\ future = [j \in Jobs |-> "invalid"] /\ seen = {}
    /\ wpc = [w \in Workers |-> "idle"]
    /\ at = [w \in Workers |-> 1] /\ pushing = [w \in Workers |-> 0]
    /\ state_ = "DRY" /\ last_update_lap_ = 0
    /\ new_state = [w \in Workers |-> "DRY"] /\ changes = <<>>
    /\ Enforcer!Init /\ idx = NoId

-----------------------------------------------------------------------------
(* the generator thread: tick, then the callback that main registers *)

\* One tick.  Nobody tells the enforcer of a driver who enters the pits, or
\* leaves them.
Tick ==
    /\ gpc = "loop" /\ ~stopGenerator
    /\ ticks < MaxTicks
    /\ ticks' = ticks + 1
    /\ lap' \in {lap, lap + 1} \cap 1..MaxLap
    /\ \E entering \in SUBSET (Drivers \ pitted), leaving \in SUBSET inPit :
          /\ inPit' = (inPit \ leaving) \cup entering
          /\ pitted' = pitted \cup entering
          /\ owed' = owed \cup {d \in entering : states_[d] = "PENDING"}
    /\ gpc' = "track_limits"
    /\ UNCHANGED <<stopGenerator, mpc, poolVars, workerVars, weatherVars, queueVars,
                   enforcerVars>>

\* The stored future is invalid, or its task is over.  The mutant does not
\* look at it.
IdleAlways(job) == TRUE
Idle(job) == future[job] # "pending"

\* The events that the calls of a job have pushed.
PushedBy(job) ==
    {i \in DOMAIN put :
        put[i].type = IF job = "weather" THEN "SOMETHING_ELSE" ELSE "TRACK_LIMITS"}

\* The job is due; the task is submitted unless the last call is in flight.
Resubmit(due, task) ==
    IF due /\ Idle(task.job)
    THEN /\ Pool!Submit(task)
         /\ future' = [future EXCEPT ![task.job] = "pending"]
         /\ seen' = seen \cup PushedBy(task.job)
    ELSE UNCHANGED <<poolVars, running>>

\* The states are copied before the generator's next tick changes them.
SubmitTrackLimits ==
    /\ gpc = "track_limits"
    /\ Resubmit(ticks % PerTrackLimits = 0,
                [job |-> "track_limits", lap |-> lap, inPit |-> inPit])
    /\ gpc' = "weather"
    /\ UNCHANGED <<stopGenerator, ticks, mpc, simVars, wpc, at, pushing, weatherVars,
                   queueVars, enforcerVars>>

SubmitWeather ==
    /\ gpc = "weather"
    /\ Resubmit(TRUE, [job |-> "weather", lap |-> lap, inPit |-> {}])
    /\ gpc' = "enforce"
    /\ UNCHANGED <<stopGenerator, ticks, mpc, simVars, wpc, at, pushing, weatherVars,
                   queueVars, enforcerVars>>

\* penalty.process_events() is called, runs, and returns.
Enforce ==
    /\ gpc = "enforce"
    /\ Enforcer!ProcessEvents
    /\ gpc' = "enforcing"
    /\ UNCHANGED <<stopGenerator, ticks, mpc, simVars, poolVars, workerVars, weatherVars>>

\* The positions whose links happen-before the pops of process_events.  In the
\* mutant nothing is learnt from a future that is ready.
OwnOnly == Enforcer!Own
Certain == Enforcer!Own \cup seen

Enforcing ==
    /\ gpc = "enforcing"
    /\ Enforcer!DrainPop \/ Enforcer!DrainEnd(Certain) \/ Enforcer!ProcessStep
    /\ gpc' = IF pc' = "idle" THEN "loop" ELSE gpc
    /\ UNCHANGED <<stopGenerator, ticks, mpc, simVars, poolVars, workerVars, weatherVars>>

\* The loop of run() ends: stopped, or the race is finished.
GeneratorExit ==
    /\ gpc = "loop"
    /\ stopGenerator \/ ticks = MaxTicks
    /\ gpc' = "exited"
    /\ UNCHANGED <<stopGenerator, ticks, mpc, simVars, poolVars, workerVars, weatherVars,
                   queueVars, enforcerVars>>

-----------------------------------------------------------------------------
(* a worker of the pool *)

TakeTask(w) ==
    /\ Pool!Start(w)
    /\ wpc' = [wpc EXCEPT ![w] = IF running'[w].job = "weather" THEN "gate" ELSE "check"]
    /\ UNCHANGED <<future, seen, at, pushing, threadVars, simVars, weatherVars, queueVars,
                   enforcerVars>>

\* The task of worker w returns: its future is ready, its locals are gone.
Over(w) ==
    /\ future' = [future EXCEPT ![running[w].job] = "ready"]
    /\ Pool!Finish(w)
    /\ wpc' = [wpc EXCEPT ![w] = "idle"]
    /\ at' = [at EXCEPT ![w] = 1]
    /\ pushing' = [pushing EXCEPT ![w] = 0]
    /\ new_state' = [new_state EXCEPT ![w] = "DRY"]

\* Worker w takes the next place in the race control queue for event e.
PushBegin(w, e) ==
    /\ Enforcer!Queue!Exchange(e)
    /\ pushing' = [pushing EXCEPT ![w] = Len(put')]
    /\ wpc' = [wpc EXCEPT ![w] = "link"]

\* A worker completes its push; check goes on to the next driver, update
\* returns.
PushEnd(w) ==
    /\ wpc[w] = "link"
    /\ Enforcer!Queue!Link(pushing[w])
    /\ IF running[w].job = "weather"
       THEN Over(w)
       ELSE /\ wpc' = [wpc EXCEPT ![w] = "check"]
            /\ UNCHANGED <<future, queued, phase, running, at, pushing, new_state>>
    /\ UNCHANGED <<seen, threadVars, simVars, state_, last_update_lap_, changes,
                   enforcerVars>>

\* check: the next driver is in the pits as far as the copy tells, or the dice
\* let it off.
CheckClean(w) ==
    /\ wpc[w] = "check" /\ at[w] <= Len(Grid)
    /\ at' = [at EXCEPT ![w] = @ + 1]
    /\ UNCHANGED <<running, wpc, pushing, poolVars, threadVars, simVars, weatherVars,
                   queueVars, enforcerVars>>

\* check: the next driver has exceeded the track limits.
CheckViolation(w) ==
    /\ wpc[w] = "check" /\ at[w] <= Len(Grid)
    /\ Grid[at[w]] \notin running[w].inPit
    /\ PushBegin(w, Enforcer!TrackLimits(Grid[at[w]]))
    /\ at' = [at EXCEPT ![w] = @ + 1]
    /\ UNCHANGED <<running, poolVars, threadVars, simVars, weatherVars, enforcerVars>>

CheckReturns(w) ==
    /\ wpc[w] = "check" /\ at[w] > Len(Grid)
    /\ Over(w)
    /\ UNCHANGED <<seen, threadVars, simVars, state_, last_update_lap_, changes, queueVars,
                   enforcerVars>>

\* update: too early.
WeatherTooEarly(w) ==
    /\ wpc[w] = "gate"
    /\ running[w].lap - last_update_lap_ < WeatherLaps
    /\ Over(w)
    /\ UNCHANGED <<seen, threadVars, simVars, state_, last_update_lap_, changes, queueVars,
                   enforcerVars>>

\* last_update_lap_ of an update at a lap.  In the mutant it is not kept.
StillAsBefore(at_lap) == last_update_lap_
Keep(at_lap) == at_lap

\* update: the lap is kept, and the dice decide whether the weather changes.
WeatherDue(w) ==
    /\ wpc[w] = "gate"
    /\ running[w].lap - last_update_lap_ >= WeatherLaps
    /\ last_update_lap_' = Keep(running[w].lap)
    /\ \/ Over(w)
       \/ /\ wpc' = [wpc EXCEPT ![w] = "read"]
          /\ UNCHANGED <<future, queued, phase, running, at, pushing, new_state>>
    /\ UNCHANGED <<seen, threadVars, simVars, state_, changes, queueVars, enforcerVars>>

\* The weather that comes after weather s.
Following == [s \in WeatherStates |->
                 CASE s = "DRY" -> "DAMP" [] s = "DAMP" -> "WET" [] s = "WET" -> "DRY"]

\* Under the shared lock.
WeatherRead(w) ==
    /\ wpc[w] = "read"
    /\ new_state' = [new_state EXCEPT ![w] = Following[state_]]
    /\ wpc' = [wpc EXCEPT ![w] = "write"]
    /\ UNCHANGED <<running, at, pushing, state_, last_update_lap_, changes, poolVars,
                   threadVars, simVars, queueVars, enforcerVars>>

\* Under the exclusive lock.
WeatherWrite(w) ==
    /\ wpc[w] = "write"
    /\ state_' = new_state[w]
    /\ wpc' = [wpc EXCEPT ![w] = "push"]
    /\ UNCHANGED <<running, at, pushing, last_update_lap_, new_state, changes, poolVars,
                   threadVars, simVars, queueVars, enforcerVars>>

WeatherPush(w) ==
    /\ wpc[w] = "push"
    /\ PushBegin(w, [type |-> "SOMETHING_ELSE", driver_id |-> NoId])
    /\ changes' = Append(changes, [lap |-> running[w].lap, to |-> new_state[w]])
    /\ UNCHANGED <<running, at, state_, last_update_lap_, new_state, poolVars, threadVars,
                   simVars, enforcerVars>>

WorkerStep(w) ==
    \/ TakeTask(w) \/ PushEnd(w)
    \/ CheckClean(w) \/ CheckViolation(w) \/ CheckReturns(w)
    \/ WeatherTooEarly(w) \/ WeatherDue(w)
    \/ WeatherRead(w) \/ WeatherWrite(w) \/ WeatherPush(w)

-----------------------------------------------------------------------------
(* main *)

\* The race is over, or timed out: generator.stop().
MainStops ==
    /\ mpc = "race"
    /\ stopGenerator' = TRUE
    /\ mpc' = "join"
    /\ UNCHANGED <<gpc, ticks, simVars, poolVars, workerVars, weatherVars, queueVars,
                   enforcerVars>>

\* The generator is joined, main reports and returns: the pool, declared
\* last, is destroyed first, and its destructor waits for the tasks.
MainReturns ==
    /\ \/ mpc = "join" /\ gpc = "exited" /\ Pool!Stop /\ mpc' = "destroy"
       \/ mpc = "destroy" /\ Pool!Destroyed /\ mpc' = "returned"
    /\ UNCHANGED <<gpc, stopGenerator, ticks, simVars, future, seen, wpc, at, pushing,
                   weatherVars, queueVars, enforcerVars>>

Generator == Tick \/ SubmitTrackLimits \/ SubmitWeather \/ Enforce \/ Enforcing \/ GeneratorExit
Main == MainStops \/ MainReturns

Next == Generator \/ (\E w \in Workers : WorkerStep(w)) \/ Main

Spec == Init /\ [][Next]_vars

-----------------------------------------------------------------------------
(* Properties *)

\* The calls of a job that have been submitted and are not over.
InFlight(job) ==
    Cardinality({i \in DOMAIN queued : queued[i].job = job})
    + Cardinality({w \in Workers : running[w] # NoTask /\ running[w].job = job})

\* "Guarded so at most one call is ever in flight", though either worker may
\* run either job: the unsynchronised state of TrackLimitsMonitor and of
\* WeatherSystem is touched by one worker at a time, and it is safe to forget
\* a future just when its call is over.
SingleFlight ==
    \A j \in Jobs : InFlight(j) = IF future[j] = "pending" THEN 1 ELSE 0

\* The weather changes announced follow the cycle without a gap or a repeat,
\* are WeatherLaps laps apart, and are the changes there have been: the last
\* is the weather that readers see, or its announcement is still to come.
WeatherIsAnnounced ==
    /\ \A i \in DOMAIN changes :
          LET before == IF i = 1 THEN [lap |-> 0, to |-> "DRY"] ELSE changes[i - 1] IN
          /\ changes[i].to = Following[before.to]
          /\ changes[i].lap >= before.lap + WeatherLaps
    /\ \/ state_ = IF changes = <<>> THEN "DRY" ELSE changes[Len(changes)].to
       \/ \E w \in Workers : wpc[w] = "push" /\ new_state[w] = state_

\* What can be missing from the report, since nobody processes events after
\* the last call of process_events: only events of calls that were in flight
\* then, and what is queued behind one of them.  The events of calls found
\* over, and earlier announcements, have been processed when it returns.
FoundOverIsProcessed ==
    gpc \in {"loop", "exited"} =>
        \A n \in DOMAIN put : 1..n \subseteq (seen \cup Enforcer!Own) \ announced => n <= Len(got)

\* "Called by the simulator when a driver enters/exits the pits": a driver
\* who has a penalty when it enters the pits has served it when it leaves.
PenaltyServedInPits ==
    \A d \in owed \ inPit : gpc = "loop" => states_[d] = "SERVED"
=============================================================================
