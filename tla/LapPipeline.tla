---------------------------- MODULE LapPipeline -----------------------------
(***************************************************************************)
(* From a completed lap to the fastest lap that main reports: the          *)
(* generator thread pushes telemetry frames into the SPSC queue, the       *)
(* LapTimeConsumer thread pops them and claims lap times on RaceState, and *)
(* main stops the two in order and reads the result.                       *)
(*                                                                         *)
(* The queue is the abstract Fifo that SpscQueue implements, the claims    *)
(* are those of FastestLap, where the consumer is the only thread that     *)
(* makes any.  A frame is its driver and its lap_time_ms, 0 when the tick  *)
(* completed no lap.                                                       *)
(***************************************************************************)
EXTENDS FastestLap

CONSTANTS
    Consumer,       \* the thread of LapTimeConsumer
    QueueSize,      \* items the queue holds: Capacity - 1
    MaxFrames       \* bound of the model: frames produced in one race

\* The bound on claims stops none of the consumer's.
ASSUME ConsumerAssumption == Consumer \in Claimers /\ MaxFrames <= MaxClaims
ASSUME TimesArePositive == 0 \notin Times
ASSUME QueueSizeAssumption == QueueSize \in Nat \ {0}
ASSUME MaxFramesAssumption == MaxFrames \in Nat

\* driver_id is one of DRIVERS: the generator copies it from there.
Frames == [driver : Drivers, ms : {0} \cup Times]

VARIABLES
    put, got,               \* the queue
    visible,                \* frames whose push happens-before the consumer
    gpc,                    \* the generator thread
    race_finished_,
    produced,               \* how many frames tick has pushed, dropped ones too
    cpc,                    \* the consumer thread: its loop
    mpc,                    \* where main is
    stopGenerator,          \* stop requested of the generator's jthread
    stopConsumer,           \* stop requested of the consumer's jthread
    report                  \* the fastest lap main prints

queueVars == <<put, got>>

vars == <<queueVars, visible, gpc, race_finished_, produced, cpc, mpc,
          stopGenerator, stopConsumer, report, claimVars>>

Queue == INSTANCE Fifo WITH Items <- Frames, Sizes <- 0..QueueSize

NoReport == [driver |-> NoDriver, ms |-> MaxFloat]

PipelineInit ==
    /\ Queue!Init /\ Init
    /\ visible = 0
    /\ gpc = "run" /\ race_finished_ = FALSE /\ produced = 0
    /\ cpc = "poll"
    /\ mpc = "race" /\ stopGenerator = FALSE /\ stopConsumer = FALSE
    /\ report = NoReport

-----------------------------------------------------------------------------
(* TelemetryGenerator, as far as the queue and its thread go *)

\* tick() pushes a frame.  A push that meets a full queue is dropped; the
\* head_ it sees may be an old one, so it can be refused from the moment
\* QueueSize frames have been put.  A frame that completes a lap may finish
\* the race.
GeneratorPush(f) ==
    /\ gpc = "run"
    /\ produced < MaxFrames
    /\ produced' = produced + 1
    /\ \/ Queue!Put(f)
       \/ Len(put) >= QueueSize /\ UNCHANGED queueVars
    /\ race_finished_' \in {race_finished_, race_finished_ \/ f.ms > 0}
    /\ UNCHANGED <<visible, gpc, cpc, mpc, stopGenerator, stopConsumer, report, claimVars>>

\* The condition of the loop in run.  The mutant does not look at the stop token.
FinishedOnly == race_finished_
LoopEnds == stopGenerator \/ race_finished_

\* run() leaves its loop between two ticks.
GeneratorExit ==
    /\ gpc = "run"
    /\ LoopEnds
    /\ gpc' = "exited"
    /\ UNCHANGED <<queueVars, visible, race_finished_, produced, cpc, mpc, stopGenerator,
                   stopConsumer, report, claimVars>>

-----------------------------------------------------------------------------
(* LapTimeConsumer::run *)

Claiming == pc[Consumer] # "idle"

\* What comes after the polling.  In the mutant there is no drain.
ExitAtOnce == "exited"
AfterPolling == "drain"

\* The test of the loop: a requested stop ends the polling.
ConsumerSeesStop ==
    /\ cpc = "poll" /\ ~Claiming
    /\ stopConsumer
    /\ cpc' = AfterPolling
    /\ UNCHANGED <<queueVars, visible, gpc, race_finished_, produced, mpc, stopGenerator,
                   stopConsumer, report, claimVars>>

\* A pop, polling or draining, that returns a frame; the lap it completed, if
\* any, is offered to RaceState.  A poll that returns false only sleeps.
ConsumerPop ==
    /\ cpc \in {"poll", "drain"} /\ ~Claiming
    /\ Queue!Take
    /\ LET f == put[Len(got) + 1] IN
          IF f.ms > 0
          THEN \E k \in seen[Consumer]..Newest :
                   Claim(Consumer, f.driver, f.ms, k)
          ELSE UNCHANGED claimVars
    /\ UNCHANGED <<visible, gpc, race_finished_, produced, cpc, mpc, stopGenerator,
                   stopConsumer, report>>

ConsumerClaims ==
    /\ Step(Consumer)
    /\ UNCHANGED <<queueVars, visible, gpc, race_finished_, produced, cpc, mpc,
                   stopGenerator, stopConsumer, report>>

\* The pop that ends the drain returns false: the consumer has popped at
\* least all the frames whose push happens-before the stop request.
ConsumerExit ==
    /\ cpc = "drain" /\ ~Claiming
    /\ Len(got) >= visible
    /\ cpc' = "exited"
    /\ UNCHANGED <<queueVars, visible, gpc, race_finished_, produced, mpc, stopGenerator,
                   stopConsumer, report, claimVars>>

-----------------------------------------------------------------------------
(* main *)

\* The loop ends when the race is finished, or by the safety timeout: then
\* generator.stop() requests the stop.
MainStopsGenerator ==
    /\ mpc = "race"
    /\ stopGenerator' = TRUE
    /\ mpc' = "joinGenerator"
    /\ UNCHANGED <<queueVars, visible, gpc, race_finished_, produced, cpc, stopConsumer,
                   report, claimVars>>

\* The generator is joined; lap_consumer.stop() requests the stop, and what
\* happened before it happens-before the consumer that sees it.
MainStopsConsumer ==
    /\ mpc = "joinGenerator"
    /\ gpc = "exited"
    /\ stopConsumer' = TRUE
    /\ visible' = Len(put)
    /\ mpc' = "joinConsumer"
    /\ UNCHANGED <<queueVars, gpc, race_finished_, produced, cpc, stopGenerator, report,
                   claimVars>>

\* join returns.  In the mutant stop() only requests the stop.
NotJoined == stopConsumer
ConsumerJoined == cpc = "exited"

\* The consumer is joined; main reads the holder and, if there is one, the time.
MainReports ==
    /\ mpc = "joinConsumer"
    /\ ConsumerJoined
    /\ report' = IF fastest_lap_holder = NoDriver THEN NoReport
                 ELSE [driver |-> fastest_lap_holder, ms |-> Best]
    /\ mpc' = "done"
    /\ UNCHANGED <<queueVars, visible, gpc, race_finished_, produced, cpc, stopGenerator,
                   stopConsumer, claimVars>>

-----------------------------------------------------------------------------

Generator == (\E f \in Frames : GeneratorPush(f)) \/ GeneratorExit
LapTimeConsumer == ConsumerSeesStop \/ ConsumerPop \/ ConsumerClaims \/ ConsumerExit
Main == MainStopsGenerator \/ MainStopsConsumer \/ MainReports

PipelineNext == Generator \/ LapTimeConsumer \/ Main

PipelineSpec == PipelineInit /\ [][PipelineNext]_vars

\* The threads run, and main's timeout passes; a compare-and-exchange that
\* nobody else disturbs does not fail for ever.
Fairness ==
    /\ WF_vars(GeneratorExit)
    /\ WF_vars(ConsumerSeesStop \/ ConsumerExit)
    /\ WF_vars(ConsumerPop)
    /\ SF_vars(ConsumerClaims /\ CasSucceeds(Consumer))
    /\ WF_vars(ConsumerClaims /\ StoreHolder(Consumer))
    /\ WF_vars(Main)

FairSpec == PipelineSpec /\ Fairness

-----------------------------------------------------------------------------
(* Properties *)

\* Frame r is the fastest lap among frames: nobody drove a faster one.
IsFastest(r, frames) ==
    LET laps == {frames[i] : i \in DOMAIN frames} \ [driver : Drivers, ms : {0}] IN
    IF laps = {} THEN r = NoReport
    ELSE r \in laps /\ \A f \in laps : r.ms <= f.ms

\* The driver and time that main prints belong together and are the fastest
\* lap of all the frames that reached the queue, also of those pushed in the
\* last tick of the race.
ReportIsFastest == mpc = "done" => IsFastest(report, put)

\* "Drain whatever's left so a race that just finished isn't missing its
\* last few laps": the consumer does not exit before it has popped them all.
NothingLeftBehind == cpc = "exited" => got = put

\* The program ends, however the stop requests meet the threads.
MainReturns == <>(mpc = "done")
=============================================================================
