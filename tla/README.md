# A TLA+ model of the Formula One telemetry simulator

The simulator (C++20) runs a live race of 20 drivers in a console: a generator
thread simulates the cars 50 times a second, a consumer thread picks out the
fastest lap, a pool of two workers runs race control, and `main` prints what
they share. This directory holds TLA+ modules for its parts, TLC
configurations that check them on small instances, and proofs checked by TLAPS
for every instance of the components and of the three programs composed of them:
race control, the display and the way of a lap to the report. Paths are
relative to the root of the repository.

    tlc -workers 4 -config MCSpscQueue.cfg MCSpscQueue     # a run
    tlapm SpscQueueProofs.tla                              # the proofs

## 1. The system

### Components

| part | state | operations | must be true |
|---|---|---|---|
| `SpscQueue` (`src/concurrency/spsc_queue.h`) | ring buffer, two atomic indices, a cached copy of each on the other side | `push`, `pop`, `size_approx`, `empty` | a FIFO of `Capacity - 1` items; no slot is accessed by both threads unordered; a refusal is honest though the caches are old |
| `MpscQueue` (`src/concurrency/mpsc_queue.h`) | linked list, `head_` exchanged by producers, `tail_` walked by the consumer | `push`, `pop`, `empty`, destructor | a FIFO; a pop is told "empty" only if it is, or if the push of the oldest item is mid-flight; no node is used after its delete, none leaks |
| `ThreadPool` (`src/concurrency/thread_pool.*`) | task queue, mutex, condition variable, `stop_` | `submit`, `worker_loop`, destructor | accepted tasks are run, in order; no wakeup is lost; the destructor drains the queue and returns |
| `RaceState` (`src/common/race_state.h`) | fastest lap time and its holder, lap, two flags: all atomics | `try_claim_fastest_lap`, readers, setters | the fastest lap wins, and its holder is recorded with it |
| `Leaderboard` (`src/common/leaderboard.h`) | standings under a `shared_mutex`, id of the one writer | `update`, `snapshot`, `size`, `at_position`, ... | a snapshot is one whole update; only the thread that updated first may update |
| `LapTimeConsumer` (`src/simulation/lap_time_consumer.*`) | a `jthread` | `start`, `stop`, `run` with a drain | no completed lap that reached the queue is missed |
| `TelemetryGenerator` (`src/simulation/telemetry_generator.*`) | a `DriverState` per car, race lap, finish | `run`, `stop`, `tick` with pits, positions, DRS | each lap is announced once, one pit stop per car, positions and race lap belong together, the race is of `TOTAL_LAPS` laps |
| `PenaltyEnforcer` (`src/race_control/penalty_enforcer.*`) | warnings, penalty state and extra pit time per driver | `process_events`, `driver_entered_pits`, `driver_exited_pits`, readers | every warning is counted once; the third gives exactly one penalty and one announcement; a penalty is served in the pits |
| `TrackLimitsMonitor` (`src/race_control/track_limits.*`) | an unsynchronised random generator | `check` | one call at a time |
| `WeatherSystem` (`src/race_control/weather.*`) | the weather under a `shared_mutex`, lap of the last update, random generator | `update`, `current`, `grip_factor` | one call at a time; the weather follows its cycle, and every change is announced |
| `main` (`src/main.cpp`) | the wiring: tick callback, futures, order of stops and destructions | | single flight of both jobs; the report is of everything that happened |
| types, season data, benchmarks, tests | | | not modelled (section 8) |

### How they interact

    generator thread ── frames ──> SpscQueue ──> LapTimeConsumer ──> RaceState
       │ on_tick (main.cpp:100)                                         │
       ├── Leaderboard::update, RaceState::set_lap ────────────────> main prints
       ├── submit check, update (single flight) ──> ThreadPool, 2 workers
       │                                              │ events
       └── PenaltyEnforcer::process_events <── MpscQueue <┘
                 └── PENALTY_ISSUED ──────────────^

`main` starts the generator and the consumer, prints every half second, and at
the end stops the generator (a join), then the consumer (a join), reads the
results and destroys its locals: the pool first, which waits for its tasks.

### What is hard

* The two queues are lock-free. Loads may be old, and each side works from
  cached or half-linked state; only the acquire/release pairs order accesses.
* A push to the MPSC queue has a gap between the exchange and the link. All
  that drain the queue can meet the gap.
* The condition variable is notified without the mutex, while workers come and
  go, and while the destructor is stopping them.
* The fastest lap and its holder are two atomics that are not written together.
* Stop requests race with the last frames, the last laps and the last tasks.
* `latest_frame` and `DriverState` live on from tick to tick, and so does
  whatever a tick forgets to reset; the finish is decided in mid-tick.
* Two pool workers may each run either of two jobs whose objects are not
  thread-safe, and push while the generator thread drains.

`PROJECT.json` lists each of these hazards at the line where it bites, with the
properties that would catch it.

## 2. The modules

    abstract    Fifo  <── MpscFifo       TaskPool      Board
                  ^          ^              ^            ^           refinement
    component  SpscQueue  MpscQueue    ThreadPool   Leaderboard   FastestLap   TelemetryGenerator

    proofs     SpscQueueProofs, MpscQueueProofs, ThreadPoolProofs, TelemetryGeneratorProofs,
               PenaltyEnforcerProofs, RaceControlProofs,
               LapPipelineProofs (and FastestLap), DisplayProofs (and Leaderboard)

    LapPipeline     = Fifo + FastestLap + generator, consumer and main   (EXTENDS FastestLap)
    Display         = Leaderboard + current_lap + callback and main      (EXTENDS)
    PenaltyEnforcer = MpscFifo + process_events
    RaceControl     = PenaltyEnforcer + TaskPool + track limits, weather, tick callback

Components are checked in detail against an abstract specification, and the
compositions are built on the abstract ones: `LapPipeline` uses the `Fifo` that
`SpscQueue` implements, `PenaltyEnforcer` and `RaceControl` use the `MpscFifo`
that `MpscQueue` implements, and `RaceControl` submits to the `TaskPool` that
`ThreadPool` implements. Each `MC<module>` instantiates a module for TLC;
`Leaderboard` is checked inside `Display`, by `MCDisplay`.

### Model and code

**Fifo**: the items `put` and the items `got`, always the oldest. `Sizes` is
how many may be inside. **MpscFifo** adds the one thing callers of `MpscQueue`
must know: an item takes its place (`Exchange`) before it can be taken
(`Link`), and an item `midflight` blocks those behind it. A pop may return
false at any time in both: a pop that fails changes nothing.

**SpscQueue** takes one step per memory access. `tail_` and `head_` are
modification orders; a load returns any entry not older than one already seen,
and an acquire load learns the buffer accesses that the release store of the
entry published. `PushBegin` is the relaxed load of the own index and the test
against the cached one, `PushRefresh` the acquire load when that test says full,
`PushWrite` the assignment of the slot, `PushPublish` the release store; `pop`
is the same four. Each slot remembers the last write and read, so that a data
race is a state (`NoDataRace`). Indices are remainders modulo `Capacity`;
`MCSpscQueue` has TLC compare that with the code's `& MASK`.

**MpscQueue** has `Allocate` (new), `Exchange` (of `head_`), `Link` (store to
`prev_head->next`), `PopLoad`, `PopTake` (move out the data, advance `tail_`)
and `PopDelete`, and the destructor as pops and the delete of the sentinel.
Addresses are reused after a delete, and happens-before is tracked by the events
"built" and "linked" of a node that each thread knows of.

**ThreadPool** has the mutex as a variable and a step for each thing done under
it: test of the predicate, block, dequeue, and `submit`'s test of `stop_` and
emplace. `notify_one` wakes any one of the waiting workers, `SpuriousWakeup`
any worker at any time. **TaskPool** is what is left of it for a caller: a
sequence of tasks accepted, the task each worker runs, and whether the pool is
open, stopping or destroyed.

**FastestLap** has the load (`Claim`), the weak compare-and-exchange
(`CasSucceeds`; `CasFails`, for a reason or for none, with any entry as the new
expected value) and the store of the holder as separate steps.

**LapPipeline** is the way of a lap from `tick` through the queue and the
consumer to what `main` prints, with both stop requests. `visible` is how many
pushes happen-before the stop request that the consumer sees: the drain ends at
a pop that finds nothing, and such a pop can only miss what is not yet visible.

**TelemetryGenerator** is `tick`, one car at a time: `PitTick` (handle_pit),
`Drive`, `CompleteLap` (with `should_pit` and the count of laps), then
`UpdatePositions` (positions, gaps and DRS) and the callback's `set_lap`. What
makes a car fast is the choice of a speed in `Speeds`, a car in the pits shows
`PitSpeed` and stays where it is, tyres are worn out or not. A gap is a fraction:
twice the distance to the leader over the sum of the two speeds, as in the code,
so that the subtraction of two gaps with different speeds is the code's.
Two histories record what no variable of the code does: `announced`, the frames
whose `lap_time_ms` marks a completed lap, and `stood`, in how many ticks a car has
not moved, which is read off lap and distance and so does not trust the timer.

**PenaltyEnforcer** is `process_events` step by step: the pops of the batch, the
count, the compare-and-exchange of `NONE -> PENDING`, the two halves of the push
of `PENALTY_ISSUED`, and the store of the extra pit time. With one consumer a driver's count is three only
once, so the branch in which that exchange fails is modelled and never taken.
`driver_entered_pits` and `driver_exited_pits` are calls by other threads.

**RaceControl** is the callback of `main.cpp:100-131` and everything that runs
because of it: the futures, the pool, `check` over the copied states, `update`
with its two locks, the events, and `process_events`. The cars are the race lap
and who is in the pits. A pop may be told "nothing" while the link of a push is
not visible to the generator thread yet; `seen` are the events whose push
happens-before it, because it has found the future of the call ready.

**Leaderboard** writes and copies the standings entry by entry, so that only the
locks can keep a copy whole; an entry is the call of `update` it comes from.
**Board** is what callers rely on: the first writer owns it, its updates take
effect in order and whole, a reader is given the standings of one moment between
its call and its return.

**Display** is how a tick reaches the console: the callback updates the
leaderboard and then stores `current_lap` relaxed, `main` copies the standings
and then loads the lap relaxed. `known` is the oldest store that a load may still
return: the leaderboard's mutex orders the stores of earlier ticks before `main`,
and the join all of them. A thread that loses the leaderboard to another writer
throws, in the generator thread out of the callback, which ends the process.

## 3. The runs

| run | instance | what it shows |
|---|---|---|
| `spsc_queue` | 4 slots, 2 items, 8 pushes | `NoDataRace`, `RefusalsAreHonest`, `SizeEstimateIsSided` (never too small for the producer, never too large for the consumer), `ImplementsFifo`, `AllDelivered` |
| `mpsc_queue` | 2 producers, 2 pushes each, 4 addresses | `MemorySafe` (no use after delete, no data race), `EmptyOrMidFlight`, `NothingLeaks`, `ImplementsFifo` (of MpscFifo), `AllDelivered` |
| `thread_pool` | 2 workers, 2 clients, 2 submits each | `ImplementsPool`, `NoLostWakeup`, `AcceptedAreRun`, `DtorReturns` |
| `fastest_lap` | 2 threads, 2 claims each, 3 times | `WinsStrictlyImprove`, `NoFasterLapLost` |
| `fastest_lap_two_claimers` | the same | `HolderOwnsBest` is **violated** (section 6) |
| `lap_pipeline` | 2 drivers, 2 times, queue of 2, 4 frames | `ReportIsFastest`, `NothingLeftBehind`, `MainReturns` |
| `telemetry_generator` | 3 cars, 8 ticks, laps of 2 to 3 ticks, race of 3 laps | `EveryLapMarkedOnce`, `OneStopEach`, `LeaderSetsTheLap`, `DrsErrsOneWay` |
| `telemetry_generator_laps` | the same | `RacedTotalLaps` is **violated** (section 6) |
| `penalty_enforcer` | 2 drivers and a stranger, 2 pushers, 4 events | `WarningsCounted`, `OnePenaltyEach`, `OwnAnnouncementsWait`, `ThirdWarningPenalises` |
| `race_control` | 1 driver, 2 workers, 4 ticks, 3 laps, both jobs due on every tick and lap | `SingleFlight`, `WeatherIsAnnounced`, `FoundOverIsProcessed` |
| `race_control_unserved` | 1 driver, 2 workers, 6 ticks | `PenaltyServedInPits` is **violated** (section 6) |
| `leaderboard` | 2 writers, 2 readers, 2 entries, 3 updates each | `ImplementsBoard`, `LapLineIsRecent`, `ReportIsFinal` |

The passing runs but `lap_pipeline` and `race_control`, which are made of modules
that are checked on their own, have a `TypeOK` as well. Every property has a
mutant in its module, a definition that changes one of the code's the way a slip
would (a relaxed load for an acquire load, a lock that is not taken, a reset that
is forgotten, an `if` for a loop); with it TLC finds the property violated.

### Bounds

* `SpscQueue`: eight accepted pushes are two turns of a ring of four, so every
  slot is reused twice, every index wraps, and a cached index can be a whole turn
  old. The proofs remove the bound.
* `MpscQueue`: two producers are enough for one to link behind, or overtake, the
  other; with four nodes an address comes back while an earlier use of it is
  still remembered. A third producer only adds another gap of the same kind.
* `ThreadPool`: two workers and two clients give a notification that reaches the
  worker that does not need it, and a destructor between any two steps of either.
* `FastestLap`: two claims by each of two threads with three times cover a win
  between another's load and exchange, and between its exchange and its store.
* `LapPipeline`: a queue of two and four frames make full queues, drops, and
  frames left at either stop request.
* `PenaltyEnforcer`: four events are three warnings of one driver and one thing
  more (a fourth warning, the other driver, a stranger); two pushers can leave a
  gap in front of an event that is complete.
* `RaceControl`: periods of one tick and one lap, where the code has 9 ticks and
  5 laps, submit both jobs whenever they are idle, the most there can be; a grid
  of one driver keeps `check` to one push. Four ticks let a job be refused,
  finish, and be submitted again, and leave a tick in which its events are
  processed or left behind.
* `TelemetryGenerator`: three cars and steps of one or two thirds of a lap let
  cars overtake in every order and be lapped; eight ticks reach a finish with a
  pit stop of two ticks before it. A second is 5/12 of a tick, about a unit of
  distance at the middle of the speeds, so cars are found on either side of it. The
  cars start one unit apart, as on a grid. A tick covers at most a lap, and the grid
  is shorter than a lap (`TrackAssumption`; at 370 kph a tick is far less, and so are
  20 places of 10 m).
* `Leaderboard` and `Display`: two entries can differ, two writers can collide,
  and three ticks let the lap that is loaded be of two ticks before.

### Fairness

`Spec` is the specification without fairness; runs that check liveness use
`FairSpec`. What it assumes is that threads run: a push or a claim that has begun
goes on (weak fairness), the consumer, the workers and `process_events` are
called again and again as their loops do. Strong fairness is used in three places.
A mutex that is released again and again is got in the end (`ThreadPool`); a pop
sees a link in the end although a push that comes after it may open a new gap
(`PenaltyEnforcer`); a weak compare-and-exchange that nobody disturbs does not
fail for ever (`LapPipeline`). Nobody is assumed to push, submit or destroy
anything, and no spurious wakeup is relied on. In `LapPipeline` the step
`MainStopsGenerator` is fair because `main` has a safety timeout of 60 seconds.

`CHECK_DEADLOCK FALSE` is set where the system really stops: a destroyed queue
or pool, `main` having returned, threads whose claims are made, a finished race.

## 4. Abstract specifications and refinement

| detailed | abstract | mapping |
|---|---|---|
| `SpscQueue` | `Fifo`, sizes `0..Capacity-1` | `put <- accepted`, `got <- returned`; checked and proved |
| `MpscQueue` | `MpscFifo` | `midflight` is the set of positions whose producer is at the link; checked and proved |
| `ThreadPool` | `TaskPool` | `queued <- tasks_`, `running <- task`, `phase` from `stop_` and the destructor; checked and proved |
| `Leaderboard` | `Board` | `writer <- writer_id_`, `value` is the last complete update, `view` what a reader was given; checked (inside `Display`) and proved, of the leaderboard alone and in the program |
| `MpscFifo` | `Fifo`, any size | forget `midflight` (`MpscFifo!Unbounded`); proved (`AbstractIsFifo`, and with the line above `InOrder`) |

## 5. What is proved

**`SpscQueueProofs`** proves for every `Capacity` that is a power of two, every
set of items and every `MaxPushes`:

* `TypeCorrect`, `RaceFree` (`NoDataRace`), `HonestRefusals`
  (`RefusalsAreHonest`), `SizeSided` (`SizeEstimateIsSided`) and `Refinement`
  (`ImplementsFifo`), all from
* `Invariance`: the inductive invariant `IndInv` of `SpscQueue.tla`.

None of the properties is inductive: they speak of slots and caches, and what
makes them true is history. `IndInv` says that the n-th value of an index is
`(n-1) % Capacity` and publishes n-1 accesses (`HistoryShape`); that each
cached index is an entry really acquired, and its thread knows of just the
accesses published with it (`ProducerView`, `ConsumerView`); that by what the
producer has seen there are at most `Capacity - 1` items (`Room`) and the
consumer never passes what it has seen (`Avail`); that the slots hold the items
not yet returned (`SlotsHold`); and that the last access to a slot was at a
position that maps to it (`Ordinals`). The argument is then arithmetic: two
positions in one slot are at least a turn apart (`ModGap`),
while `Room` and `Avail` keep the two threads within a turn of each other, so the
last access to the slot in hand is one that the thread has acquired, full and
empty are told apart, and `size_approx` of two indices within a turn is exact. For a
caller on a third thread, while both indices move, no bound is stated.
The only assumptions are those of the class's static_asserts
(`CapacityAssumption`) and that `NoItem` is not an item.

**`LapPipelineProofs`** proves of `FastestLap`, for any number of threads, drivers,
times and claims:

* `Invariance`, `TypeCorrect`, `StrictWins` (`WinsStrictlyImprove`) and
  `FastestKept` (`NoFasterLapLost`). The strengthening is that a thread at the
  compare-and-exchange has a faster lap than the value it expects, and that a
  thread past it has a lap that is no faster than the record; a stale value that
  turns a claim away is itself no faster than the record, because the times fall.
* `OneClaimerKeepsHolder`: with one claiming thread `HolderOwnsBest` is an
  invariant. It is the property that two threads violate, so what `main` reports
  today is right because `LapTimeConsumer` is the only claimer.

The assumption used is that lap times are numbers below the initial value
`numeric_limits<float>::max()`.

Of `LapPipeline` it proves, for any size of the queue and number of frames:
`FastestReported` (`ReportIsFastest`), `DrainedAll` (`NothingLeftBehind`) and
`UsesTheParts`: the program is a behaviour of `Fifo` and of `FastestLap` with the
consumer as its one claimer. The invariant (`PipelineInvariance`) adds to that of
the claims: the laps claimed are those of the frames taken (`LapsOffered`); what
won was driven (`WinnersDrove`); holder and time are of one lap but between the
two stores of the consumer (`HolderFollows`); and the threads stop in the order
in which `main` joins them (`StopsInOrder`), so that by the stop request of the
consumer every push happens-before it, and the pop at which its drain ends has
missed none. Then the record is no slower than any frame's lap, and the driver
recorded drove it. Assumed: the consumer is one of the claimers, frames have
times above 0 (0 is the marker of a frame without a lap), and the bound on the
claims leaves one for every frame.

**`ThreadPoolProofs`** proves for any workers, clients and number of submits:
`Invariance`, `TypeCorrect` (`TypeOK`) and `Refinement` (`ImplementsPool`). The
mapping needs little: a worker has a task just when it runs one
(`RunsItsTask`), a worker that has exited left an empty queue of a stopped pool
(`ExitsWhenDrained`; it is stable because nothing is accepted any more), a
client inside `submit` has a task (`SubmitsItsTask`), and `stop_` is set before
the destructor notifies (`DtorInOrder`). Then the last join is the step
`Destroyed` of `TaskPool`, whose guard is that every accepted task has run.
`WakeupsArrive` (`NoLostWakeup`) rests on who holds the mutex (`HoldsTheMutex`):
between a worker's look at the predicate and its sleep no client can emplace and the
destructor cannot set `stop_`. What `notify_one` owes is counted: a client that has
emplaced and not notified, or a worker on its way to the queue, for every task
while any worker sleeps. A notification moves one from the first count to the
second, and a worker that takes a task leaves the second and takes a task off the queue.
Assumed: the threads are different and there is at least one worker.

**`DisplayProofs`** proves of `Leaderboard`, for any writers, readers, size of the
standings and number of updates: `Invariance`, `TypeCorrect` (`TypeOK`) and
`Refinement` (`ImplementsBoard`). The strengthening says what the standings are in the
middle of an update: the new one up to the entry that is written next, the last
complete one from there on (`Halfway`, `Whole`), and that no writer is there while
a reader copies (`Exclusive`), so that what it has copied so far is of the last
complete update (`CopiesLatest`). `LatestIsOwners` gives that updates are
published in order.

`UsesTheBoard` carries this into the program: the callback, `main` and the other
writers and readers do nothing to the leaderboard that `Leaderboard` does not allow.
So `WholeSnapshots` and `BoardTypes` are the two theorems for `DisplaySpec`, which
is what the run checks. `LapLines` (`LapLineIsRecent`) and `FinalReport`
(`ReportIsFinal`) rest on `DisplayInvariance`. Every tick makes one update and then
one store of the lap (`OneUpdatePerTick`), the last complete update is the
last tick's except while the next is on its way (`BoardOfTheTick`), and laps rise
(`LapsRise`). What makes a relaxed load recent enough is the mutex of the
leaderboard: whoever copies the standings of a tick knows of the stores of the
ticks before it (`KnowsOf`, `Looking`), and the join lets `main` know of all
(`AfterJoin`). Assumed: the generator is one of the writers, `main` one of the
readers, nobody is both.

**`MpscQueueProofs`** proves for any producers, addresses and number of pushes:
`TypeCorrect` (`TypeOK`), `Safe` (`MemorySafe`), `NoLeak` (`NothingLeaks`),
`EmptyIsHonest` (`EmptyOrMidFlight`), `Refinement` (`ImplementsFifo`) and, with
`AbstractIsFifo`, `InOrder`: the linked list is a FIFO. All rest on the chain of
nodes from `tail_` to `head_` (`ChainShape`). Each node of it is linked to the next, with what the
consumer needs in the release of the link, or has just one producer about to link
it (`LinkedOrPending`, `Linkers`); a producer that has not made its exchange has a
node of its own outside the chain (`Fresh`); the node that the consumer is about to
delete is outside the chain and of no producer (`Popping`), so that its address may
be given out again. That the producer may touch `prev_head` follows: it is a node
of the chain whose link is missing, and the consumer passes none such. The
acquire side of the exchange is needed where the link stores into a node that
another thread has built (`HeadPublished`). `PutOnce` says whose item is at a
position, which is what the refinement mapping of `midflight` asks.

**`PenaltyEnforcerProofs`** proves for any drivers, pushers and events:
`TypeCorrect` (`TypeOK`), `Counted` (`WarningsCounted`), `PenalisedOnce`
(`OnePenaltyEach`) and `AnnouncementsWait` (`OwnAnnouncementsWait`).
`OnePenaltyEach` is not inductive, since it says little of the middle of a call.
The invariant adds that the driver in hand has had its third warning (`InHand`), that
a driver with three warnings has its penalty unless it is the one at the
compare-and-exchange, and its announcement unless it is the one before the push
(`PenaltyFollows`), and that the batch is the end of what was popped
(`BatchIsPopped`), from which the warnings counted are those of the events
before the batch. That no call pops its own announcement is because it announces
only when its pops are over (`AnnouncedLater`).

**`RaceControlProofs`** proves for any grid, workers, periods and length of the race:
`OneInFlight` (`SingleFlight`), `ChangesAnnounced` (`WeatherIsAnnounced`) and
`ProcessedWhenFoundOver` (`FoundOverIsProcessed`). A future that is pending has its
call at one place, in the queue of the pool or at one worker (`OneCall`). From that
there is one `update` at a time, and the invariant can follow it between its two
locks and to its push (`ChangeInHand`): the weather it has in hand is the one after
the last announced, and is the one readers see only from the write on. The third
theorem needs only that the pops of the last call gave up before a place whose
link they could miss (`GaveUp`), and that what happens later, pushes of the workers
and of the call itself, is behind that place. `UsesTheParts` is what justifies building race control on
abstract specifications: it does to the pool and to the queue only what `TaskPool`
and `MpscFifo` allow, which `ThreadPool` and `MpscQueue` are proved to implement.
The assumptions added are that `Grid` is a sequence and that `NoTask` is not a task.

**`TelemetryGeneratorProofs`** proves for any number of cars, track, race and stop:
`MarkedOnce` (`EveryLapMarkedOnce`), `OneStop` (`OneStopEach`) and `LeadersLap`
(`LeaderSetsTheLap`) from `Invariance`. A stop cannot begin twice because a car in the pits has used its one
(`InPitsForTheStop`). It lasts `PIT_STOP_TICKS` ticks because the ticks stood still
and those left on the timer always add up to that, and the timer runs out just when
the car leaves the pits (`TimerCounts`). The published lap is the leader's because
the race lap is the highest lap of a car (`RaceLapIsHighest`), nobody is ahead of
the car in position 1 (`LeaderIsFirst`: the position counts the cars ahead), and a
car on a later lap is ahead wherever the two are in their laps
(`LaterLapIsFurther`). The leader of a finished race has driven it because some car
has (`SomeoneFinished`) and is not ahead. The step to the lap of
the leader is where the assumption on the speeds is needed: a car that drove more
than a lap in a tick would carry more than a lap into the next.

From a second invariant, `TableInvariance`, follow `TypeCorrect` (`TypeOK`) and
`DrsOneWay` (`DrsErrsOneWay`). Ahead is a strict order of all cars, so the position
that counts the cars ahead is a permutation (`PositionsCount`; level cars are
in the order in which the stable sort leaves them); every car shows a speed when gaps are computed, so no gap is
divided by zero (`SpeedsShown`). The rest is arithmetic: two cars at distances Y and
Y + D behind the leader with speed sums G and H have gaps whose difference is at
least D / G when G <= H, and at most D / G when G >= H.

Only model-checked is liveness: `AllDelivered`, `AcceptedAreRun`, `DtorReturns`,
`MainReturns` and `ThirdWarningPenalises` need fairness, hence ENABLED, which is out
of the prover's reach. Every invariant and action property of a passing run, and
every refinement, is a theorem.

## 6. Where code and text disagree

1. **The holder of the fastest lap** (`fastest_lap_two_claimers`;
   `src/common/race_state.h:100`). The time is exchanged, then the holder is
   stored. When a second thread wins between the two, the first thread's store
   comes last and the slower driver stays recorded with the faster time. The
   comment (lines 79-80) says that several threads may claim. Latent: the
   simulator has one claimer, and the tests claim equal times only.
2. **Penalties are never served** (`race_control_unserved`). The header says that
   `driver_entered_pits` and `driver_exited_pits` are "called by the simulator";
   nothing but a test calls them, so a penalty stays `PENDING` through the pit
   stop (`docs/race_run.png` shows a driver with a stop and `PEN` at the finish).
   The extra pit time that is stored is read by nobody either.
3. **A race of 51 laps** (`telemetry_generator_laps`). `race_lap_` is the lap
   that the leader is on; the finish is when it begins lap `TOTAL_LAPS + 1`, and
   that number is printed as the laps raced (`docs/race_run.png`: "RACE FINISHED
   after 51 laps"; `README.md:19`: "50-lap").

One promise is kept in part, and the passing run `telemetry_generator` says which:
DRS is for a car "within 1 second of the car directly ahead"
(`telemetry_generator.cpp:231`). It is decided by the difference of two gaps to the
leader, each with an average speed of its own. `DrsErrsOneWay` is what remains true:
a faster car may have DRS though it is more than a second behind a slower one (one in
the pits, say), and a slower car may be without it although it is near. For the same
reason gaps need not be in the order of the positions (`docs/race_run.png`).

Behaviour worth knowing, without a run of its own:

* Whether the car that completes the last lap is in position 1 is asked of the
  positions of the tick before (`telemetry_generator.cpp:145`). A car that takes the
  lead in that very tick does not finish the race, although it leads it with all laps
  driven: the race goes on until a car that is first when its tick begins completes a
  lap. What holds (`LeaderSetsTheLap`) is that the leader of a finished race has
  driven it, though another car may have decided the finish.
* A frame that meets a full telemetry queue is dropped
  (`telemetry_generator.cpp:153`), with the lap it may complete. It takes a consumer
  that is held up for about two seconds, and is meant; the fastest lap printed is that
  of the frames that reached the queue, not of "every completed lap"
  (`main.cpp:211-213`).
* Events that the workers push after the last `process_events` are processed by
  nobody. `FoundOverIsProcessed` bounds what can be missing: only events of calls
  that were in flight at the last tick, and what is queued behind one of them.
  `PENALTY_ISSUED` events are popped by the next call, which ignores them: in the
  simulator no one reads them.
* `main` prints weather and grip from two calls with a lock each, so a line may
  show the grip of another weather (`main.cpp:158`).
* `race_active` is set by `main` and read by nobody, though `race_state.h:41` has all
  threads read it every tick; `safety_car` is not used.
* The standings are updated every tick, not once per lap as `leaderboard.h:14` says.

## 7. Plan

Done in this order, the most important behaviour first: SPSC queue, MPSC queue,
thread pool, fastest lap, lap pipeline, penalty enforcer, race control, telemetry
generator, leaderboard; the proofs of the SPSC queue and of the fastest lap; the
abstract pool and board with their refinements, proved, gaps and DRS, and the
display; the proofs of the generator; those of the MPSC queue, of the wakeups of the
pool, of the penalty enforcer, of race control and of DRS; last those of the display
and of the lap pipeline, and that the compositions use their parts as these allow.

Left: that race control makes of the penalty enforcer only what `PenaltyEnforcer`
allows, with a pushing thread per worker, so that its counting theorems hold there.

## 8. Not modelled

* Floating-point physics (speed, tyres, fuel, lap times in ms): the models keep
  what it decides. Rounding is left out: a gap is an exact fraction.
* Console output, colours and formatting; sleeping and the pace of 50 Hz: time
  appears only as the nondeterminism it leaves.
* A thread that cannot be created and an allocation that fails: the program ends.
* `race_active`, `safety_car`: independent flags that nothing depends on.
* `TelemetryGenerator::standings`: a copy that nobody asks for, and that its header
  says is not thread-safe.
* `src/common/types.h`, `src/common/season_data.h`: records and tables.
* `benchmarks/`: measurements. `tests/`: read as statements of what is promised.
* Weak memory beyond the two queues, the claim, the displayed lap and the events
  of the workers: what is under a mutex is taken
  as sequentially consistent, which the mutex gives.
