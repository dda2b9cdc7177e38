------------------------- MODULE TelemetryGenerator -------------------------
(***************************************************************************)
(* The tick of simulation/telemetry_generator.cpp: each car in turn drives *)
(* or sits in the pits, a completed lap marks the frame that is pushed to  *)
(* the telemetry queue, then the positions and DRS are worked out and the  *)
(* callback of main.cpp publishes the lap.                                 *)
(*                                                                         *)
(* What makes a car fast or slow is abstracted to its speed in a tick, and *)
(* tyre wear to whether the tyres are worn out when it may pit.  Distance  *)
(* is counted in units of which a lap has LapLength, speed in units per    *)
(* tick, time in ticks of SIM_S_PER_TICK seconds.  The result of push is   *)
(* ignored by tick: see LapPipeline for the frames dropped.                *)
(***************************************************************************)
EXTENDS Integers, Sequences, FiniteSets

CONSTANTS
    Cars,               \* how many cars: indices into states_
    LapLength,          \* length of a lap
    Stagger,            \* the distance between two places on the grid
    Speeds,             \* the speeds of a car on the track
    PitSpeed,           \* the speed shown of a car in the pits
    TOTAL_LAPS,         \* 50
    PIT_STOP_TICKS,     \* 11
    FirstPitLap,        \* 5: the lap counter from which should_pit may agree
    MaxTicks            \* bound of the model: ticks of the race

ASSUME CarsAssumption == Cars \in Nat \ {0}
ASSUME TrackAssumption ==
    /\ LapLength \in Nat \ {0}
    /\ Stagger \in Nat /\ (Cars - 1) * Stagger < LapLength     \* 20 cars, 10 m
    /\ Speeds \subseteq 1..LapLength    \* 80 to 370 kph, on a lap of kilometres
    /\ PitSpeed \in Nat \ {0} /\ \A d \in Speeds : PitSpeed < d     \* 60 kph
ASSUME RaceAssumption ==
    /\ TOTAL_LAPS \in Nat /\ PIT_STOP_TICKS \in Nat \ {0} /\ FirstPitLap \in Nat
    /\ MaxTicks \in Nat

Grid == 1..Cars

\* A second, at 2.4 seconds per tick, as the fraction 5/12 of a tick.
OneSecond == <<5, 12>>

VARIABLES
    pc,                 \* "loop", "cars", "positions", "callback" or "exited"
    next,               \* the car whose turn it is in this tick
    ticks,              \* ticks begun
    lap,                \* car -> latest_frame.lap
    distance_in_lap,    \* car -> distance_in_lap
    speed,              \* car -> latest_frame.speed_kph
    lap_completed,      \* car -> whether latest_frame.lap_time_ms is not 0
    frame_in_pit,       \* car -> latest_frame.in_pit
    in_pit,             \* car -> DriverState::in_pit
    pit_timer_ticks,    \* car -> pit_timer_ticks
    has_completed_pit,  \* car -> has_completed_pit
    pit_stops,          \* car -> pit_stops
    position,           \* car -> position
    drs_active,         \* the cars whose latest_frame.drs_active is set
    race_lap_,
    race_finished_,
    current_lap,        \* RaceState::current_lap, set by the callback
    stop,               \* stop requested of the jthread
    announced,          \* history: car -> the laps whose completion the
                        \* frames pushed so far have marked, in order
    stood               \* history: car -> the ticks in which it has not moved

pitVars == <<frame_in_pit, in_pit, pit_timer_ticks, has_completed_pit, pit_stops>>
carVars == <<lap, distance_in_lap, speed, lap_completed, pitVars, announced, stood>>
tableVars == <<position, drs_active>>
raceVars == <<race_lap_, race_finished_>>
vars == <<pc, next, ticks, carVars, tableVars, raceVars, current_lap, stop>>

Init ==
    /\ pc = "loop" /\ next = 1 /\ ticks = 0 /\ stop = FALSE
    /\ lap = [c \in Grid |-> 1]
    /\ distance_in_lap = [c \in Grid |-> (Cars - c) * Stagger]
    /\ speed = [c \in Grid |-> 0]
    /\ lap_completed = [c \in Grid |-> FALSE]
    /\ frame_in_pit = [c \in Grid |-> FALSE] /\ in_pit = [c \in Grid |-> FALSE]
    /\ pit_timer_ticks = [c \in Grid |-> 0]
    /\ has_completed_pit = [c \in Grid |-> FALSE]
    /\ pit_stops = [c \in Grid |-> 0]
    /\ position = [c \in Grid |-> c] /\ drs_active = {}
    /\ race_lap_ = 1 /\ race_finished_ = FALSE /\ current_lap = 1
    /\ announced = [c \in Grid |-> <<>>] /\ stood = [c \in Grid |-> 0]

-----------------------------------------------------------------------------
(* run *)

\* The loop goes on to another tick.
BeginTick ==
    /\ pc = "loop"
    /\ ~stop /\ ~race_finished_
    /\ ticks < MaxTicks
    /\ ticks' = ticks + 1
    /\ pc' = "cars" /\ next' = 1
    /\ UNCHANGED <<carVars, tableVars, raceVars, current_lap, stop>>

Exit ==
    /\ pc = "loop"
    /\ stop \/ race_finished_
    /\ pc' = "exited"
    /\ UNCHANGED <<next, ticks, carVars, tableVars, raceVars, current_lap, stop>>

\* main's safety timeout has passed.
RequestStop ==
    /\ ~stop
    /\ stop' = TRUE
    /\ UNCHANGED <<pc, next, ticks, carVars, tableVars, raceVars, current_lap>>

-----------------------------------------------------------------------------
(* tick *)

\* It is the turn of car c; afterwards that of the next, or the positions'.
Turn(c) ==
    /\ pc = "cars" /\ next = c
    /\ next' = c + 1
    /\ pc' = IF c = Cars THEN "positions" ELSE pc

\* queue_.push(frame): the consumer is told of a completed lap by lap_time_ms.
\* The push ends the turn of the car, so what it did is recorded here.
Push(c) ==
    /\ announced' = IF lap_completed'[c]
                    THEN [announced EXCEPT ![c] = Append(@, lap'[c])]
                    ELSE announced
    /\ stood' = IF lap'[c] = lap[c] /\ distance_in_lap'[c] = distance_in_lap[c]
                THEN [stood EXCEPT ![c] = @ + 1]
                ELSE stood

\* What becomes of the marker of a lap that has ended in the pits.  Its mutant
\* leaves it as it is.
MarkerKept(c) == lap_completed[c]
MarkerInPits(c) == FALSE

\* The stop ends when the timer, already decremented, has run out.  Its mutant
\* is a tick off.
StopOverLate(c) == pit_timer_ticks'[c] < 0
StopOver(c) == pit_timer_ticks'[c] <= 0

\* handle_pit, and the push.
PitTick(c) ==
    /\ Turn(c)
    /\ in_pit[c]
    /\ pit_timer_ticks' = [pit_timer_ticks EXCEPT ![c] = @ - 1]
    /\ in_pit' = [in_pit EXCEPT ![c] = ~StopOver(c)]
    /\ frame_in_pit' = [frame_in_pit EXCEPT ![c] = ~StopOver(c)]
    /\ pit_stops' = [pit_stops EXCEPT ![c] = IF StopOver(c) THEN @ + 1 ELSE @]
    /\ speed' = [speed EXCEPT ![c] = PitSpeed]
    /\ lap_completed' = [lap_completed EXCEPT ![c] = MarkerInPits(c)]
    /\ UNCHANGED <<ticks, lap, distance_in_lap, has_completed_pit, tableVars, raceVars,
                   current_lap, stop>>
    /\ Push(c)

\* A car on the track drives a tick at speed d.
OnTrack(c, d) ==
    /\ Turn(c)
    /\ ~in_pit[c]
    /\ speed' = [speed EXCEPT ![c] = d]

\* It completes no lap.
Drive(c, d) ==
    /\ OnTrack(c, d)
    /\ distance_in_lap[c] + d < LapLength
    /\ distance_in_lap' = [distance_in_lap EXCEPT ![c] = @ + d]
    /\ lap_completed' = [lap_completed EXCEPT ![c] = FALSE]
    /\ UNCHANGED <<ticks, lap, pitVars, tableVars, raceVars, current_lap, stop>>
    /\ Push(c)

\* should_pit, called with the new lap: one stop, not early, on worn tyres.
should_pit(c, worn) ==
    /\ ~has_completed_pit[c]
    /\ lap'[c] >= FirstPitLap
    /\ worn

EnterPits(c) ==
    /\ in_pit' = [in_pit EXCEPT ![c] = TRUE]
    /\ frame_in_pit' = [frame_in_pit EXCEPT ![c] = TRUE]
    /\ pit_timer_ticks' = [pit_timer_ticks EXCEPT ![c] = PIT_STOP_TICKS]
    /\ has_completed_pit' = [has_completed_pit EXCEPT ![c] = TRUE]
    /\ UNCHANGED pit_stops

\* The race is finished by the car that was first when the last tick ended, as
\* it begins a lap more than there are.
Finishes(c) == lap'[c] > TOTAL_LAPS /\ position[c] = 1

\* Mutant of CountLap: the lap of the car that came last is taken.
CountLastLap(c) ==
    /\ race_lap_' = lap'[c]
    /\ race_finished_' = (race_finished_ \/ Finishes(c))

\* The race lap is that of the car that is furthest.
CountLap(c) ==
    /\ race_lap_' = IF lap'[c] > race_lap_ THEN lap'[c] ELSE race_lap_
    /\ race_finished_' = (race_finished_ \/ Finishes(c))

\* It completes its lap, and then may pit.
CompleteLap(c, d, worn) ==
    /\ OnTrack(c, d)
    /\ distance_in_lap[c] + d >= LapLength
    /\ distance_in_lap' = [distance_in_lap EXCEPT ![c] = @ + d - LapLength]
    /\ lap' = [lap EXCEPT ![c] = @ + 1]
    /\ lap_completed' = [lap_completed EXCEPT ![c] = TRUE]
    /\ IF should_pit(c, worn) THEN EnterPits(c) ELSE UNCHANGED pitVars
    /\ CountLap(c)
    /\ UNCHANGED <<ticks, tableVars, current_lap, stop>>
    /\ Push(c)

Total(c) == lap[c] * LapLength + distance_in_lap[c]

\* The stable sort puts a before b.  In its mutant level cars share a position.
Further(a, b) == Total(a) > Total(b)
Ahead(a, b) == Total(a) > Total(b) \/ (Total(a) = Total(b) /\ a < b)

\* gap_to_leader of car c behind leader l: the distance over the average of
\* their two speeds, as a fraction <<m, n>>.
gap_to_leader(c, l) == <<2 * (Total(l) - Total(c)), speed[l] + speed[c]>>

Minus(g, h) == <<g[1] * h[2] - h[1] * g[2], g[2] * h[2]>>
Less(g, h) == g[1] * h[2] < h[1] * g[2]

\* The gap that decides about DRS, of car c behind car a.  Its mutant takes the
\* gap to the leader.
GapToFirst(c, a, l) == gap_to_leader(c, l)
GapAhead(c, a, l) == Minus(gap_to_leader(c, l), gap_to_leader(a, l))

\* update_positions_and_drs.
UpdatePositions ==
    /\ pc = "positions"
    /\ position' = [c \in Grid |-> 1 + Cardinality({b \in Grid : Ahead(b, c)})]
    /\ drs_active' = {c \in Grid : \E l, a \in Grid :
                         /\ position'[l] = 1 /\ position'[a] = position'[c] - 1
                         /\ Less(GapAhead(c, a, l), OneSecond)}
    /\ pc' = "callback"
    /\ UNCHANGED <<next, ticks, carVars, raceVars, current_lap, stop>>

\* on_tick_: main's callback sets the lap of RaceState, which main prints.
Callback ==
    /\ pc = "callback"
    /\ current_lap' = race_lap_
    /\ pc' = "loop"
    /\ UNCHANGED <<next, ticks, carVars, tableVars, raceVars, stop>>

Next ==
    \/ BeginTick \/ Exit \/ RequestStop
    \/ \E c \in Grid :
          \/ PitTick(c)
          \/ \E d \in Speeds : Drive(c, d)
          \/ \E d \in Speeds, worn \in BOOLEAN : CompleteLap(c, d, worn)
    \/ UpdatePositions \/ Callback

Spec == Init /\ [][Next]_vars

-----------------------------------------------------------------------------
(* Properties *)

\* Every variable has its type; no car is a lap or more into its lap, and the
\* positions are one car's each.
TypeOK ==
    /\ pc \in {"loop", "cars", "positions", "callback", "exited"}
    /\ next \in 1..(Cars + 1) /\ ticks \in 0..MaxTicks
    /\ lap \in [Grid -> Nat] /\ distance_in_lap \in [Grid -> 0..(LapLength - 1)]
    /\ speed \in [Grid -> Speeds \cup {PitSpeed, 0}] /\ drs_active \subseteq Grid
    /\ lap_completed \in [Grid -> BOOLEAN]
    /\ frame_in_pit \in [Grid -> BOOLEAN] /\ in_pit \in [Grid -> BOOLEAN]
    /\ pit_timer_ticks \in [Grid -> 0..PIT_STOP_TICKS]
    /\ has_completed_pit \in [Grid -> BOOLEAN] /\ pit_stops \in [Grid -> Nat]
    /\ position \in [Grid -> Grid] /\ \A c \in Grid : \E d \in Grid : position[d] = c
    /\ race_lap_ \in Nat /\ race_finished_ \in BOOLEAN
    /\ current_lap \in Nat /\ stop \in BOOLEAN
    /\ announced \in [Grid -> Seq(Nat)] /\ stood \in [Grid -> Nat]

\* Every completed lap is marked in exactly one of the frames pushed, though
\* a car's frame lives on from tick to tick, also through the pits: no lap is
\* offered to the consumer twice, and none is left out.
EveryLapMarkedOnce ==
    \A c \in Grid : announced[c] = [i \in 1..(lap[c] - 1) |-> i + 1]

\* A car makes one stop at most, and in it stands still for PIT_STOP_TICKS
\* ticks, no more and no fewer; only then is the stop counted, and at every
\* moment the car's frame tells whether it is in the pits.
OneStopEach ==
    \A c \in Grid :
        /\ frame_in_pit[c] = in_pit[c]
        /\ stood[c] \in IF in_pit[c] THEN 0..(PIT_STOP_TICKS - 1) ELSE {0, PIT_STOP_TICKS}
        /\ pit_stops[c] = IF stood[c] = PIT_STOP_TICKS THEN 1 ELSE 0

\* What the callback publishes belongs together: the race lap is the lap of
\* the car in position 1, which no lapped car sets back, and when the race is
\* finished that car has driven it, although the finish is decided in the middle
\* of the tick by the positions of the tick before, and the car that decided it
\* may have been overtaken in the rest of the tick.
LeaderSetsTheLap ==
    pc = "callback" =>
        \A c \in Grid : position[c] = 1 =>
            /\ lap[c] = race_lap_
            /\ race_finished_ => lap[c] > TOTAL_LAPS

\* "DRS: enabled if within 1 second of the car directly ahead": the code
\* compares two gaps to the leader, each at its own average speed, and errs one
\* way only.  A car that is no faster than the one directly ahead has DRS only
\* within a second of it, one that is no slower has it whenever within a
\* second, at the speed by which its own gap is measured; the leader has none.
DrsErrsOneWay ==
    pc = "callback" =>
        \A l \in Grid : position[l] = 1 =>
            /\ l \notin drs_active
            /\ \A c, a \in Grid :
                  LET within == Less(<<2 * (Total(a) - Total(c)), speed[l] + speed[c]>>, OneSecond)
                  IN  position[a] = position[c] - 1 =>
                          /\ c \in drs_active /\ speed[c] <= speed[a] => within
                          /\ within /\ speed[c] >= speed[a] => c \in drs_active

\* "A live 50-lap race": when the race is finished, the lap that main prints
\* as the number of laps raced is TOTAL_LAPS.
RacedTotalLaps ==
    (pc = "exited" /\ race_finished_) => current_lap = TOTAL_LAPS
=============================================================================
