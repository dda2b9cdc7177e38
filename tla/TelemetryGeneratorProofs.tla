---------------------- MODULE TelemetryGeneratorProofs ----------------------
(***************************************************************************)
(* For any number of cars, any track, race length and pit stop: every lap  *)
(* is marked once, a car makes one stop at most, and the race lap that the *)
(* callback publishes is the leader's.                                     *)
(***************************************************************************)
EXTENDS TelemetryGenerator, FiniteSetTheorems, TLAPS

\* The part of the types that the arguments need.
Types ==
    /\ lap \in [Grid -> Nat \ {0}] /\ distance_in_lap \in [Grid -> 0..(LapLength - 1)]
    /\ lap_completed \in [Grid -> BOOLEAN]
    /\ frame_in_pit \in [Grid -> BOOLEAN] /\ in_pit \in [Grid -> BOOLEAN]
    /\ pit_timer_ticks \in [Grid -> Nat]
    /\ has_completed_pit \in [Grid -> BOOLEAN] /\ pit_stops \in [Grid -> Nat]
    /\ race_lap_ \in Nat
    /\ announced \in [Grid -> Seq(Nat)] /\ stood \in [Grid -> Nat]

\* A car is in the pits for its one stop.
InPitsForTheStop == \A c \in Grid : in_pit[c] => has_completed_pit[c]

\* The timer and the ticks a car has stood still make up one stop: it runs only
\* in the pits, and the stop is counted when it has run out.
TimerCounts ==
    \A c \in Grid :
        /\ in_pit[c] <=> pit_timer_ticks[c] > 0
        /\ pit_timer_ticks[c] <= PIT_STOP_TICKS
        /\ frame_in_pit[c] = in_pit[c]
        /\ stood[c] = IF has_completed_pit[c] THEN PIT_STOP_TICKS - pit_timer_ticks[c] ELSE 0
        /\ pit_stops[c] = IF has_completed_pit[c] /\ ~in_pit[c] THEN 1 ELSE 0

\* The race lap is the highest lap of a car.
RaceLapIsHighest ==
    /\ \A c \in Grid : lap[c] <= race_lap_
    /\ \E c \in Grid : lap[c] = race_lap_

\* Nobody is ahead of the car in position 1 when the callback runs.
LeaderIsFirst ==
    pc = "callback" => \A c, b \in Grid : position[c] = 1 => ~Ahead(b, c)

\* When the race is finished a car has driven it.
SomeoneFinished == race_finished_ => \E c \in Grid : lap[c] > TOTAL_LAPS

\* The inductive invariant.
IndInv ==
    /\ Types /\ EveryLapMarkedOnce /\ TimerCounts /\ InPitsForTheStop
    /\ RaceLapIsHighest /\ SomeoneFinished /\ LeaderIsFirst

-----------------------------------------------------------------------------
(* Lemmas *)

\* Marking lap n + 1 after the laps 2..n leaves the laps 2..n+1 marked.
LEMMA MarkNext ==
    ASSUME NEW n \in Nat \ {0}
    PROVE  Append([i \in 1..(n - 1) |-> i + 1], n + 1) = [i \in 1..n |-> i + 1]
<1> DEFINE s == [i \in 1..(n - 1) |-> i + 1]
<1>1. s \in Seq(Nat) /\ Len(s) = n - 1
  OBVIOUS
<1>2. DOMAIN Append(s, n + 1) = 1..n
  BY <1>1
<1>3. ASSUME NEW i \in 1..n
      PROVE  Append(s, n + 1)[i] = i + 1
  <2>1. CASE i = n
    BY <1>1, <2>1
  <2>2. CASE i < n
    BY <1>1, <2>2
  <2> QED
    BY <2>1, <2>2
<1>4. Append(s, n + 1) = [i \in 1..n |-> Append(s, n + 1)[i]]
  BY <1>1, <1>2
<1> QED
  BY <1>3, <1>4

\* A car on a later lap is further, wherever the two are in their laps.
LEMMA LaterLapIsFurther ==
    ASSUME Types, NEW a \in Grid, NEW b \in Grid, lap[a] < lap[b]
    PROVE  Ahead(b, a)
<1>1. /\ lap[a] \in Nat /\ lap[b] \in Nat /\ LapLength \in Nat
      /\ distance_in_lap[a] \in 0..(LapLength - 1) /\ distance_in_lap[b] \in 0..(LapLength - 1)
  BY TrackAssumption DEF Types
<1>2. lap[b] * LapLength >= (lap[a] + 1) * LapLength
  <2>1. \A k, m, n \in Nat : k < m => m * n >= (k + 1) * n
    OBVIOUS
  <2> QED
    BY <1>1, <2>1
<1>3. (lap[a] + 1) * LapLength = lap[a] * LapLength + LapLength
  BY <1>1
<1>4. lap[a] * LapLength \in Nat /\ lap[b] * LapLength \in Nat
  BY <1>1
<1>5. Total(b) > Total(a)
  BY <1>1, <1>2, <1>3, <1>4 DEF Total
<1> QED
  BY <1>5 DEF Ahead

-----------------------------------------------------------------------------
(* The invariant *)

LEMMA InitIndInv == Init => IndInv
<1> SUFFICES ASSUME Init PROVE IndInv
  OBVIOUS
<1> USE DEF Init
<1>1. Types
  <2>1. ASSUME NEW c \in Grid PROVE (Cars - c) * Stagger \in 0..(LapLength - 1)
    <3>1. \A k, m, n \in Nat : k <= m => k * n <= m * n /\ k * n \in Nat
      OBVIOUS
    <3>2. Cars - c \in Nat /\ Cars - 1 \in Nat /\ Cars - c <= Cars - 1 /\ Stagger \in Nat
      BY CarsAssumption, TrackAssumption DEF Grid
    <3>3. (Cars - c) * Stagger <= (Cars - 1) * Stagger /\ (Cars - c) * Stagger \in Nat
      BY <3>1, <3>2
    <3>4. (Cars - 1) * Stagger \in Int /\ (Cars - 1) * Stagger < LapLength /\ LapLength \in Nat
      BY <3>2, TrackAssumption
    <3> QED
      BY <3>3, <3>4
  <2>2. distance_in_lap \in [Grid -> 0..(LapLength - 1)]
    BY <2>1
  <2> QED
    BY <2>2 DEF Types
<1>2. EveryLapMarkedOnce
  <2>1. [i \in 1..0 |-> i + 1] = << >>
    OBVIOUS
  <2> QED
    BY <2>1 DEF EveryLapMarkedOnce
<1>3. TimerCounts /\ InPitsForTheStop /\ SomeoneFinished
  BY RaceAssumption DEF TimerCounts, InPitsForTheStop, SomeoneFinished
<1>4. RaceLapIsHighest
  <2>1. 1 \in Grid
    BY CarsAssumption DEF Grid
  <2> QED
    BY <2>1 DEF RaceLapIsHighest
<1>5. LeaderIsFirst
  BY DEF LeaderIsFirst
<1> QED
  BY <1>1, <1>2, <1>3, <1>4, <1>5 DEF IndInv

\* A step that leaves the cars and the race alone.
LEMMA OffTrackStep ==
    ASSUME IndInv, UNCHANGED <<carVars, raceVars>>, LeaderIsFirst'
    PROVE  IndInv'
BY DEF IndInv, Types, EveryLapMarkedOnce, TimerCounts, InPitsForTheStop, RaceLapIsHighest,
       SomeoneFinished, carVars, pitVars, raceVars

\* Nobody's turn comes when the callback does.
LEMMA TurnIsNotCallback ==
    ASSUME NEW c \in Grid, Turn(c)
    PROVE  LeaderIsFirst'
BY DEF Turn, LeaderIsFirst

LEMMA PitTickStep ==
    ASSUME IndInv, NEW c \in Grid, PitTick(c)
    PROVE  IndInv'
<1> USE DEF IndInv, PitTick, Turn, Push, StopOver, MarkerInPits, tableVars, raceVars
<1>0. /\ in_pit[c] /\ has_completed_pit[c] /\ pit_stops[c] = 0
      /\ pit_timer_ticks[c] \in 1..PIT_STOP_TICKS
      /\ stood[c] = PIT_STOP_TICKS - pit_timer_ticks[c]
  BY RaceAssumption DEF Types, TimerCounts, InPitsForTheStop
<1>1. announced' = announced /\ stood' = [stood EXCEPT ![c] = stood[c] + 1]
  BY DEF Types
<1>2. Types'
  BY <1>0, <1>1 DEF Types
<1>3. EveryLapMarkedOnce'
  BY <1>1 DEF EveryLapMarkedOnce
<1>4. TimerCounts'
  <2> SUFFICES ASSUME NEW b \in Grid
               PROVE  /\ in_pit'[b] <=> pit_timer_ticks'[b] > 0
                      /\ pit_timer_ticks'[b] <= PIT_STOP_TICKS
                      /\ frame_in_pit'[b] = in_pit'[b]
                      /\ stood'[b] = IF has_completed_pit'[b]
                                     THEN PIT_STOP_TICKS - pit_timer_ticks'[b] ELSE 0
                      /\ pit_stops'[b] = IF has_completed_pit'[b] /\ ~in_pit'[b] THEN 1 ELSE 0
    BY DEF TimerCounts
  <2>1. CASE b = c
    <3>1. /\ pit_timer_ticks'[c] = pit_timer_ticks[c] - 1 /\ has_completed_pit'[c]
          /\ stood'[c] = stood[c] + 1
      BY <1>0, <1>1 DEF Types
    <3>2. /\ pit_timer_ticks'[c] \in Nat /\ pit_timer_ticks'[c] <= PIT_STOP_TICKS
          /\ stood'[c] = PIT_STOP_TICKS - pit_timer_ticks'[c]
      BY <1>0, <3>1, RaceAssumption
    <3>3. CASE pit_timer_ticks'[c] > 0
      <4>1. in_pit'[c] = TRUE /\ frame_in_pit'[c] = TRUE /\ pit_stops'[c] = 0
        BY <1>0, <3>2, <3>3 DEF Types
      <4> QED
        BY <2>1, <3>1, <3>2, <3>3, <4>1
    <3>4. CASE ~(pit_timer_ticks'[c] > 0)
      <4>1. ~in_pit'[c] /\ ~frame_in_pit'[c] /\ frame_in_pit'[c] = in_pit'[c]
        <5>1. ~in_pit'[c] /\ ~frame_in_pit'[c]
          <6>1. (~StopOver(c)) = FALSE
            BY <3>2, <3>4
          <6>2. in_pit'[c] = (~StopOver(c)) /\ frame_in_pit'[c] = (~StopOver(c))
            BY DEF Types
          <6> QED
            BY <6>1, <6>2, Zenon
        <5>2. in_pit'[c] \in BOOLEAN /\ frame_in_pit'[c] \in BOOLEAN
          BY <1>2 DEF Types
        <5> QED
          BY <5>1, <5>2
      <4>2. pit_stops'[c] = 1
        BY <1>0, <3>2, <3>4 DEF Types
      <4> QED
        BY <2>1, <3>1, <3>2, <3>4, <4>1, <4>2
    <3> QED
      BY <3>3, <3>4
  <2>2. CASE b # c
    <3>1. /\ UNCHANGED <<in_pit[b], pit_timer_ticks[b], frame_in_pit[b], stood[b]>>
          /\ UNCHANGED <<has_completed_pit[b], pit_stops[b]>>
      BY <1>1, <2>2 DEF Types
    <3> QED
      BY <3>1 DEF TimerCounts
  <2> QED
    BY <2>1, <2>2
<1>5. InPitsForTheStop'
  BY <1>0 DEF Types, InPitsForTheStop
<1>6. RaceLapIsHighest' /\ SomeoneFinished'
  BY DEF RaceLapIsHighest, SomeoneFinished
<1> QED
  BY <1>2, <1>3, <1>4, <1>5, <1>6, TurnIsNotCallback

LEMMA DriveStep ==
    ASSUME IndInv, NEW c \in Grid, NEW d \in Speeds, Drive(c, d)
    PROVE  IndInv'
<1> USE DEF IndInv, Drive, OnTrack, Turn, Push, pitVars, tableVars, raceVars
<1>1. announced' = announced /\ stood' = stood
  <2>1. distance_in_lap'[c] # distance_in_lap[c]
    BY TrackAssumption DEF Types
  <2> QED
    BY <2>1 DEF Types
<1>2. distance_in_lap' \in [Grid -> 0..(LapLength - 1)]
  BY TrackAssumption DEF Types
<1>3. Types'
  BY <1>1, <1>2 DEF Types
<1>4. /\ EveryLapMarkedOnce' /\ TimerCounts' /\ InPitsForTheStop' /\ RaceLapIsHighest'
      /\ SomeoneFinished'
  BY <1>1 DEF EveryLapMarkedOnce, TimerCounts, InPitsForTheStop, RaceLapIsHighest, SomeoneFinished
<1> QED
  BY <1>3, <1>4, TurnIsNotCallback

LEMMA CompleteLapStep ==
    ASSUME IndInv, NEW c \in Grid, NEW d \in Speeds, NEW worn \in BOOLEAN,
           CompleteLap(c, d, worn)
    PROVE  IndInv'
<1> USE DEF IndInv, CompleteLap, OnTrack, Turn, Push, tableVars
<1>0. lap[c] \in Nat \ {0} /\ lap' = [lap EXCEPT ![c] = lap[c] + 1] /\ lap'[c] = lap[c] + 1
  BY DEF Types
<1>1. announced' = [announced EXCEPT ![c] = Append(announced[c], lap[c] + 1)] /\ stood' = stood
  <2>1. lap_completed'[c] /\ lap'[c] # lap[c]
    <3>1. lap_completed \in [Grid -> BOOLEAN] /\ lap_completed' = [lap_completed EXCEPT ![c] = TRUE]
      BY DEF Types
    <3> HIDE DEF IndInv, CompleteLap
    <3> QED
      BY <1>0, <3>1
  <2>2. /\ announced' = IF lap_completed'[c]
                        THEN [announced EXCEPT ![c] = Append(announced[c], lap'[c])]
                        ELSE announced
        /\ stood' = IF lap'[c] = lap[c] /\ distance_in_lap'[c] = distance_in_lap[c]
                    THEN [stood EXCEPT ![c] = stood[c] + 1]
                    ELSE stood
    OBVIOUS
  <2> HIDE DEF IndInv, CompleteLap
  <2> QED
    BY <1>0, <2>1, <2>2
<1>2. distance_in_lap' \in [Grid -> 0..(LapLength - 1)]
  <2>1. /\ distance_in_lap \in [Grid -> 0..(LapLength - 1)]
        /\ distance_in_lap[c] + d >= LapLength
        /\ distance_in_lap' = [distance_in_lap EXCEPT ![c] = distance_in_lap[c] + d - LapLength]
    BY DEF Types
  <2> HIDE DEF IndInv, CompleteLap
  <2>2. LapLength \in Nat /\ d \in 1..LapLength
    BY TrackAssumption
  <2>3. distance_in_lap[c] + d - LapLength \in 0..(LapLength - 1)
    BY <2>1, <2>2
  <2> QED
    BY <2>1, <2>3
<1>3. race_lap_' = IF lap[c] + 1 > race_lap_ THEN lap[c] + 1 ELSE race_lap_
  BY <1>0 DEF CountLap
<1>4. \/ UNCHANGED pitVars
      \/ ~has_completed_pit[c] /\ EnterPits(c)
  BY DEF should_pit
<1>5. Types'
  <2>1. lap' \in [Grid -> Nat \ {0}] /\ lap_completed' \in [Grid -> BOOLEAN] /\ race_lap_' \in Nat
    BY <1>0, <1>3 DEF Types
  <2>2. announced' \in [Grid -> Seq(Nat)] /\ stood' \in [Grid -> Nat]
    BY <1>0, <1>1 DEF Types
  <2>3. /\ frame_in_pit' \in [Grid -> BOOLEAN] /\ in_pit' \in [Grid -> BOOLEAN]
        /\ pit_timer_ticks' \in [Grid -> Nat]
        /\ has_completed_pit' \in [Grid -> BOOLEAN] /\ pit_stops' \in [Grid -> Nat]
    <3>1. CASE UNCHANGED pitVars
      BY <3>1 DEF Types, pitVars
    <3>2. CASE EnterPits(c)
      BY <3>2, RaceAssumption DEF Types, EnterPits
    <3> QED
      BY <1>4, <3>1, <3>2
  <2> QED
    BY <1>2, <2>1, <2>2, <2>3 DEF Types
<1>6. EveryLapMarkedOnce'
  <2> SUFFICES ASSUME NEW b \in Grid
               PROVE  announced'[b] = [i \in 1..(lap'[b] - 1) |-> i + 1]
    BY DEF EveryLapMarkedOnce
  <2>1. CASE b = c
    <3>1. announced[c] = [i \in 1..(lap[c] - 1) |-> i + 1]
      BY DEF EveryLapMarkedOnce
    <3>2. announced'[c] = [i \in 1..lap[c] |-> i + 1]
      BY <1>0, <1>1, <3>1, MarkNext DEF Types
    <3>3. lap'[c] - 1 = lap[c]
      BY <1>0
    <3> HIDE DEF IndInv, CompleteLap
    <3> QED
      BY <2>1, <3>2, <3>3
  <2>2. CASE b # c
    BY <1>0, <1>1, <2>2 DEF Types, EveryLapMarkedOnce
  <2> QED
    BY <2>1, <2>2
<1>7. TimerCounts' /\ InPitsForTheStop'
  <2>1. CASE UNCHANGED pitVars
    BY <1>1, <2>1 DEF TimerCounts, InPitsForTheStop, pitVars
  <2>2. CASE ~has_completed_pit[c] /\ EnterPits(c)
    <3> SUFFICES ASSUME NEW b \in Grid
                 PROVE  /\ in_pit'[b] <=> pit_timer_ticks'[b] > 0
                        /\ pit_timer_ticks'[b] <= PIT_STOP_TICKS
                        /\ frame_in_pit'[b] = in_pit'[b]
                        /\ stood'[b] = IF has_completed_pit'[b]
                                       THEN PIT_STOP_TICKS - pit_timer_ticks'[b] ELSE 0
                        /\ pit_stops'[b] = IF has_completed_pit'[b] /\ ~in_pit'[b] THEN 1 ELSE 0
                        /\ in_pit'[b] => has_completed_pit'[b]
      BY DEF TimerCounts, InPitsForTheStop
    <3>1. CASE b = c
      <4>1. stood[c] = 0 /\ pit_stops[c] = 0
        BY <2>2 DEF TimerCounts
      <4>2. /\ in_pit'[c] = TRUE /\ frame_in_pit'[c] = TRUE /\ has_completed_pit'[c] = TRUE
            /\ pit_timer_ticks'[c] = PIT_STOP_TICKS /\ stood'[c] = 0 /\ pit_stops'[c] = 0
        BY <1>1, <2>2, <4>1 DEF Types, EnterPits
      <4>3. /\ PIT_STOP_TICKS > 0 /\ PIT_STOP_TICKS <= PIT_STOP_TICKS
            /\ 0 = PIT_STOP_TICKS - PIT_STOP_TICKS
        BY RaceAssumption
      <4> HIDE DEF IndInv, CompleteLap
      <4> QED
        BY <3>1, <4>2, <4>3
    <3>2. CASE b # c
      <4>1. /\ UNCHANGED <<in_pit[b], pit_timer_ticks[b], frame_in_pit[b], stood[b]>>
            /\ UNCHANGED <<has_completed_pit[b], pit_stops[b]>>
        BY <1>1, <2>2, <3>2 DEF Types, EnterPits
      <4> QED
        BY <4>1 DEF TimerCounts, InPitsForTheStop
    <3> QED
      BY <3>1, <3>2
  <2> QED
    BY <1>4, <2>1, <2>2
<1>8. RaceLapIsHighest'
  <2>1. PICK l \in Grid : lap[l] = race_lap_
    BY DEF RaceLapIsHighest
  <2>2. \A b \in Grid : lap'[b] = IF b = c THEN lap[c] + 1 ELSE lap[b]
    BY <1>0 DEF Types
  <2>3. race_lap_ \in Nat /\ \A b \in Grid : lap[b] \in Nat /\ lap[b] <= race_lap_
    BY DEF Types, RaceLapIsHighest
  <2>4. CASE lap[c] + 1 > race_lap_
    <3>1. race_lap_ \in Nat /\ lap[c] \in Nat /\ race_lap_' = lap[c] + 1
      BY <1>0, <1>3, <2>4 DEF Types
    <3>2. \A b \in Grid : lap'[b] <= race_lap_'
      BY <2>2, <2>3, <2>4, <3>1
    <3>3. lap'[c] = race_lap_'
      BY <2>2, <3>1
    <3> QED
      BY <3>2, <3>3 DEF RaceLapIsHighest
  <2>5. CASE ~(lap[c] + 1 > race_lap_)
    <3>1. l # c /\ race_lap_' = race_lap_
      BY <1>0, <1>3, <2>1, <2>5 DEF Types
    <3> HIDE DEF IndInv, CompleteLap
    <3>2. lap'[l] = race_lap_'
      BY <2>1, <2>2, <3>1
    <3>3. lap[c] + 1 <= race_lap_
      BY <2>3, <2>5
    <3>4. \A b \in Grid : lap'[b] <= race_lap_'
      BY <2>2, <2>3, <3>1, <3>3
    <3> QED
      BY <3>2, <3>4 DEF RaceLapIsHighest
  <2> QED
    BY <2>4, <2>5
<1>9. SomeoneFinished'
  <2>1. race_finished_' => race_finished_ \/ lap'[c] > TOTAL_LAPS
    BY DEF CountLap, Finishes
  <2>2. /\ \A b \in Grid : lap'[b] = IF b = c THEN lap[c] + 1 ELSE lap[b]
        /\ \A b \in Grid : lap[b] \in Nat
        /\ race_finished_ => \E b \in Grid : lap[b] > TOTAL_LAPS
    BY <1>0 DEF Types, SomeoneFinished
  <2> HIDE DEF IndInv, CompleteLap
  <2>3. ASSUME NEW b \in Grid, lap[b] > TOTAL_LAPS PROVE lap'[b] > TOTAL_LAPS
    BY <2>2, <2>3, RaceAssumption
  <2> QED
    BY <2>1, <2>2, <2>3 DEF SomeoneFinished
<1> QED
  BY <1>5, <1>6, <1>7, <1>8, <1>9, TurnIsNotCallback

\* The position of a car counts the cars ahead of it.
LEMMA UpdatePositionsStep ==
    ASSUME IndInv, UpdatePositions
    PROVE  IndInv'
<1>1. ASSUME NEW c \in Grid, NEW b \in Grid, position'[c] = 1
      PROVE  ~Ahead(b, c)'
  <2> DEFINE S == {a \in Grid : Ahead(a, c)}
  <2>1. IsFiniteSet(S)
    <3>1. IsFiniteSet(Grid)
      BY CarsAssumption, FS_Interval DEF Grid
    <3> QED
      BY <3>1, FS_Subset
  <2>2. position'[c] = 1 + Cardinality(S)
    BY DEF UpdatePositions
  <2>3. Cardinality(S) = 0
    <3> HIDE DEF S
    <3>1. Cardinality(S) \in Nat
      BY <2>1, FS_CardinalityType
    <3> QED
      BY <1>1, <2>2, <3>1
  <2>4. S = {}
    BY <2>1, <2>3, FS_EmptySet
  <2>5. Ahead(b, c)' <=> Ahead(b, c)
    BY DEF UpdatePositions, carVars, Ahead, Total
  <2> QED
    BY <2>4, <2>5
<1>2. LeaderIsFirst'
  BY <1>1 DEF LeaderIsFirst
<1>3. UNCHANGED <<carVars, raceVars>>
  BY DEF UpdatePositions
<1> QED
  BY <1>2, <1>3, OffTrackStep

LEMMA NextIndInv ==
    ASSUME IndInv, [Next]_vars
    PROVE  IndInv'
<1>1. CASE UNCHANGED vars
  <2>1. UNCHANGED <<carVars, raceVars>>
    BY <1>1 DEF vars
  <2>2. LeaderIsFirst'
    BY <1>1 DEF vars, carVars, tableVars, IndInv, LeaderIsFirst, Ahead, Total
  <2> QED
    BY <2>1, <2>2, OffTrackStep
<1>2. CASE BeginTick \/ Exit \/ Callback
  <2>1. UNCHANGED <<carVars, raceVars>> /\ LeaderIsFirst'
    BY <1>2 DEF BeginTick, Exit, Callback, LeaderIsFirst
  <2> QED
    BY <2>1, OffTrackStep
<1>3. CASE RequestStop
  <2>1. UNCHANGED <<carVars, raceVars>>
    BY <1>3 DEF RequestStop
  <2>2. LeaderIsFirst'
    BY <1>3 DEF RequestStop, carVars, tableVars, IndInv, LeaderIsFirst, Ahead, Total
  <2> QED
    BY <2>1, <2>2, OffTrackStep
<1>4. CASE UpdatePositions
  BY <1>4, UpdatePositionsStep
<1>5. ASSUME NEW c \in Grid, PitTick(c) PROVE IndInv'
  BY <1>5, PitTickStep
<1>6. ASSUME NEW c \in Grid, NEW d \in Speeds, Drive(c, d) PROVE IndInv'
  BY <1>6, DriveStep
<1>7. ASSUME NEW c \in Grid, NEW d \in Speeds, NEW worn \in BOOLEAN, CompleteLap(c, d, worn)
      PROVE  IndInv'
  BY <1>7, CompleteLapStep
<1> QED
  BY <1>1, <1>2, <1>3, <1>4, <1>5, <1>6, <1>7 DEF Next

\* The inductive invariant holds throughout the race.
THEOREM Invariance == Spec => []IndInv
BY InitIndInv, NextIndInv, PTL DEF Spec

-----------------------------------------------------------------------------
(* Theorems *)

\* Every completed lap of every car is marked in exactly one frame pushed, in
\* whatever order laps end and pit stops begin and end.
THEOREM MarkedOnce == Spec => []EveryLapMarkedOnce
<1>1. IndInv => EveryLapMarkedOnce
  BY DEF IndInv
<1> QED
  BY <1>1, Invariance, PTL

\* A car makes one stop at most, stands still in it for PIT_STOP_TICKS ticks, has
\* it counted when it is over, and its frame tells where it is.
THEOREM OneStop == Spec => []OneStopEach
<1>1. ASSUME IndInv PROVE OneStopEach
  <2> SUFFICES ASSUME NEW c \in Grid
               PROVE  /\ frame_in_pit[c] = in_pit[c]
                      /\ stood[c] \in IF in_pit[c] THEN 0..(PIT_STOP_TICKS - 1)
                                     ELSE {0, PIT_STOP_TICKS}
                      /\ pit_stops[c] = IF stood[c] = PIT_STOP_TICKS THEN 1 ELSE 0
    BY DEF OneStopEach
  <2>1. /\ in_pit[c] <=> pit_timer_ticks[c] > 0
        /\ pit_timer_ticks[c] \in Nat /\ pit_timer_ticks[c] <= PIT_STOP_TICKS
        /\ frame_in_pit[c] = in_pit[c]
        /\ stood[c] = IF has_completed_pit[c] THEN PIT_STOP_TICKS - pit_timer_ticks[c] ELSE 0
        /\ pit_stops[c] = IF has_completed_pit[c] /\ ~in_pit[c] THEN 1 ELSE 0
        /\ in_pit[c] => has_completed_pit[c]
    BY <1>1 DEF IndInv, Types, TimerCounts, InPitsForTheStop
  <2>2. CASE in_pit[c]
    BY <2>1, <2>2, RaceAssumption
  <2>3. CASE ~in_pit[c] /\ has_completed_pit[c]
    BY <2>1, <2>3, RaceAssumption
  <2>4. CASE ~has_completed_pit[c]
    BY <2>1, <2>4, RaceAssumption
  <2> QED
    BY <2>2, <2>3, <2>4
<1> QED
  BY <1>1, Invariance, PTL

\* The race lap that the callback publishes is the lap of the car in
\* position 1, which has driven the race when it is finished.
THEOREM LeadersLap == Spec => []LeaderSetsTheLap
<1>1. ASSUME IndInv PROVE LeaderSetsTheLap
  <2> SUFFICES ASSUME pc = "callback", NEW c \in Grid, position[c] = 1
               PROVE  lap[c] = race_lap_ /\ (race_finished_ => lap[c] > TOTAL_LAPS)
    BY DEF LeaderSetsTheLap
  <2>1. \A l \in Grid : ~(lap[c] < lap[l])
    BY <1>1, LaterLapIsFurther DEF IndInv, LeaderIsFirst
  <2>2. \A l \in Grid : lap[l] \in Nat
    BY <1>1 DEF IndInv, Types
  <2>3. lap[c] = race_lap_
    <3>1. PICK l \in Grid : lap[l] = race_lap_
      BY <1>1 DEF IndInv, RaceLapIsHighest
    <3>2. lap[c] <= race_lap_
      BY <1>1 DEF IndInv, RaceLapIsHighest
    <3> QED
      BY <2>1, <2>2, <3>1, <3>2
  <2>4. ASSUME race_finished_ PROVE lap[c] > TOTAL_LAPS
    <3>1. PICK l \in Grid : lap[l] > TOTAL_LAPS
      BY <1>1, <2>4 DEF IndInv, SomeoneFinished
    <3> QED
      BY <2>1, <2>2, <3>1, RaceAssumption
  <2> QED
    BY <2>3, <2>4
<1> QED
  BY <1>1, Invariance, PTL

-----------------------------------------------------------------------------
(* Positions and DRS *)

\* The position that counts the cars ahead of car c.
Rank(c) == 1 + Cardinality({b \in Grid : Ahead(b, c)})

\* What the callback finds: positions that count the cars ahead,
PositionsCount == pc = "callback" => \A c \in Grid : position[c] = Rank(c)

\* cars that have all had their turn, and so a speed,
SpeedsShown ==
    /\ pc = "cars" => \A c \in Grid : c < next => speed[c] # 0
    /\ pc \in {"positions", "callback"} => \A c \in Grid : speed[c] # 0

\* and DRS as the gaps to the leader tell.
DrsComputed ==
    pc = "callback" =>
        drs_active = {c \in Grid : \E l, a \in Grid :
                         /\ position[l] = 1 /\ position[a] = position[c] - 1
                         /\ Less(GapAhead(c, a, l), OneSecond)}

TableInv == TypeOK /\ PositionsCount /\ SpeedsShown /\ DrsComputed

LEMMA TotalType == ASSUME Types, NEW c \in Grid PROVE Total(c) \in Nat
<1>1. lap[c] \in Nat /\ LapLength \in Nat /\ distance_in_lap[c] \in Nat
  BY TrackAssumption DEF Types
<1>2. lap[c] * LapLength \in Nat
  BY <1>1
<1> QED
  BY <1>1, <1>2 DEF Total

\* Ahead is a strict order of all cars.
LEMMA AheadOrders ==
    ASSUME Types, NEW a \in Grid, NEW b \in Grid, NEW c \in Grid
    PROVE  /\ ~Ahead(a, a) /\ (a = b \/ Ahead(a, b) \/ Ahead(b, a))
           /\ Ahead(a, b) /\ Ahead(b, c) => Ahead(a, c)
<1>1. a \in Nat /\ b \in Nat /\ c \in Nat
  BY CarsAssumption DEF Grid
<1>2. Total(a) \in Nat /\ Total(b) \in Nat /\ Total(c) \in Nat
  BY TotalType
<1> QED
  BY <1>1, <1>2 DEF Ahead

LEMMA GridIsFinite == IsFiniteSet(Grid) /\ Cardinality(Grid) = Cars
BY CarsAssumption, FS_Interval DEF Grid

\* A rank is a position.
LEMMA RankType == ASSUME Types, NEW c \in Grid PROVE Rank(c) \in Grid
<1> DEFINE S == {b \in Grid : Ahead(b, c)}
<1>1. IsFiniteSet(Grid \ {c}) /\ Cardinality(Grid \ {c}) = Cars - 1
  BY GridIsFinite, FS_RemoveElement
<1>2. S \in SUBSET (Grid \ {c})
  BY AheadOrders
<1>3. Cardinality(S) \in Nat /\ Cardinality(S) <= Cars - 1
  <2> HIDE DEF S
  <2>1. IsFiniteSet(S) /\ Cardinality(S) <= Cardinality(Grid \ {c})
    BY <1>1, <1>2, FS_Subset
  <2> QED
    BY <1>1, <2>1, FS_CardinalityType
<1>4. Rank(c) = 1 + Cardinality(S)
  BY DEF Rank
<1> HIDE DEF S
<1> QED
  BY <1>3, <1>4, CarsAssumption DEF Grid

\* A car that is ahead has the smaller rank.
LEMMA RankFollowsAhead ==
    ASSUME Types, NEW a \in Grid, NEW b \in Grid, Ahead(a, b)
    PROVE  Rank(a) < Rank(b)
<1> DEFINE S == {x \in Grid : Ahead(x, a)}
           T == {x \in Grid : Ahead(x, b)}
<1>1. S \in SUBSET T /\ a \in T /\ a \notin S
  BY AheadOrders
<1>2. IsFiniteSet(T)
  BY GridIsFinite, FS_Subset
<1>3. Rank(a) = 1 + Cardinality(S) /\ Rank(b) = 1 + Cardinality(T)
  BY DEF Rank
<1> HIDE DEF S, T
<1>4. IsFiniteSet(S) /\ Cardinality(S) <= Cardinality(T) /\ Cardinality(S) # Cardinality(T)
  BY <1>1, <1>2, FS_Subset
<1>5. Cardinality(S) \in Nat /\ Cardinality(T) \in Nat
  BY <1>2, <1>4, FS_CardinalityType
<1> QED
  BY <1>3, <1>4, <1>5

\* Every position is one car's.
LEMMA RanksFillTheGrid == ASSUME Types, NEW c \in Grid PROVE \E d \in Grid : Rank(d) = c
<1> DEFINE f == [d \in Grid |-> Rank(d)]
<1>1. f \in [Grid -> Grid]
  BY RankType
<1>2. ASSUME NEW a \in Grid, NEW b \in Grid, Rank(a) = Rank(b) PROVE a = b
  <2>1. Rank(a) \in Nat /\ Rank(b) \in Nat
    BY RankType, CarsAssumption DEF Grid
  <2>2. ~Ahead(a, b) /\ ~Ahead(b, a)
    BY <1>2, <2>1, RankFollowsAhead
  <2> QED
    BY <2>2, AheadOrders
<1>3. f \in Injection(Grid, Grid)
  BY <1>1, <1>2 DEF Injection, IsInjective
<1>4. f \in Surjection(Grid, Grid)
  <2> HIDE DEF f
  <2> QED
    BY <1>3, GridIsFinite, FS_Injection
<1> QED
  BY <1>4 DEF Surjection

\* The part of TypeOK that says more than the types of the first invariant.
MoreTypes ==
    /\ pc \in {"loop", "cars", "positions", "callback", "exited"}
    /\ next \in 1..(Cars + 1) /\ ticks \in 0..MaxTicks
    /\ speed \in [Grid -> Speeds \cup {PitSpeed, 0}] /\ drs_active \subseteq Grid
    /\ pit_timer_ticks \in [Grid -> 0..PIT_STOP_TICKS]
    /\ position \in [Grid -> Grid] /\ \A c \in Grid : \E d \in Grid : position[d] = c
    /\ race_finished_ \in BOOLEAN /\ current_lap \in Nat /\ stop \in BOOLEAN

LEMMA TypesTogether == Types /\ MoreTypes <=> TypeOK /\ Types
BY DEF Types, MoreTypes, TypeOK

LEMMA InitTableInv == Init => TableInv
<1> SUFFICES ASSUME Init PROVE TableInv
  OBVIOUS
<1>1. TypeOK
  <2>1. position \in [Grid -> Grid] /\ \A c \in Grid : \E d \in Grid : position[d] = c
    BY DEF Init
  <2>2. 1 \in 1..(Cars + 1) /\ 0 \in 0..MaxTicks /\ 0 \in 0..PIT_STOP_TICKS
    BY CarsAssumption, RaceAssumption
  <2>3. /\ speed \in [Grid -> Speeds \cup {PitSpeed, 0}]
        /\ pit_timer_ticks \in [Grid -> 0..PIT_STOP_TICKS]
    BY <2>2 DEF Init
  <2>4. MoreTypes
    BY <2>1, <2>2, <2>3 DEF Init, MoreTypes
  <2> QED
    BY <2>4, InitIndInv, TypesTogether DEF IndInv
<1> QED
  BY <1>1 DEF Init, TableInv, PositionsCount, SpeedsShown, DrsComputed

\* A car has its turn: whatever it does it shows a speed afterwards.
LEMMA TurnTable ==
    ASSUME Types, TableInv, NEW c \in Grid, Turn(c), MoreTypes',
           NEW s \in Speeds \cup {PitSpeed}, speed' = [speed EXCEPT ![c] = s]
    PROVE  PositionsCount' /\ SpeedsShown' /\ DrsComputed'
<1>1. /\ pc = "cars" /\ next = c /\ next' = c + 1
      /\ pc' = IF c = Cars THEN "positions" ELSE "cars"
  BY DEF Turn
<1>2. s # 0
  BY TrackAssumption
<1>3. speed'[c] # 0 /\ \A b \in Grid : b < c => speed'[b] # 0
  BY <1>1, <1>2, CarsAssumption DEF TableInv, TypeOK, SpeedsShown, Grid
<1>4. SpeedsShown'
  <2>1. \A b \in Grid : b < c + 1 => b < c \/ b = c
    BY CarsAssumption DEF Grid
  <2>2. c = Cars => \A b \in Grid : b < c \/ b = c
    BY CarsAssumption DEF Grid
  <2> QED
    BY <1>1, <1>3, <2>1, <2>2 DEF SpeedsShown
<1>5. PositionsCount' /\ DrsComputed'
  BY <1>1 DEF PositionsCount, DrsComputed
<1> QED
  BY <1>4, <1>5

LEMMA RanksKept == ASSUME UNCHANGED carVars, NEW c PROVE Rank(c)' = Rank(c)
BY DEF Rank, Ahead, Total, carVars

LEMMA UpdatePositionsTable ==
    ASSUME Types, TableInv, UpdatePositions
    PROVE  MoreTypes' /\ PositionsCount' /\ SpeedsShown' /\ DrsComputed'
<1>1. /\ pc = "positions" /\ pc' = "callback" /\ UNCHANGED <<next, ticks, carVars, raceVars>>
      /\ UNCHANGED <<current_lap, stop>> /\ position' = [c \in Grid |-> Rank(c)]
  BY DEF UpdatePositions, Rank
<1>2. /\ position' \in [Grid -> Grid] /\ \A c \in Grid : \E d \in Grid : position'[d] = c
  <2>1. \A c \in Grid : position'[c] = Rank(c)
    BY <1>1
  <2>2. \A c \in Grid : \E d \in Grid : position'[d] = c
    BY <2>1, RanksFillTheGrid
  <2> QED
    BY <1>1, <2>2, RankType
<1>3. MoreTypes'
  <2>1. drs_active' \subseteq Grid
    BY DEF UpdatePositions
  <2> QED
    BY <1>1, <1>2, <2>1 DEF TableInv, TypeOK, MoreTypes, carVars, pitVars, raceVars
<1>4. PositionsCount'
  <2> SUFFICES ASSUME NEW c \in Grid PROVE position'[c] = Rank(c)'
    BY DEF PositionsCount
  <2> QED
    BY <1>1, RanksKept
<1>5. SpeedsShown'
  BY <1>1 DEF TableInv, SpeedsShown, carVars
<1>6. DrsComputed'
  <2>1. \A c, a, l : GapAhead(c, a, l)' = GapAhead(c, a, l)
    BY <1>1 DEF GapAhead, Minus, gap_to_leader, Total, carVars
  <2>2. drs_active' = {c \in Grid : \E l, a \in Grid :
                          /\ position'[l] = 1 /\ position'[a] = position'[c] - 1
                          /\ Less(GapAhead(c, a, l), OneSecond)}
    BY DEF UpdatePositions
  <2>3. \A c, a, l : Less(GapAhead(c, a, l), OneSecond)' = Less(GapAhead(c, a, l), OneSecond)
    BY <2>1 DEF Less, OneSecond
  <2> QED
    BY <2>2, <2>3 DEF DrsComputed
<1> QED
  BY <1>3, <1>4, <1>5, <1>6

LEMMA NextTableInv == ASSUME IndInv, TableInv, [Next]_vars PROVE TableInv'
<1>1. Types /\ Types'
  BY NextIndInv DEF IndInv
<1>2. MoreTypes
  BY <1>1, TypesTogether DEF TableInv
<1>3. SUFFICES MoreTypes' /\ PositionsCount' /\ SpeedsShown' /\ DrsComputed'
  <2>1. ASSUME MoreTypes' PROVE TypeOK'
    BY <1>1, <2>1, TypesTogether DEF Types, MoreTypes, TypeOK
  <2> QED
    BY <1>3, <2>1 DEF TableInv
<1>4. CASE UNCHANGED vars \/ RequestStop
  <2>1. UNCHANGED <<pc, next, ticks, carVars, tableVars, raceVars, current_lap>>
        /\ stop' \in BOOLEAN
    BY <1>2, <1>4 DEF vars, RequestStop, MoreTypes
  <2>2. MoreTypes'
    BY <1>2, <2>1 DEF MoreTypes, carVars, pitVars, tableVars, raceVars
  <2>3. PositionsCount'
    BY <2>1, RanksKept DEF TableInv, PositionsCount, tableVars
  <2>4. SpeedsShown'
    BY <2>1 DEF TableInv, SpeedsShown, carVars
  <2>5. DrsComputed'
    BY <2>1 DEF TableInv, DrsComputed, GapAhead, Minus, gap_to_leader, Total, Less, OneSecond,
                carVars, tableVars
  <2> QED
    BY <2>2, <2>3, <2>4, <2>5
<1>5. CASE BeginTick \/ Exit \/ Callback
  <2>1. /\ UNCHANGED <<carVars, tableVars, raceVars, stop>>
        /\ pc' \in {"cars", "exited", "loop"} /\ (pc' = "cars" => next' = 1)
        /\ next' \in 1..(Cars + 1) /\ ticks' \in 0..MaxTicks /\ current_lap' \in Nat
    <3>1. /\ 1 \in 1..(Cars + 1) /\ next \in 1..(Cars + 1) /\ ticks \in 0..MaxTicks
          /\ race_lap_ \in Nat /\ current_lap \in Nat
      BY <1>1, <1>2, CarsAssumption DEF MoreTypes, Types
    <3>2. CASE BeginTick
      <4>1. ticks + 1 \in 0..MaxTicks
        BY <3>1, <3>2, RaceAssumption DEF BeginTick
      <4> QED
        BY <3>1, <3>2, <4>1 DEF BeginTick
    <3>3. CASE Exit
      BY <3>1, <3>3 DEF Exit
    <3>4. CASE Callback
      BY <3>1, <3>4 DEF Callback
    <3> QED
      BY <1>5, <3>2, <3>3, <3>4
  <2>2. MoreTypes'
    BY <1>2, <2>1 DEF MoreTypes, carVars, pitVars, tableVars, raceVars
  <2>3. \A c \in Grid : ~(c < 1)
    BY CarsAssumption DEF Grid
  <2> QED
    BY <2>1, <2>2, <2>3 DEF PositionsCount, SpeedsShown, DrsComputed
<1>6. CASE UpdatePositions
  BY <1>1, <1>6, UpdatePositionsTable
<1>7. ASSUME NEW c \in Grid, Turn(c), NEW s \in Speeds \cup {PitSpeed},
             speed' = [speed EXCEPT ![c] = s], race_finished_' \in BOOLEAN,
             pit_timer_ticks' \in [Grid -> 0..PIT_STOP_TICKS],
             UNCHANGED <<ticks, tableVars, current_lap, stop>>
      PROVE  MoreTypes' /\ PositionsCount' /\ SpeedsShown' /\ DrsComputed'
  <2>1. /\ pc' \in {"cars", "positions"} /\ next' \in 1..(Cars + 1)
    BY <1>7, CarsAssumption DEF Turn, Grid
  <2>2. speed' \in [Grid -> Speeds \cup {PitSpeed, 0}]
    BY <1>2, <1>7 DEF MoreTypes
  <2>3. MoreTypes'
    BY <1>2, <1>7, <2>1, <2>2 DEF MoreTypes, tableVars
  <2> QED
    BY <1>1, <1>7, <2>3, TurnTable
<1>8. ASSUME NEW c \in Grid, PitTick(c)
      PROVE  MoreTypes' /\ PositionsCount' /\ SpeedsShown' /\ DrsComputed'
  <2>1. /\ Turn(c) /\ speed' = [speed EXCEPT ![c] = PitSpeed] /\ in_pit[c]
        /\ pit_timer_ticks' = [pit_timer_ticks EXCEPT ![c] = @ - 1]
        /\ UNCHANGED <<ticks, tableVars, raceVars, current_lap, stop>>
    BY <1>8 DEF PitTick
  <2>2. pit_timer_ticks[c] > 0
    BY <2>1 DEF IndInv, TimerCounts
  <2>3. pit_timer_ticks[c] \in 0..PIT_STOP_TICKS
    BY <1>2 DEF MoreTypes
  <2>4. pit_timer_ticks[c] - 1 \in 0..PIT_STOP_TICKS
    BY <2>2, <2>3, RaceAssumption
  <2>5. pit_timer_ticks' \in [Grid -> 0..PIT_STOP_TICKS]
    BY <1>2, <2>1, <2>4 DEF MoreTypes
  <2>6. race_finished_' \in BOOLEAN
    BY <1>2, <2>1 DEF MoreTypes, raceVars
  <2> QED
    BY <1>7, <2>1, <2>5, <2>6
<1>9. ASSUME NEW c \in Grid, NEW d \in Speeds, Drive(c, d)
      PROVE  MoreTypes' /\ PositionsCount' /\ SpeedsShown' /\ DrsComputed'
  <2>1. /\ Turn(c) /\ speed' = [speed EXCEPT ![c] = d]
        /\ UNCHANGED <<ticks, tableVars, raceVars, current_lap, stop, pit_timer_ticks>>
    BY <1>9 DEF Drive, OnTrack, pitVars
  <2>2. race_finished_' \in BOOLEAN /\ pit_timer_ticks' \in [Grid -> 0..PIT_STOP_TICKS]
    BY <1>2, <2>1 DEF MoreTypes, raceVars
  <2> QED
    BY <1>7, <2>1, <2>2
<1>10. ASSUME NEW c \in Grid, NEW d \in Speeds, NEW worn \in BOOLEAN, CompleteLap(c, d, worn)
       PROVE  MoreTypes' /\ PositionsCount' /\ SpeedsShown' /\ DrsComputed'
  <2>1. /\ Turn(c) /\ speed' = [speed EXCEPT ![c] = d]
        /\ UNCHANGED <<ticks, tableVars, current_lap, stop>>
    BY <1>10 DEF CompleteLap, OnTrack
  <2>2. race_finished_' \in BOOLEAN
    BY <1>10 DEF CompleteLap, CountLap
  <2>3. pit_timer_ticks' \in [Grid -> 0..PIT_STOP_TICKS]
    BY <1>2, <1>10, RaceAssumption DEF CompleteLap, EnterPits, pitVars, MoreTypes
  <2> QED
    BY <1>7, <2>1, <2>2, <2>3
<1> QED
  BY <1>4, <1>5, <1>6, <1>8, <1>9, <1>10 DEF Next

\* Both invariants hold throughout the race.
THEOREM TableInvariance == Spec => [](IndInv /\ TableInv)
BY InitIndInv, InitTableInv, NextIndInv, NextTableInv, PTL DEF Spec

\* Every variable has its type; in particular the positions are a permutation
\* of the cars, and no car is a lap or more into its lap.
THEOREM TypeCorrect == Spec => []TypeOK
<1>1. TableInv => TypeOK
  BY DEF TableInv
<1> QED
  BY <1>1, TableInvariance, PTL

-----------------------------------------------------------------------------
(* DRS errs one way *)

\* Scaling by a positive factor keeps the order.
LEMMA Scaled ==
    ASSUME NEW a \in Int, NEW b \in Int, NEW n \in Nat \ {0}
    PROVE  a < b <=> a * n < b * n
<1>1. ASSUME a < b PROVE a * n < b * n
  BY <1>1
<1>2. ASSUME ~(a < b) PROVE ~(a * n < b * n)
  BY <1>2
<1> QED
  BY <1>1, <1>2

\* Two gaps to the leader, Y + D over G and Y over H: when G is no greater
\* than H their difference is D over G or more, when it is no less, D over G
\* or less.  (Gaps are compared with the fraction <<5, 12>>.)
LEMMA GapsCompare ==
    ASSUME NEW D \in Nat, NEW Y \in Nat, NEW G \in Nat \ {0}, NEW H \in Nat \ {0}
    PROVE  /\ G <= H /\ ((Y + D) * H - Y * G) * 12 < 5 * (G * H) => D * 12 < 5 * G
           /\ G >= H /\ D * 12 < 5 * G => ((Y + D) * H - Y * G) * 12 < 5 * (G * H)
<1> DEFINE mine == (Y + D) * H - Y * G
<1>1. mine = D * H + Y * (H - G)
  OBVIOUS
<1>2. /\ D * H \in Int /\ Y * (H - G) \in Int /\ (D * 12) * H = 12 * (D * H)
      /\ (5 * G) * H = 5 * (G * H) /\ G * H \in Int /\ D * 12 \in Int /\ 5 * G \in Int
  OBVIOUS
<1>3. D * 12 < 5 * G <=> (D * 12) * H < (5 * G) * H
  BY <1>2, Scaled
<1>4. (G <= H => Y * (H - G) >= 0) /\ (G >= H => Y * (H - G) <= 0)
  <2>1. \A k \in Nat : Y * k >= 0
    OBVIOUS
  <2>2. ASSUME G <= H PROVE Y * (H - G) >= 0
    BY <2>1, <2>2
  <2>3. ASSUME G >= H PROVE Y * (H - G) <= 0
    <3>1. Y * (H - G) = -(Y * (G - H)) /\ G - H \in Nat /\ Y * (G - H) \in Int
      BY <2>3
    <3> QED
      BY <2>1, <3>1
  <2> QED
    BY <2>2, <2>3
<1> HIDE DEF mine
<1>5. mine \in Int /\ (G <= H => mine >= D * H) /\ (G >= H => mine <= D * H)
  BY <1>1, <1>2, <1>4
<1>6. /\ G <= H /\ mine * 12 < 5 * (G * H) => D * 12 < 5 * G
      /\ G >= H /\ D * 12 < 5 * G => mine * 12 < 5 * (G * H)
  BY <1>2, <1>3, <1>5
<1> QED
  BY <1>6 DEF mine

\* At the callback a car that is no faster than the one directly ahead has DRS
\* only within a second of it, one that is no slower whenever within a second.
THEOREM DrsOneWay == Spec => []DrsErrsOneWay
<1>1. ASSUME IndInv, TableInv PROVE DrsErrsOneWay
  <2> SUFFICES ASSUME pc = "callback", NEW l \in Grid, position[l] = 1
               PROVE  /\ l \notin drs_active
                      /\ \A c, a \in Grid :
                            LET within == Less(<<2 * (Total(a) - Total(c)), speed[l] + speed[c]>>,
                                               OneSecond)
                            IN  position[a] = position[c] - 1 =>
                                    /\ c \in drs_active /\ speed[c] <= speed[a] => within
                                    /\ within /\ speed[c] >= speed[a] => c \in drs_active
    BY DEF DrsErrsOneWay
  <2>1. /\ Types /\ position \in [Grid -> Grid]
        /\ \A c \in Grid : position[c] = Rank(c)
        /\ drs_active = {c \in Grid : \E k, a \in Grid :
                            /\ position[k] = 1 /\ position[a] = position[c] - 1
                            /\ Less(GapAhead(c, a, k), OneSecond)}
    BY <1>1 DEF IndInv, TableInv, TypeOK, PositionsCount, DrsComputed
  <2>2. \A c \in Grid : position[c] \in Nat \ {0}
    BY <2>1, CarsAssumption DEF Grid
  <2>3. ASSUME NEW c \in Grid, NEW a \in Grid, position[c] = position[a] PROVE c = a
    <3>1. ~Ahead(c, a) /\ ~Ahead(a, c)
      BY <2>1, <2>2, <2>3, RankFollowsAhead
    <3> QED
      BY <2>1, <3>1, AheadOrders
  <2>4. ASSUME NEW c \in Grid, NEW a \in Grid, position[a] < position[c]
        PROVE  Total(a) >= Total(c)
    <3>1. ~Ahead(c, a)
      BY <2>1, <2>2, <2>4, RankFollowsAhead
    <3>2. Ahead(a, c)
      BY <2>1, <2>2, <2>4, <3>1, AheadOrders
    <3> QED
      BY <2>1, <3>2, TotalType DEF Ahead
  <2>5. \A c \in Grid : speed[c] \in Nat \ {0}
    <3>1. \A c \in Grid : speed[c] \in Speeds \cup {PitSpeed} /\ speed[c] # 0
      BY <1>1 DEF TableInv, TypeOK, SpeedsShown
    <3>2. ASSUME NEW d \in Speeds \cup {PitSpeed} PROVE d \in Nat \ {0}
      <4>1. CASE d \in Speeds
        <5>1. d \in 1..LapLength /\ LapLength \in Nat
          BY <4>1, TrackAssumption
        <5> QED
          BY <5>1
      <4>2. CASE d = PitSpeed
        BY <4>2, TrackAssumption
      <4> QED
        BY <4>1, <4>2
    <3> QED
      BY <3>1, <3>2
  <2>6. l \notin drs_active
    BY <2>1, <2>2
  <2>7. ASSUME NEW c \in Grid, NEW a \in Grid, position[a] = position[c] - 1
        PROVE  LET within == Less(<<2 * (Total(a) - Total(c)), speed[l] + speed[c]>>, OneSecond)
               IN  /\ c \in drs_active /\ speed[c] <= speed[a] => within
                   /\ within /\ speed[c] >= speed[a] => c \in drs_active
    <3>1. c \in drs_active <=> Less(GapAhead(c, a, l), OneSecond)
      <4>1. \A k, b \in Grid : position[k] = 1 /\ position[b] = position[c] - 1 => k = l /\ b = a
        BY <2>3, <2>7
      <4> QED
        BY <2>1, <2>7, <4>1
    <3>2. Total(l) \in Nat /\ Total(a) \in Nat /\ Total(c) \in Nat
      BY <2>1, TotalType
    <3>3. Total(a) >= Total(c) /\ Total(l) >= Total(a)
      <4>1. Total(a) >= Total(c)
        BY <2>2, <2>4, <2>7
      <4>2. position[a] = 1 \/ position[l] < position[a]
        BY <2>2
      <4>3. Total(l) >= Total(a)
        BY <2>3, <2>4, <3>2, <4>2
      <4> QED
        BY <4>1, <4>3
    <3>4. PICK D \in Nat, Y \in Nat : D = 2 * (Total(a) - Total(c)) /\ Y = 2 * (Total(l) - Total(a))
      <4>1. 2 * (Total(a) - Total(c)) \in Nat /\ 2 * (Total(l) - Total(a)) \in Nat
        BY <3>2, <3>3
      <4> QED
        BY <4>1, Zenon
    <3>5. PICK G \in Nat \ {0}, H \in Nat \ {0} : G = speed[l] + speed[c] /\ H = speed[l] + speed[a]
      <4>1. speed[l] + speed[c] \in Nat \ {0} /\ speed[l] + speed[a] \in Nat \ {0}
        BY <2>5
      <4> QED
        BY <4>1, Zenon
    <3>6. Less(GapAhead(c, a, l), OneSecond) <=> ((Y + D) * H - Y * G) * 12 < 5 * (G * H)
      <4>1. 2 * (Total(l) - Total(c)) = Y + D
        BY <3>2, <3>4
      <4>2. GapAhead(c, a, l) = <<(Y + D) * H - Y * G, G * H>>
        BY <3>4, <3>5, <4>1 DEF GapAhead, Minus, gap_to_leader
      <4> QED
        BY <4>2 DEF Less, OneSecond
    <3>7. Less(<<2 * (Total(a) - Total(c)), speed[l] + speed[c]>>, OneSecond) <=> D * 12 < 5 * G
      BY <3>4, <3>5 DEF Less, OneSecond
    <3>8. /\ speed[c] <= speed[a] => G <= H
          /\ speed[c] >= speed[a] => G >= H
      BY <2>5, <3>5
    <3>9. /\ G <= H /\ ((Y + D) * H - Y * G) * 12 < 5 * (G * H) => D * 12 < 5 * G
          /\ G >= H /\ D * 12 < 5 * G => ((Y + D) * H - Y * G) * 12 < 5 * (G * H)
      BY GapsCompare
    <3> QED
      BY <3>1, <3>6, <3>7, <3>8, <3>9, Zenon
  <2> QED
    BY <2>6, <2>7
<1> QED
  BY <1>1, TableInvariance, PTL
=============================================================================
