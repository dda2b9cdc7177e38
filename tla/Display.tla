------------------------------ MODULE Display -------------------------------
(***************************************************************************)
(* The two ways by which the generator thread tells main of a tick: the    *)
(* standings, on the Leaderboard, and then the lap, in RaceState's         *)
(* current_lap, which is stored and loaded relaxed.                        *)
(*                                                                         *)
(* A relaxed load may return any value stored, but none older than one     *)
(* this thread has loaded, or one whose store happens-before the load:     *)
(* the mutex of the leaderboard, and the join, order some of the stores    *)
(* before main.                                                            *)
(***************************************************************************)
EXTENDS Leaderboard

CONSTANTS
    Generator,      \* the thread that runs the callback of main.cpp
    Main            \* the main thread

ASSUME DisplayAssumption == Generator \in Writers /\ Main \in Readers

VARIABLES
    gpc,            \* "tick", "update", "set_lap", "exited" or "terminated"
    laps,           \* history: the race lap of each tick
    stored,         \* current_lap: how many times it has been set
    stop,           \* stop requested of the generator
    mpc,            \* "race", "look", "join", "report", "final" or "done"
    known,          \* the oldest store to current_lap that main may load
    line            \* the lap, and the standings, that main printed last

callbackVars == <<gpc, laps, stored>>
mainVars == <<stop, mpc, known, line>>
vars == <<boardVars, callbackVars, mainVars>>

DisplayInit ==
    /\ Init
    /\ gpc = "tick" /\ laps = <<>> /\ stored = 0
    /\ stop = FALSE /\ mpc = "race" /\ known = 0
    /\ line = [lap |-> 1, standings |-> NoUpdate]

\* The value of the k-th store to current_lap, and the initial one.
Lap(k) == IF k = 0 THEN 1 ELSE laps[k]

-----------------------------------------------------------------------------
(* the generator thread *)

\* A tick, in which the first car may begin a lap, and the callback's update.
Tick ==
    /\ gpc = "tick" /\ ~stop
    /\ \E lap \in {Lap(Len(laps)), Lap(Len(laps)) + 1} : laps' = Append(laps, lap)
    /\ UpdateBegin(Generator)
    /\ gpc' = "update"
    /\ UNCHANGED <<stored, mainVars>>

\* Nobody catches an exception of update: the process is terminated.
Update ==
    /\ gpc = "update"
    /\ \/ /\ UpdateLock(Generator) \/ UpdateClaim(Generator) \/ UpdateWrite(Generator)
          /\ UNCHANGED gpc
       \/ UpdateThrow(Generator) /\ gpc' = "terminated"
       \/ UpdateUnlock(Generator) /\ gpc' = "set_lap"
    /\ UNCHANGED <<laps, stored, mainVars>>

set_lap ==
    /\ gpc = "set_lap"
    /\ stored' = stored + 1
    /\ gpc' = "tick"
    /\ UNCHANGED <<boardVars, laps, mainVars>>

\* The race is over, or a stop requested, after any tick.
Exit ==
    /\ gpc = "tick"
    /\ gpc' = "exited"
    /\ UNCHANGED <<boardVars, laps, stored, mainVars>>

-----------------------------------------------------------------------------
(* main *)

\* main calls snapshot: every half second, and for the report.
Look ==
    /\ mpc \in {"race", "report"}
    /\ SnapshotBegin(Main)
    /\ mpc' = IF mpc = "race" THEN "look" ELSE "final"
    /\ UNCHANGED <<callbackVars, stop, known, line>>

\* The stores that happen-before main when it has locked the mutex: those
\* before the update it is going to see.  In the mutant there is no such order.
LearnNothing == 0
Learn == IF latest[1] = Generator THEN latest[2] - 1 ELSE 0

Snapshot ==
    /\ \/ /\ SnapshotLock(Main)
          /\ known' = IF Learn > known THEN Learn ELSE known
       \/ /\ SnapshotCopy(Main) \/ SnapshotUnlock(Main)
          /\ UNCHANGED known
    /\ UNCHANGED <<callbackVars, stop, mpc, line>>

\* get_lap, in the line that is printed with the standings just copied; none
\* is printed before the first tick.
PrintLap ==
    /\ mpc = "look" /\ rpc[Main] = "idle"
    /\ mpc' = "race"
    /\ IF copy[Main][1] = NoUpdate
       THEN UNCHANGED <<known, line>>
       ELSE \E k \in known..stored :
               /\ known' = k
               /\ line' = [lap |-> Lap(k), standings |-> copy[Main][1]]
    /\ UNCHANGED <<boardVars, callbackVars, stop>>

\* The loop ends: generator.stop() requests the stop, and joins.
Stop ==
    /\ mpc = "race"
    /\ stop' = TRUE
    /\ mpc' = "join"
    /\ UNCHANGED <<boardVars, callbackVars, known, line>>

\* join returns.  In its mutant stop() does not join.
JoinForgotten == stop
Joined == gpc = "exited"

\* All that the generator did happens-before the report: get_lap, here, and
\* the snapshot for the final standings.
Join ==
    /\ mpc = "join" /\ Joined
    /\ known' = stored
    /\ line' = [line EXCEPT !.lap = Lap(stored)]
    /\ mpc' = "report"
    /\ UNCHANGED <<boardVars, callbackVars, stop>>

PrintStandings ==
    /\ mpc = "final" /\ rpc[Main] = "idle"
    /\ line' = [line EXCEPT !.standings = copy[Main][1]]
    /\ mpc' = "done"
    /\ UNCHANGED <<boardVars, callbackVars, stop, known>>

-----------------------------------------------------------------------------

\* The threads that are not in main.cpp: other readers, and writers that the
\* leaderboard turns away, or that come first.
Others ==
    /\ \/ \E w \in Writers \ {Generator} : Writer(w)
       \/ \E r \in Readers \ {Main} : Reader(r)
    /\ UNCHANGED <<callbackVars, mainVars>>

DisplayNext ==
    /\ gpc # "terminated"
    /\ \/ Tick \/ Update \/ set_lap \/ Exit
       \/ Look \/ Snapshot \/ PrintLap \/ Stop \/ Join \/ PrintStandings
       \/ Others

DisplaySpec == DisplayInit /\ [][DisplayNext]_vars

-----------------------------------------------------------------------------
(* Properties *)

\* "If the UI displays lap N-1 for one frame instead of N, no harm done": the
\* lap printed over standings is not older than theirs by more than one, and
\* the laps that main prints never run backwards, though the lap is relaxed
\* and the standings were copied before it was loaded.
LapLineIsRecent ==
    [][mpc' = "race" /\ line' # line =>
          /\ line'.lap >= line.lap
          /\ line'.standings[1] = Generator =>
                 line'.lap >= laps[line'.standings[2]] - 1]_vars

\* "No more tick callbacks" after stop: when main has printed its report, lap
\* and final standings are both of the last tick there was.
ReportIsFinal ==
    mpc = "done" =>
        /\ line.lap = Lap(Len(laps))
        /\ laps # <<>> => line.standings = <<Generator, Len(laps)>>
=============================================================================
