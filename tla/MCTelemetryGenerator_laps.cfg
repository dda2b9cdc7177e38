SPECIFICATION Spec
CONSTANTS
    Cars = 3
    LapLength = 6
    Stagger = 1
    Speeds = {2, 3}
    PitSpeed = 1
    TOTAL_LAPS = 3
    PIT_STOP_TICKS = 2
    FirstPitLap = 2
    MaxTicks = 8
INVARIANTS
    RacedTotalLaps
\* the race ends
CHECK_DEADLOCK FALSE
