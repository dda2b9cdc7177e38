SPECIFICATION Spec
CONSTANTS
    d1 = d1
    Grid <- GridOfOne
    NoId = NoId
    Workers = {w1, w2}
    NoTask = NoTask
    PerTrackLimits = 1
    WeatherLaps = 5
    MaxTicks = 6
    MaxLap = 1
INVARIANTS
    PenaltyServedInPits
CHECK_DEADLOCK FALSE
