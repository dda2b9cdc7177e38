SPECIFICATION Spec
CONSTANTS
    d1 = d1
    Grid <- GridOfOne
    NoId = NoId
    Workers = {w1, w2}
    NoTask = NoTask
    PerTrackLimits = 1
    WeatherLaps = 1
    MaxTicks = 4
    MaxLap = 3
INVARIANTS
    FoundOverIsProcessed
    SingleFlight
    WeatherIsAnnounced
\* main returns
CHECK_DEADLOCK FALSE
