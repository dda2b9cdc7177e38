SPECIFICATION FairSpec
CONSTANTS
    Drivers = {d1, d2}
    NoDriver = NoDriver
    Times = {1, 2}
    MaxFloat = 9
    Claimers = {consumer}
    Consumer = consumer
    MaxClaims = 4
    QueueSize = 2
    MaxFrames = 4
INVARIANTS
    ReportIsFastest
    NothingLeftBehind
PROPERTIES
    MainReturns
\* main returns
CHECK_DEADLOCK FALSE
