SPECIFICATION DisplaySpec
CONSTANTS
    Generator = generator
    Main = main
    Writers = {generator, other}
    Readers = {main, r1}
    Nobody = Nobody
    Entries = 2
    MaxUpdates = 3
INVARIANTS
    TypeOK
    ReportIsFinal
PROPERTIES
    ImplementsBoard
    LapLineIsRecent
\* main returns, or the process is terminated
CHECK_DEADLOCK FALSE
