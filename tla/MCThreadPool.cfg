SPECIFICATION FairSpec
CONSTANTS
    Workers = {w1, w2}
    Clients = {c1, c2}
    Owner = Owner
    Nobody = Nobody
    MaxSubmits = 2
INVARIANTS
    TypeOK
    NoLostWakeup
PROPERTIES
    ImplementsPool
    AcceptedAreRun
    DtorReturns
\* a pool that is destroyed, or that nobody uses any more, takes no step
CHECK_DEADLOCK FALSE
