SPECIFICATION FairSpec
CONSTANTS
    Producers = {p1, p2}
    Consumer = c
    Nodes = {n1, n2, n3, n4}
    Null = Null
    NoItem = NoItem
    MaxPushes = 2
INVARIANTS
    TypeOK
    MemorySafe
    EmptyOrMidFlight
    NothingLeaks
PROPERTIES
    ImplementsFifo
    AllDelivered
\* a destroyed queue takes no further step
CHECK_DEADLOCK FALSE
