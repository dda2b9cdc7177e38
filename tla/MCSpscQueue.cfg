SPECIFICATION FairSpec
CONSTANTS
    Capacity = 4
    Items = {i1, i2}
    NoItem = NoItem
    MaxPushes = 8
INVARIANTS
    TypeOK
    NoDataRace
    SizeEstimateIsSided
PROPERTIES
    RefusalsAreHonest
    ImplementsFifo
    AllDelivered
