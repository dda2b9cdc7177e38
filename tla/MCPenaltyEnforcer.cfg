SPECIFICATION FairSpec
CONSTANTS
    Drivers = {d1, d2}
    Strangers = {nobody}
    Pushers = 2
    MaxEvents = 4
INVARIANTS
    TypeOK
    WarningsCounted
    OnePenaltyEach
    OwnAnnouncementsWait
PROPERTIES
    ThirdWarningPenalises
