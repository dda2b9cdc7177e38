SPECIFICATION Spec
CONSTANTS
    Claimers = {t1, t2}
    Drivers = {d1, d2}
    NoDriver = NoDriver
    Times = {1, 2, 3}
    MaxFloat = 9
    MaxClaims = 2
INVARIANTS
    TypeOK
    WinsStrictlyImprove
    NoFasterLapLost
\* threads that have made all their claims stop
CHECK_DEADLOCK FALSE
