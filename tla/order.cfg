SPECIFICATION FairSpec
CONSTANTS
    Triplets = {t1, t2}
    NoTriplet = NoTriplet
    Getters = {r1, r2}
    MaxEvictions = 2
CHECK_DEADLOCK FALSE
INVARIANTS
    TypeOK
    OrderKept
    NothingLost
PROPERTIES
    PutReturns
