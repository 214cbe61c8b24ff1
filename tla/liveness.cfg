SPECIFICATION FairSpecH
CONSTANTS
    Files = {f1}
    LargeFiles = {}
    Triplets = {t1, t2}
    NoTriplet = NoTriplet
    MaxVersion = 1
    Readers = {r1, r2}
    BatchSize = 1
    CloseAt = 0
    Capacity = 1
    MaxDrift = 1
    Faults = {}
    NoFile = NoFile
    NoReader = NoReader
INVARIANTS
    FetchedIsNewest
PROPERTIES
    PendingResolves
    RequestsAnswered
    EvictedIsPurged
    ImplementsPersistentCache
    ContentNeverGoesBack
