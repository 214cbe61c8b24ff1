SPECIFICATION FairSpec
CONSTANTS
    Files = {f1}
    LargeFiles = {}
    Triplets = {t1, t2, t3}
    NoTriplet = NoTriplet
    MaxVersion = 0
    Readers = {r1}
    BatchSize = 1
    CloseAt = 0
    Capacity = 1
    MaxDrift = 1
    Faults = {"db"}
    NoFile = NoFile
    NoReader = NoReader
CHECK_DEADLOCK FALSE
PROPERTIES
    RequestsAnswered
