SPECIFICATION Spec
CONSTANTS
    Files = {f1}
    LargeFiles = {}
    Triplets = {t1}
    NoTriplet = NoTriplet
    MaxVersion = 2
    Readers = {r1, r2}
    BatchSize = 1
    CloseAt = 3
    Capacity = 3
    MaxDrift = 1
    Faults = {}
    NoFile = NoFile
    NoReader = NoReader
SYMMETRY Symmetry
INVARIANTS
    StaleContentIsRefetched
