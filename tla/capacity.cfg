SPECIFICATION Spec
CONSTANTS
    Files = {f1, f2}
    LargeFiles = {}
    Triplets = {t1, t2, t3}
    NoTriplet = NoTriplet
    MaxVersion = 0
    Readers = {r1}
    BatchSize = 2
    CloseAt = 0
    Capacity = 1
    MaxDrift = 1
    Faults = {}
    NoFile = NoFile
    NoReader = NoReader
SYMMETRY Symmetry
INVARIANTS
    DiskWithinCapacity
