SPECIFICATION Spec
CONSTANTS
    Files = {f1, f2}
    LargeFiles = {f2}
    Triplets = {t1, t2, t3}
    NoTriplet = NoTriplet
    MaxVersion = 0
    Readers = {r1}
    BatchSize = 2
    CloseAt = 0
    Capacity = 1
    MaxDrift = 0
    Faults = {"crash"}
    NoFile = NoFile
    NoReader = NoReader
SYMMETRY Symmetry
INVARIANTS
    NoDuplicateDownload
    ReadyRowBacked
    ReadyRowReachable
    DeathsExplained
PROPERTIES
    OnlyLateCommitsDangle
