SPECIFICATION Spec
CONSTANTS
    Files = {f1}
    LargeFiles = {}
    Triplets = {t1, t2, t3}
    NoTriplet = NoTriplet
    MaxVersion = 1
    Readers = {r1, r2}
    BatchSize = 1
    CloseAt = 0
    Capacity = 1
    MaxDrift = 1
    Faults = {"db", "origin", "crash", "stall"}
    NoFile = NoFile
    NoReader = NoReader
SYMMETRY Symmetry
INVARIANTS
    TypeOK
    CreateFindsNoRow
    WindowProtectsReader
    OpenTripletAvailable
    DeathsExplained

    
