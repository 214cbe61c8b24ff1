SPECIFICATION Spec
CONSTANTS
    Files = {f1, f2}
    Triplets = {t1, t2, t3}
    NoTriplet = NoTriplet
    MaxVersion = 3
    Writers = {w1, w2}
    Lengths = {0, 3928, 3929}
    F_4K_Align = TRUE
    LargeAbove = 4096
    CloseAbove = 0
    F_CACHE_MAX_SIZE = 14000
    Faults = {"kill", "disk", "db"}
    MaxKills = 3
    NoFile = NoFile
CHECK_DEADLOCK FALSE
SYMMETRY Symmetry
INVARIANTS
    TypeOK
    ReadyReadable
    OwnersLoadable
    NoOrphanLeft
    AccountsBalance
