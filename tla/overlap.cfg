SPECIFICATION Spec
CONSTANTS
    Triplets = {t1, t2}
    NoTriplet = NoTriplet
    Getters = {r1, r2}
    MaxEvictions = 0
CHECK_DEADLOCK FALSE
SYMMETRY Symmetry
INVARIANTS
    TailIsOldest
