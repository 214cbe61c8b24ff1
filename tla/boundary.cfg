SPECIFICATION Spec
CONSTANTS
    Files = {f1}
    Blobs = {b1, b2, b3}
    Writers = {w1, w2}
    Readers = {r1}
    Length = 3
    Faults = {}
    MaxLost = 1
    NoFile = NoFile
    NoBlob = NoBlob
SYMMETRY Symmetry
INVARIANT
    ReadsSucceed
