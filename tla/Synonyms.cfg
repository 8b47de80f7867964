SPECIFICATION Spec
CONSTANTS
    Words = {w1, w2}
    Lists = {l1}
    Handlers = {h1, h2}
    MaxRows = 2
    MaxRequests = 3
    MaxFails = 1
    MaxCrashes = 1
SYMMETRY Symmetry
CHECK_DEADLOCK FALSE
INVARIANTS
    TypeOK
    CopiesAgree
    FileIsWhole
