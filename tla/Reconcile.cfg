SPECIFICATION Spec
CONSTANTS
    Indexes = {i1, i2}
    Docs = {d1, d2}
    Workers = {w1, w2}
    MaxChanges = 2
    MaxRuns = 2
    MaxFixes = 2
    MaxFails = 1
SYMMETRY Symmetry
CHECK_DEADLOCK FALSE
INVARIANTS
    TypeOK
PROPERTIES
    DeletesOnlyRowless
    FixRepairs
