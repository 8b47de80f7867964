SPECIFICATION Spec
CONSTANTS
    Callers = {c1, c2}
    Docs = {d1, d2}
    BatchSize = 1
    Ticks <- FineTicks
    FailuresShow = TRUE
    Requested <- AllKinds
    MaxIndex = 2
    MaxChanges = 2
    MaxFails = 0
    MaxCrashes = 0
    MaxWakes = 1
SYMMETRY Symmetry
PROPERTIES
    LiveIndexStays
