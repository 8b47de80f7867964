SPECIFICATION Spec
CONSTANTS
    Callers = {c1}
    Docs = {d1, d2}
    BatchSize = 1
    Ticks <- FineTicks
    FailuresShow = TRUE
    Requested <- Rebuilds
    MaxIndex = 2
    MaxChanges = 1
    MaxFails = 0
    MaxCrashes = 0
    MaxWakes = 1
SYMMETRY Symmetry
PROPERTIES
    SupersededGo
