SPECIFICATION Spec
CONSTANTS
    Callers = {c1, c2}
    Docs = {d1, d2}
    BatchSize = 1
    Ticks <- FineTicks
    FailuresShow = TRUE
    Requested <- Direct
    MaxIndex = 3
    MaxChanges = 2
    MaxFails = 1
    MaxCrashes = 1
    MaxWakes = 1
SYMMETRY Symmetry
INVARIANTS
    TypeOK
    OneRunAtATime
    FailedIndexNotLive
    ContentsInv
PROPERTIES
    OnlyCompleteGoesLive
    AliasServed
