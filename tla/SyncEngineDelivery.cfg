SPECIFICATION ScheduledSpec
CONSTANTS
    Callers = {c1}
    Docs = {d1, d2}
    BatchSize = 1
    Ticks <- CoarseTicks
    FailuresShow = TRUE
    Requested <- Periodic
    MaxIndex = 2
    MaxChanges = 2
    MaxFails = 1
    MaxCrashes = 1
    MaxWakes = 1
INVARIANTS
    CursorNeverSkips
PROPERTIES
    LockComesBack
    ChangesDelivered
