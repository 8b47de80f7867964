SPECIFICATION Spec
CONSTANTS
    Handlers = {h1, h2}
    Specs = {every5s, daily}
    Incremental = every5s
    Full = daily
    MaxId = 4
    MaxRequests = 3
    MaxFails = 1
    MaxRestarts = 1
SYMMETRY Symmetry
INVARIANTS
    TypeOK
    MapIsSound
    OneEntryEach
    RunnerMatchesTable
CHECK_DEADLOCK FALSE
