SPECIFICATION Spec
CONSTANTS
    Clients = {c1}
    Handlers = {h1, h2}
    Limits <- Histogram
    Window = 2
    Ttl = 3
    MaxQps = 1
    MaxTime = 5
    MaxRequests = 5
    MaxUsers = 2
    MaxRestarts = 1
SYMMETRY Symmetry
CHECK_DEADLOCK FALSE
INVARIANTS
    TypeOK
    MetricsAddUp
    WindowBound
    ClaimsAreCurrent
