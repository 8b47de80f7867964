SPECIFICATION Spec
CONSTANTS
    n1 = n1
    n2 = n2
    Nodes = {n1, n2}
    Clusters = {"main", "other"}
    URLs <- TwoClusters
    Callers = {p1, p2}
    MaxFlips = 1
    MaxFails = 1
INVARIANTS
    TypeOK
    FindsNode
PROPERTIES
    InTurn
    RequestEnds
    HealthSettles
