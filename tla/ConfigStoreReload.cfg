SPECIFICATION Spec
CONSTANTS
    Names = {n1, n2}
    Handlers = {h1, h2}
    Watcher = watcher
    Contents <- TwoContents
    MaxChanges = 2
    MaxEdits = 0
    MaxFaults = 0
SYMMETRY Symmetry
CHECK_DEADLOCK FALSE
INVARIANTS
    CanStart
