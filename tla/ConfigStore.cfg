SPECIFICATION Spec
CONSTANTS
    Names = {n1, n2}
    Handlers = {h1, h2}
    Watcher = watcher
    Contents <- AllContents
    MaxChanges = 2
    MaxEdits = 1
    MaxFaults = 2
SYMMETRY Symmetry
INVARIANTS
    TypeOK
    
    
PROPERTIES
    CreateNeverReplaces
CHECK_DEADLOCK FALSE
