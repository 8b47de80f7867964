SPECIFICATION Spec
CONSTANTS
    MaxInt = 127
    MaxSize = 10
    PageSize = 3
    Alphanumerics <- Plain
    Underscore <- Special
    Others <- Capital
    Limit = 2
    PageLength = 1
    ResultWindow = 3
    MaxIds = 3
    MaxLength = 3
CHECK_DEADLOCK FALSE
INVARIANTS
    ColumnsFit
    KeysFit
    QueriesCombine
    SearchesFit
    PagesFit
    IdsListed
