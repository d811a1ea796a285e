SPECIFICATION Spec
CONSTANTS
    MaxOpenBlocks = 2
    MaxBorrowers = 3
    MaxWrites = 2
    MaxDepth = 3
    MayIgnoreEnd = TRUE
    Nesters = {1}
    NamedUsers = {3}
INVARIANTS
    TypeOK
    NeverReturnedOpen
    OkMeansDurable
    OwnTransaction
    FlatAllOrNothing
CHECK_DEADLOCK FALSE
