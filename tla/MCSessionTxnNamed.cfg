SPECIFICATION Spec
CONSTANTS
    MaxOpenBlocks = 2
    MaxBorrowers = 2
    MaxWrites = 2
    MaxDepth = 3
    MayIgnoreEnd = FALSE
    Nesters = {1, 2}
    NamedUsers = {1, 2}
INVARIANTS
    OwnTransaction
CHECK_DEADLOCK FALSE
