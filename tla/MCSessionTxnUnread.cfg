SPECIFICATION Spec
CONSTANTS
    MaxOpenBlocks = 2
    MaxBorrowers = 2
    MaxWrites = 1
    MaxDepth = 3
    MayIgnoreEnd = FALSE
    Nesters = {1, 2}
    NamedUsers = {}
INVARIANTS
    RolledBackOrRetired
CHECK_DEADLOCK FALSE
