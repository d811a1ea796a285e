SPECIFICATION Spec
CONSTANTS
    Clients = {c1, c2}
    Nobody = nobody
    ReadTimeout = 4
    Waits = {0, 1, 2}
    Ttl = 3
    Transit = 1
    MaxCalls = 4
    MaxPops = 3
    MaxElements = 2
    MaxCuts = 1
SYMMETRY Symmetry
INVARIANTS
    TypeOK
    NothingLost
    TokensFence
    LeaseIsHeld
PROPERTIES
    ImplementsFencing
CHECK_DEADLOCK FALSE
