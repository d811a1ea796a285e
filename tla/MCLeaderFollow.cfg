SPECIFICATION FairSpec
CONSTANTS
    Nodes = {n1, n2}
    NoNode = none
    TxnNodes = {n1, n2}
    FollowLeader = TRUE
    LeaderRetries = 2
    FirstPause = 1
    MaxPause = 3
    DefaultTimeout = TRUE
    MaxRequests = 3
    MaxElections = 1
    MaxDepth = 2
INVARIANTS
    TypeOK
    OutcomeIsTrue
    TxnAgrees
PROPERTIES
    ImplementsDelivery
    TxnPinned
    CallReturns
CHECK_DEADLOCK FALSE
