SPECIFICATION Spec
CONSTANTS
    Nodes = {n1, n2}
    NoNode = none
    TxnNodes = {n1, n2}
    FollowLeader = TRUE
    LeaderRetries = 2
    FirstPause = 1
    MaxPause = 3
    DefaultTimeout = FALSE
    MaxRequests = 2
    MaxElections = 1
    MaxDepth = 2
INVARIANT TimeoutInForce
CHECK_DEADLOCK FALSE
