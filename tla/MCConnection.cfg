SPECIFICATION FairSpec
CONSTANTS
    MaxExchanges = 4
    HasUser = TRUE
    ConnectTimeout = TRUE
    ReadTimeout = TRUE
INVARIANTS
    TypeOK
    Aligned
PROPERTIES
    PoisonIsFinal
    CallReturns
CHECK_DEADLOCK FALSE
