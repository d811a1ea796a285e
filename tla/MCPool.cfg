SPECIFICATION FairSpec
CONSTANTS
    Threads = {t1, t2, t3}
    Conns = {c1, c2, c3}
    NoConn = none
    Size = 2
    MayPanic = TRUE
INVARIANTS
    TypeOK
    SlotAccounting
    SingleOwner
    SocketsOwned
    NoLostWakeup
PROPERTIES
    ImplementsLending
    ServedWhileASlotIsLeft
    DeadlineHonoured
    CloseDrains
