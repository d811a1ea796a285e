SPECIFICATION FairSpec
CONSTANTS
    Threads = {t1, t2}
    Conns = {c1, c2, c3}
    NoConn = none
    Size = 1
    MayPanic = TRUE
PROPERTIES
    NeverWedged
