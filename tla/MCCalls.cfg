SPECIFICATION MCSpec
CONSTANTS
    Rows <- AllRows
    Nodes = {n1, n2}
    Ids = {t1, t2}
    EmptyId = empty
    NoTxn = none
    MaxWrites = 2
    PerMs = 2
    MaxWire = 3
    MaxUnits = 10
    MaxDecimal = 5
    MaxText = 4
    MaxScript = 2
SYMMETRY Symmetry
INVARIANTS
    TypeOK
    WriteGoesWhereMeant
    ToldTruth
    EndIsTrue
    TtlKept
    DecimalsArePlain
    ScriptIsOne
CHECK_DEADLOCK FALSE
