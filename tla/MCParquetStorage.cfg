SPECIFICATION Spec
CONSTANTS
    Procs = {p1, p2}
    Tables = {t}
    Ops <- MCOps
    Columns = {"a", "b", "c"}
    Values = {"x", "y"}
    Null = Null
    MaxRows = 1
    MaxOps = 4
    MaxCrashes = 1
INVARIANTS TypeOK NoStaleRewrite NeverTorn AckSurvivesCrash ErrorMeansNoEffect RowLimit
PROPERTY ImplementsAtomicStore
CHECK_DEADLOCK FALSE
