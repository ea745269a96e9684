SPECIFICATION FairSpec
CONSTANTS
    Procs = {p1, p2}
    Tables = {t}
    Ops <- MCFewOps
    Columns = {"a"}
    Values = {"x"}
    Null = Null
    MaxRows = 0
    MaxOps = 3
    MaxCrashes = 0
PROPERTY EveryCallReturns
CHECK_DEADLOCK FALSE
