SPECIFICATION FairSpec
CONSTANTS
    Sessions = {s1}
    Tables = {tab1, tab2}
    MaxDdl = 3
    MaxStops = 1
    MaxFailures = 1
INVARIANTS TypeOK  AckedIsSaved
PROPERTY EventuallySaved
CHECK_DEADLOCK FALSE
