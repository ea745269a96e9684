SPECIFICATION Spec
CONSTANTS
    my1 = my1
    my2 = my2
    my3 = my3
    pg1 = pg1
    web1 = web1
    Mixed = Mixed
    mixed = mixed
    Clients <- AllClients
    Kind <- AllKinds
    Databases <- OneDatabase
    Missing = mixed
    Lower <- LowerCase
    MaxConnections = 2
    MaxQueries = 1
    WebOffset = 100
SYMMETRY Symmetry
INVARIANTS TypeOK OwnDatabaseWithinServer  PermitsAddUp
CHECK_DEADLOCK FALSE
