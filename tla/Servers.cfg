SPECIFICATION Spec
CONSTANTS
    c1 = c1
    c2 = c2
    k1 = k1
    k2 = k2
SYMMETRY ClientSymmetry
INVARIANTS
    TypeOK
    SerialKeysAgree
    ExactOnOwnDocuments
    
    
    MetadataFollowsVector
    EveryLineIsAPoint
    ColumnsAreRows
    
    CommittedOnce
    SessionsAgree
CHECK_DEADLOCK FALSE
