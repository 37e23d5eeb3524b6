CONSTANTS
    NumThread = 2
    MaxConns = 3
    Kinds <- MCKinds
    BindMayFail = TRUE
SPECIFICATION Spec
CHECK_DEADLOCK FALSE
INVARIANT TypeOK
PROPERTY ServedUnlessPoolLost
