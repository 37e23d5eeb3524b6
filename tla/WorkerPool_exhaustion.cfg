CONSTANTS
    NumThread = 2
    MaxConns = 3
    Kinds <- MCKinds
    BindMayFail = FALSE
SPECIFICATION Spec
CHECK_DEADLOCK FALSE
PROPERTY RequestsServed
