CONSTANTS
    NumThread = 2
    MaxConns = 2
    Kinds <- MCKinds
    BindMayFail = FALSE
SPECIFICATION Spec
CHECK_DEADLOCK FALSE
INVARIANT FifosRegisteredBeforeUse
