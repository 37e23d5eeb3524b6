CONSTANTS
    MaxTasks = 3
    FifoCap <- MCFifoCap
    Timeouts = {"positive"}
    ForkMayFail = TRUE
SPECIFICATION Spec
CHECK_DEADLOCK FALSE
INVARIANT TypeOK
INVARIANT FifosDrainedWhileHealthy
PROPERTY RequestAnsweredUnlessThreadDied
PROPERTY ImplementsSessionContract
