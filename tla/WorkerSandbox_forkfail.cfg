CONSTANTS
    MaxTasks = 2
    FifoCap <- MCFifoCap
    Timeouts = {"positive"}
    ForkMayFail = TRUE
SPECIFICATION Spec
CHECK_DEADLOCK FALSE
PROPERTY RequestAnswered
