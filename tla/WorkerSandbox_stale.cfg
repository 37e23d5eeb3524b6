CONSTANTS
    MaxTasks = 3
    FifoCap <- MCFifoCap
    Timeouts = {"positive"}
    ForkMayFail = FALSE
SPECIFICATION Spec
CHECK_DEADLOCK FALSE
INVARIANT ResultBelongsToTask
