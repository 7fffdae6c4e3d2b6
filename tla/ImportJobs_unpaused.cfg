SPECIFICATION Spec
CONSTANTS
    Jobs = {j1, j2}
    Workers = {w1, w2}
    None = None
    N = 1
    Events = {"cancel", "resume", "restart", "fail"}
INVARIANTS
    OneWorker
    CountersDescribeAttempt
    ActiveIsWorked
    RevisionAgrees
PROPERTIES
    EveryJobSettles
    ImplementsLifecycle
CHECK_DEADLOCK FALSE
