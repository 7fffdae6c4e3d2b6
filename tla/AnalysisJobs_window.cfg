SPECIFICATION Spec
CONSTANTS
    N = 5
    MaxWorkers = 2
    Workers0 = 2
    Events = {"pause", "resume", "cancel", "fail", "restart"}
INVARIANTS
    CompletedCovers
    JoinedBeforeExit
