SPECIFICATION Spec
CONSTANTS
    N = 3
    MaxWorkers = 2
    Workers0 = 1
    Events = {"pause", "resume", "cancel", "workers", "import", "fail", "restart"}
INVARIANTS
    TypeOK
    PermitsAccounted
    NoLostWakeup
PROPERTIES
    WorkBeginsWhileRunning
    CancelEnds
    AnalysisEnds
