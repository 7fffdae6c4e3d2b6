SPECIFICATION Spec
CONSTANTS
    Jobs = {j1}
    Workers = {w1, w2}
    None = None
    N = 2
    Events = {"cancel", "pause", "resume", "shutdown", "restart", "fail"}
SYMMETRY WorkerSymmetry
INVARIANTS
    TypeOK
    CompletedMeansImported
    NoLostWakeup
    RegistryLive
CHECK_DEADLOCK FALSE
