SPECIFICATION Spec
CONSTANTS
    Jobs = {j1}
    Workers = {w1, w2}
    None = None
    N = 1
    Events = {"cancel", "pause", "resume"}
PROPERTIES
    WorkerSettles
    CancelStopsWorkers
CHECK_DEADLOCK FALSE
