SPECIFICATION Spec
CONSTANTS
    N = 1
    MaxWorkers = 1
    Workers0 = 1
    Events = {"pause", "resume"}
INVARIANTS
    PausedIsResumable
