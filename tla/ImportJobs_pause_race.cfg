SPECIFICATION Spec
CONSTANTS
    Jobs = {j1}
    Workers = {w1, w2}
    None = None
    N = 1
    Events = {"pause", "resume"}
INVARIANTS
    ActiveIsWorked
CHECK_DEADLOCK FALSE
