SPECIFICATION Spec
CONSTANTS
    Jobs = {j1}
    Workers = {w1}
    None = None
    N = 1
    Events = {"cancel"}
PROPERTIES
    CancellationWinsFinalRace
CHECK_DEADLOCK FALSE
