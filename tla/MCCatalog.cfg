\* Two photos, two settings; the events are used up in the end.
SPECIFICATION Spec
CONSTANTS
    Photos = {p1, p2}
    Settings = {s0, s1}
    DefaultSettings = s0
    None = None
    Alike = TRUE
    MaxTime = 2
    MaxEvents = 4
SYMMETRY Symmetry
INVARIANTS
    TypeOK
    RemainingIsRight
    CacheNotOlder
PROPERTIES
    DecisionsKept
CHECK_DEADLOCK FALSE
