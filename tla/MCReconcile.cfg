\* Up to three imports, two at a time, of a folder that changes or goes once. The jobs
\* are used up in the end, so the system may stop.
SPECIFICATION Spec
CONSTANTS
    a1 = a1
    a2 = a2
    b1 = b1
    a = a
    b = b
    Paths = {a1, a2, b1}
    Stems = {a, b}
    StemOf <- MCStemOf
    Raw = {a1}
    Contents = {x, y}
    Hashed = {x}
    Absent = Absent
    Jobs = {j1, j2, j3}
    MaxLive = 2
    MaxChanges = 1
    MaxResumes = 1
SYMMETRY Symmetry
INVARIANTS
    TypeOK
PROPERTIES
    CompletedMatchesFolder
    UnclaimedPhotosSettle
    MoveKeepsIdentity
CHECK_DEADLOCK FALSE
