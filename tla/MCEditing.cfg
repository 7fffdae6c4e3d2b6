\* Two requests at a time on two photos; every stack and the cache can overflow.
SPECIFICATION Spec
CONSTANTS
    Photos = {p1, p2}
    Clients = {c1, c2}
    Recipes = {r0, r1, r2}
    DefaultRecipe = r0
    HistoryLimit = 2
    CacheEntries = 2
    Edited = {p1}
    MaxRev = 3
SYMMETRY ClientSymmetry
INVARIANTS
    TypeOK
    PreviewMatchesRevision
PROPERTIES
    CreatedOnce
    LinearHistory
