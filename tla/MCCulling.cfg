\* Three photos, any two requests; the requests are used up in the end.
SPECIFICATION Spec
CONSTANTS
    N = 3
    DigitBits = 2
    MinDigits = 1
    MaxDistance = 1
    MaxGap = 2
    Shots <- MCShots
    Gaps = {1, 2}
    BurstGaps = {1, 6}
    Weight <- MCWeight
    Requested = {"best", "recover", "?"}
    Unconfirmed = 1
    MaxRequests = 2
    PageSize = 2
INVARIANTS
    TypeOK
    EveryPlaceIsShown
PROPERTIES
    TimelineFollowsGaps
    BurstsStayInSessions
    SessionsHaveRows
    SimilarPhotosFound
    RedundantHasBetter
    RecommendedIsKept
CHECK_DEADLOCK FALSE
