SPECIFICATION LoadSpec
CONSTANTS
    i1 = i1
    i2 = i2
    i3 = i3
    b1 = b1
    b2 = b2
    OpenEnd = OpenEnd
    Runs <- MCItems
    Queries <- MCQueries
    MaxRuns = 3
    MaxRequests = 3
CHECK_DEADLOCK FALSE
INVARIANTS
    LoadTypeOK
    UnfinishedAreWatched
    IngestedIsFound
    CubeIsExact
    RefusalsAreDeserved
PROPERTIES
    ItemsOrFailure
