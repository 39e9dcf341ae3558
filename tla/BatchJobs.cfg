SPECIFICATION FairSpec
CONSTANTS
    None = None
    Jobs = {j1}
    Workers = {w1, w2}
    Clients = {c1}
    Seconds = {s1, s2}
    MaxDeliveries = 3
CHECK_DEADLOCK FALSE
INVARIANTS AssetsAreUploaded RowsAreCoherent AckedIsDecided AnswersAreHonest
PROPERTIES SuccessSettles CreatedJobsDecide
