SPECIFICATION Spec
CONSTANTS
    p1 = p1
    p2 = p2
    i1 = i1
    i2 = i2
    i3 = i3
    Partitions = {p1, p2}
    Items = {i1, i2, i3}
    Timestamps = {1, 2}
    TimesOf <- MCTimesOf
    Touches <- MCTouches
    Covers <- MCCovers
    MaxRuns = 3
    MaxCrashes = 1
    MaxFailures = 1
INVARIANTS
    RegisteredIsServed
    FinishedIsIndexed
PROPERTIES
    ServedRowsStay
    WorkersEnd
CHECK_DEADLOCK FALSE
