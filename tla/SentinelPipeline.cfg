SPECIFICATION Spec
CONSTANTS
    x1 = x1
    x2 = x2
    Items <- MCItems
    Selections <- MCSelections
    r1 = r1
    r2 = r2
    Requests <- MCRequests
    MaxIterations = 1
CHECK_DEADLOCK FALSE
INVARIANTS
    NoItemForgotten
    OwnTasksAreProcessed
PROPERTIES
    WaitsEnd
