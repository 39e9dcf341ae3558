SPECIFICATION Spec
CONSTANTS
    k1 = k1
    k2 = k2
    k3 = k3
    k4 = k4
    Keys = {k1, k2, k3, k4}
    Quadrants <- MCQuadrants
    Root <- MCRoot
    Batches <- MCBatches
    TargetLevel = 1
    TargetRows = 3
    MaxUploads = 3
    MaxCrashes = 1
INVARIANTS
    TypeOK
    KeysAreSafe
    RowsInTheirPartition
    DefragKeepsNewest
    ShardedDeepest
    RaisesForAReason

PROPERTIES
    OperationsEnd
CHECK_DEADLOCK FALSE
