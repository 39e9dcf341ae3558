SPECIFICATION Spec
CONSTANTS
    None = None
    Jobs = {j1}
    Workers = {w1}
    Clients = {c1}
    Seconds = {s1}
    MaxDeliveries = 1
CHECK_DEADLOCK FALSE
PROPERTIES FinishedIsNotRestarted
