SPECIFICATION Spec
CONSTANTS
    MaxLevel = 3
    Unlimited = Unlimited
    SplitN = 1
    Inputs <- MCInputs
CHECK_DEADLOCK FALSE
INVARIANTS
    GridCovers
    PlanIsReference
