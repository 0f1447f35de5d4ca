SPECIFICATION Spec
CONSTANTS
    Limits = {2, 4, 6}
    SchemaLimits = {1, 2, 3}
    MaxStops = 3
    MaxLosses = 2
INVARIANTS
    RecordsAreWhole
    SealedStands
    BuildBound
    AttemptsSuffice
    TargetNeverHalf
CHECK_DEADLOCK FALSE
