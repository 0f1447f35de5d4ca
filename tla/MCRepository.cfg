CONSTANTS
    retention = 2
    max_generation = 12
    MaxTime = 6
    MaxWork = 1
    None = None
SPECIFICATION Spec
INVARIANTS
    OwnHandleCompletes
    WorkOnlyInService
PROPERTIES
    RetentionIsHonoured
CHECK_DEADLOCK FALSE
