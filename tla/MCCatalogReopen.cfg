CONSTANTS
    Ids = {a, b}
    Repositories = 2
    OpenHandles = 1
    Retention = 1
    MaxGeneration = 12
    MaxContent = 1
    Budgets <- BothKinds
SPECIFICATION Spec
SYMMETRY IdSymmetry
INVARIANT NoCrashFails
CHECK_DEADLOCK FALSE
