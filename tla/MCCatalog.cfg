CONSTANTS
    Ids = {a, b}
    Repositories = 2
    OpenHandles = 1
    Retention = 1
    MaxGeneration = 12
    MaxContent = 1
    Budgets <- OneKind
SPECIFICATION Spec
SYMMETRY IdSymmetry
INVARIANT OnlyClosedIsServed
INVARIANT NoCrashFails
 
INVARIANT TombstoneIsRecoverable
PROPERTY SettledIsFinal
CHECK_DEADLOCK FALSE
