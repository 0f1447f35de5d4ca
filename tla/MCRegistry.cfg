CONSTANTS
    idle = 1
    absolute = 2
    max_extension = 1
    cancel_grace = 1
    commit_wait = 1
    retention = 1
    MaxTime = 4
    Repositories = {r1, r2}
    Principals = {p1}
    Keys = {k1}
    max_entries = 2
    max_global = 2
    max_per_repository = 1
    max_per_principal = 2
    max_maintenance_work = 2
    StoreFails = TRUE
    Extensions = {1}
    MaxId = 3
    Uses <- AnyUse
SPECIFICATION Spec
SYMMETRY Symmetry
INVARIANTS
    HandleInOnePlace
    CapacityIsExact
    OutcomesAgreeWithStore
CHECK_DEADLOCK FALSE
