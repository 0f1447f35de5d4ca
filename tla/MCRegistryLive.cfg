CONSTANTS
    idle = 1
    absolute = 1
    max_extension = 1
    cancel_grace = 1
    commit_wait = 1
    retention = 1
    MaxTime = 3
    Repositories = {r1, r2}
    Principals = {p1}
    Keys = {k1}
    max_entries = 2
    max_global = 2
    max_per_repository = 1
    max_per_principal = 2
    max_maintenance_work = 1
    StoreFails = FALSE
    Extensions = {1}
    MaxId = 3
    Uses <- MaintainedUse
SPECIFICATION MaintainedSpec
PROPERTIES
    EntriesGo
CHECK_DEADLOCK FALSE
