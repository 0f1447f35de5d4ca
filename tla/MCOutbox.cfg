SPECIFICATION MaintainedSpec
CONSTANTS
    Keys = {k1, k2}
    LeaseIds = {a, b}
    Policies <- MCPolicies
    MaxEvents = 1
    MaxTime = 2
    MaxNonce = 2
    Limits = {1, 2}
INVARIANTS
    NeverCorrupt
PROPERTIES
    CapacityHolds
    OutboxDrains
CHECK_DEADLOCK FALSE
