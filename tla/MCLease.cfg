CONSTANTS
    idle = 1
    absolute = 2
    max_extension = 2
    cancel_grace = 2
    commit_wait = 1
    retention = 1
    MaxTime = 5
    MaxInstances = 2
    MaxOps = 2
    Extensions = {1, 3}
SPECIFICATION Spec
INVARIANTS
    NoLaterOverflow
    AttemptIsNeverRolledBack
    OwnHandleEnds
    RestartClassIsSound
PROPERTIES
    OutcomeIsFinal
CHECK_DEADLOCK FALSE
