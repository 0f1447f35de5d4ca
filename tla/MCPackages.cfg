CONSTANTS
    Quads = {q}
    None = None
    max_generations = 2
    Budgets <- AnyBudget
SPECIFICATION Spec
INVARIANTS
    SnapshotIsExact
    StrictIsExact
    PointerAsPromised
    PointerOpens
    PackagesAreWhole
CHECK_DEADLOCK FALSE
