CONSTANTS
    Classes = {"default", "fast"}
    OperatorClasses = {"default"}
    Principals = {p1, p2}
    NoPrincipal = NoPrincipal
    Startups <- MCStartups
    Candidates <- MCCandidates
    Declared = {"default"}
    MaxId = 4
SPECIFICATION Spec
SYMMETRY Symmetry
INVARIANTS
    CountsExact
    CapacityHeld
    BypassBounded
    PoolMoves
CHECK_DEADLOCK FALSE
