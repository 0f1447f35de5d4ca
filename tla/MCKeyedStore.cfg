SPECIFICATION Spec
CONSTANTS
    Keys = {k1, k2, k3}
    NoKey = NoKey
    MaxPlain = 2
SYMMETRY Symmetry
INVARIANTS
    DefiniteAnswersHold
    EffectsIffCommitted
PROPERTIES
    LedgerHolds
