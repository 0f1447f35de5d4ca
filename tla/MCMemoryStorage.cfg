SPECIFICATION Spec
CONSTANTS
    q0 = q0
    q1 = q1
    g1 = g1
    a = a
    b = b
    p = p
    Quads = {q0, q1}
    Graphs = {g1}
    Mappings = {a, b}
    DefaultGraph = DefaultGraph
    graph_name <- MCGraphName
    prefix <- MCPrefix
    Keys = {k1}
    NoKey = NoKey
    TransactionBase = 100
    MaxVersion = 2
    MaxTransactions = 3
    MaxLog = 3
SYMMETRY Symmetry
INVARIANTS
    NoTransactionLeftBehind
    OutcomeMeansVisible
PROPERTIES
    SnapshotsHold
CHECK_DEADLOCK FALSE
