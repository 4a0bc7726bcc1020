SPECIFICATION Spec
CONSTANTS
    k1 = k1
    k2 = k2
    k3 = k3
    s1 = s1
    s2 = s2
    Keys = {k1, k2, k3}
    Symbols = {s1, s2}
    Requests <- MCRequests
    Prices = {1, 2}
    InitialCash = 3
    InitialPositions <- MCInitialPositions
INVARIANTS Solvent OneOrderPerKey FillsMatchOrders AccountExplainedByFills
