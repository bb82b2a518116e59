SPECIFICATION WorkerSpec
CONSTANTS
    EdgeDaemons = {d1, d2}
    Edges = {"e1", "e2"}
    Fetches = {1, 2, 3}
    EdgeOf <- MCEdgeOf
    MaxCaps = 2
    MaxDiscards = 1
SYMMETRY MCSymmetry
INVARIANTS
    OneCapabilityPerToken
PROPERTY
    CancelHoldsUnlessRaced
CHECK_DEADLOCK FALSE
