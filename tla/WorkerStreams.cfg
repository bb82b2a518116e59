SPECIFICATION Spec
CONSTANTS
    VaultStreams = {}
    HistoryStreams = {"r"}
    Revocations = "r"
    Grants = {"g"}
    Edges = {"e1", "e2"}
    Requests = {1, 2}
    EdgeOf <- MCEdgeOf
    MaxAppends = 3
    MaxCrashes = 1
INVARIANTS
    AckedReadableUnlessRaced
    VerifiesUnlessRaced
PROPERTY
    RevocationSpreads
CHECK_DEADLOCK FALSE
