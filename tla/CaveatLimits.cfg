SPECIFICATION LimitsSpec
CONSTANTS
    Grants = {"slow", "both", "held"}
    CaveatsOf <- MCCaveats
    Calls <- MCCalls
    Urls = {"verifier"}
    Evaluators = {r1, r2}
    LRUSize = 1
    TTL = 1
    MaxTime = 3
    Workloads <- MCWorkloads
SYMMETRY MCSymmetry
INVARIANTS
    RateHolds
PROPERTIES
    DischargeBound
CHECK_DEADLOCK FALSE
