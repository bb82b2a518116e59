SPECIFICATION Spec
CONSTANTS
    Identities = {i1, i2}
    Hubs = {h1, h2}
    Calls = {c1, c2}
    None = None
    Workloads <- MCWorkloads
SYMMETRY Symmetry
INVARIANTS
    OwnEventsOpen
    NothingUnseenBefore
CHECK_DEADLOCK FALSE
