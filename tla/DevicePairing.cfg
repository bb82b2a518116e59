SPECIFICATION DeviceSpec
CONSTANTS
    Null = Null
    t1 = t1
    t2 = t2
    d1 = d1
    d2 = d2
    d3 = d3
    r1 = r1
    r2 = r2
    r3 = r3
    PairingTokens = {t1, t2}
    Devices = {d1, d2, d3}
    Completions = {r1, r2}
    MaxRestarts = 1
INVARIANT EnrolledAreKnown
INVARIANT SecondDeviceNeedsRace
CHECK_DEADLOCK FALSE
