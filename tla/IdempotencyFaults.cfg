SPECIFICATION Spec
CONSTANTS
    k1 = k1
    k2 = k2
    a = a
    b = b
    r1 = r1
    r2 = r2
    r3 = r3
    Keys = {k1, k2}
    Payloads = {a, b}
    Requests = {r1, r2}
    MaxEffects = 3
    MaxCrashes = 1
    MayFail = TRUE
SYMMETRY MCSymmetry
INVARIANT TypeOK
INVARIANT AnswersFaithful
INVARIANT AtMostOnceUnlessExcused
CHECK_DEADLOCK FALSE
