SPECIFICATION Spec
CONSTANTS
    NoOne = NoOne
    t1 = t1
    t2 = t2
    d1 = d1
    d2 = d2
    c1 = c1
    c2 = c2
    c3 = c3
    r1 = r1
    r2 = r2
    r3 = r3
    Tokens = {t1}
    Daemons = {d1, d2}
    Caps = {c1, c2, c3}
    Requests = {r1, r2, r3}
    MaxCrashes = 1
INVARIANT CancelExcludesRedeem
INVARIANT AnswerMatchesRow
PROPERTY ImplementsOneTimeToken
CHECK_DEADLOCK FALSE
