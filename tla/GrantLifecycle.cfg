SPECIFICATION Spec
CONSTANTS
    NoOne = NoOne
    g1 = g1
    g2 = g2
    hub = hub
    user = user
    r1 = r1
    r2 = r2
    Ids = {g1, g2}
    Roots = {g1}
    Principals = {hub, user}
    Hub = hub
    Requests = {r1, r2}
    MayFail = TRUE
    MaxCrashes = 1
SYMMETRY MCSymmetry
INVARIANT TypeOK
INVARIANT RevokeAnswerTrue
INVARIANT RecipientRecorded
INVARIANT NothingAfterRevocation
PROPERTY RevocationsStick
CHECK_DEADLOCK FALSE
