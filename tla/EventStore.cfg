SPECIFICATION Spec
CONSTANTS
    v1 = v1
    rev = rev
    r1 = r1
    r2 = r2
    i1 = i1
    i2 = i2
    p1 = p1
    NoId = NoId
    VaultStreams = {v1}
    HistoryStreams = {rev}
    Revocations = rev
    Requests = {r1, r2}
    LocalIds = {i1, i2}
    DepsLists <- NoLists
    PeerEvents <- PeerEvent
    EchoPush = TRUE
    MaxCrashes = 1
SYMMETRY Symmetry
INVARIANT TypeOK
INVARIANT GapFreeSequence
INVARIANT HeadIsLastEvent
 
INVARIANT AppendedHistoryVerifies
INVARIANT CommittedBlobOnDisk
INVARIANT AckedEventStored
INVARIANT MarkBackedByHistory
INVARIANT EventsUnique
 
 
CHECK_DEADLOCK FALSE
