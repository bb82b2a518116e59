SPECIFICATION Spec
CONSTANTS
    Hubs = {"A", "B"}
    Relays <- MCRelays
    Streams = {"v", "h"}
    HistoryStreams = {"h"}
    Events <- MCEvents
    SubHub = "B"
    SubStream = "h"
    Limit = 2
    MaxFaults = 2
INVARIANTS
    TypeOK
    NothingSilentlySkipped
    OrderPreserved
    DeliveredIsPrefix
PROPERTY
    AppendedReachesSubscriber
CHECK_DEADLOCK FALSE
