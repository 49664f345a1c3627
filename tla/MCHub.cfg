SPECIFICATION FairSpec
CONSTANTS
    c1 = c1
    c2 = c2
    Conns = {c1, c2}
    Talkers = {c1}
    Quitters = {c1}
    SendSize = 1
    QueueSize = 1
    MaxEvents = 2
    MaxRequests = 1
INVARIANTS
    TypeOK
    NoEventSkipped
    SyncCoversTheGap
PROPERTIES
    HubClosesOnce
    ConnectionEnds
    EveryEventArrives
CHECK_DEADLOCK FALSE
