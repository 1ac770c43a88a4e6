SPECIFICATION FairSpec
CONSTANT MaxQueue = 2
INVARIANTS
    TypeOK
    WaitsOnlyForLiveSession
    PresenceOnlineWhileServing
PROPERTIES
    DeadReadsOffline
    Reconnects
    StopReturnsOnTraffic
