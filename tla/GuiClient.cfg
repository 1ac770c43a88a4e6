SPECIFICATION FairSpec
CONSTANTS
    Pings = {p1}
    MaxEvents = 2
    MaxInbox = 1
INVARIANTS
    TypeOK
    WindowCatchesUp
    StopLeavesNothing
PROPERTIES
    OneVerdict
    StopReturns
    Retries
    PingSettles
