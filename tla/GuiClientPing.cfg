SPECIFICATION Spec
CONSTANTS
    Pings = {p1}
    MaxEvents = 2
    MaxInbox = 1
INVARIANT
    PingShowsItsTime
