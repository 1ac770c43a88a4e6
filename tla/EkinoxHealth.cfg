SPECIFICATION Spec
CONSTANTS
    PresenceTimeout = 2
    MinPoll = 1
    MaxPoll = 2
    MinPublishInterval = 2
    StreakCap = 3
    MaxCall = 1
    MaxDrain = 2
    MaxOutbox = 2
INVARIANTS
    TypeOK
    BrokerAgrees
    ThreeFailuresOffline
    OnlineIsRecent
    CleanStopLeavesOffline
    ApiOkWhenPrompt
PROPERTIES
    OnlineNeedsTwoSuccesses
