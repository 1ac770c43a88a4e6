SPECIFICATION FairSpec
CONSTANTS
    PresenceTimeout = 1
    MinPoll = 1
    MaxPoll = 1
    MinPublishInterval = 1
    StreakCap = 3
    MaxCall = 1
    MaxDrain = 0
    MaxOutbox = 1
PROPERTIES
    DeadReadsOffline
