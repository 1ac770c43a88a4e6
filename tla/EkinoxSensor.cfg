SPECIFICATION FairSpec
CONSTANTS
    RxTimeout = 1
    FailThreshold = 2
    OkThreshold = 2
    Backoff = 1
    BackoffMax = 2
    StreakCap = 2
    MaxDrain = 1
INVARIANTS
    TypeOK
    PublishedLinkHasSession
    LinkAliveIsRecent
PROPERTIES
    WatchdogNeedsSilence
    RecordingKeepsSession
    FramesRestoreLink
    SilenceReopens
