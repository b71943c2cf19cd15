SPECIFICATION FairSpec
CONSTANTS
    MaxLines = 2
    MaxFaults = 2
INVARIANTS
    TypeOK
    LogFaithful
    LeftClean
PROPERTIES
    NoStartAfterCancel
    StopReleases
    FeedComplete
CHECK_DEADLOCK FALSE
