SPECIFICATION FairSpec
CONSTANTS
    MaxDaemons = 2
    MaxLinks = 3
    MaxRevision = 4
    MaxTouches = 2
    MaxHappened = 3
    MaxEvents = 2
    OfflineAt = {2}
    Timeout = 4
    MaxTaps = 5
    Times <- MCTimes
INVARIANTS
    TypeOK
    BlankIsOwed
    QuietIsCurrent
    TouchesInOrder
    FocusIsOnDashboard
    UnlockIsClockwise
    LockEndsWaiting
PROPERTIES
    ScreenCatchesUp
CHECK_DEADLOCK FALSE
