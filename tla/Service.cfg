SPECIFICATION FairSpec
CONSTANTS
    NumControls = 2
    Units <- MCUnits
    NoUnit = NoUnit
    Absent = Absent
    Home = "desk"
    DeviceId <- MCDeviceId
    Schema <- MCSchema
    Capability <- MCCapability
    Numbers = {0, 1}
    InitialSettings <- MCInitialSettings
    Names = {"day", "night"}
    StoredProfiles <- MCTwoProfiles
    GroupMembers <- MCGroupMembers
    GroupAnchor = 1
    Targets = {0, 1000, 1001}
    MaxDisturbances = 3
    MaxRequests = 3
    MaxEvents = 4
INVARIANTS
    TypeOK
    RevisionNamesView
    ReportAccountsForWrites
    GroupStopsAtFailure
    ReviewIsCurrent
    AppliedAsReviewed
PROPERTIES
    StateComesFromHardware
    ShowsVersionedView
    Reconciles
CHECK_DEADLOCK FALSE
