SPECIFICATION RestartSpec
CONSTANTS
    NumControls = 2
    Units <- MCUnits
    NoUnit = NoUnit
    Absent = Absent
    Home = "desk"
    DeviceId <- MCDeviceId
    Schema <- MCSchema
    Capability <- MCCapability
    Numbers = {0, 1}
    InitialSettings <- MCInitialSettings
    Names = {"night"}
    StoredProfiles <- MCStoredProfiles
    GroupMembers <- MCGroupMembers
    GroupAnchor = 1
    Targets = {0, 1000, 1001}
    MaxDisturbances = 1
    MaxRequests = 2
    MaxEvents = 3
    MaxRestarts = 1
INVARIANT ReviewIsCurrent
CHECK_DEADLOCK FALSE
