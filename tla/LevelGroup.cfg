SPECIFICATION Spec
CONSTANTS
    Members <- MCMembers
    Anchor = "wide"
    Lo <- MCLo
    Hi <- MCHi
    StartLevels <- MCStartLevels
    Targets <- MCTargets
INVARIANTS
    TypeOK
    SettledGroupStays
PROPERTIES
    OrderKept
    OneDragRounds
