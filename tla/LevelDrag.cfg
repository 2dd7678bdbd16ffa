SPECIFICATION DragSpec
CONSTANTS
    Members <- MCMembers
    Anchor = "fine"
    Lo <- MCLo
    Hi <- MCHi
    StartLevels <- MCStartLevels
    Targets <- MCTargets
INVARIANT BalancePreserved
