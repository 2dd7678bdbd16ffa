SPECIFICATION Spec
CONSTANTS
    Processes = {p1, p2, p3}
    Units = {u1, u2}
    MaxHappened = 6
SYMMETRY Symmetry
INVARIANTS
    LiveSocketIsKept
    LastImportIsStored
PROPERTIES
    StartsUnlessPrevented
CHECK_DEADLOCK FALSE
