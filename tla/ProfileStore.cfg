SPECIFICATION Spec
CONSTANTS
    Names = {"", "day", "night"}
    WritableKinds = {"boolean", "integer"}
    Absent = Absent
    MaxSaves = 3
    MaxCrashes = 2
INVARIANTS
    TypeOK
    StoreAlwaysLoads
    AnsweredSavesAreStored
    MemoryIsStored
CHECK_DEADLOCK FALSE
