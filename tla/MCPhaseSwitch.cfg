SPECIFICATION Spec
CONSTANTS
    Selections = {1, 3}
    Writes = {"phase", "start", "stop", "manual", "reset"}
    Serialized = TRUE
    AutoFirst = TRUE
    LockoutCount = 1
    MaxWrites = 1
    MaxSwitches = 1
    MaxCrashes = 0
INVARIANT TypeOK
PROPERTY StagedMovesOpen
