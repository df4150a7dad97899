SPECIFICATION Spec
CONSTANTS
    Selections = {1, 3}
    Writes = {"phase", "start"}
    Serialized = TRUE
    AutoFirst = FALSE
    LockoutCount = 2
    MaxWrites = 2
    MaxSwitches = 0
    MaxCrashes = 0
PROPERTY NeverUnderLoad
