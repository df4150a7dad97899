SPECIFICATION FairSpec
CONSTANTS
    Selections = {1, 3}
    Writes = {"phase", "start", "auto"}
    Serialized = FALSE
    AutoFirst = FALSE
    LockoutCount = 2
    MaxWrites = 1
    MaxSwitches = 0
    MaxCrashes = 1
PROPERTIES SwitchEnds ChargingResumes
