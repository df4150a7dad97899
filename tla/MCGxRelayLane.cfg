CONSTANTS
    EnsureManual = TRUE
    Targets = {0, 1}
    Existing = {1}
    NormallyClosed = FALSE
    NoFlight = NoFlight
    NoCommand = NoCommand
    MaxRequests = 2
    MaxOutstanding = 1
    MaxCrashes = 1
    Revisions = {1, 2}
    Ranks = {0, 1}
    Times = {0, 1}
    Values <- Progress
SPECIFICATION SettledSpec
PROPERTIES
    OffResolved
CHECK_DEADLOCK FALSE
