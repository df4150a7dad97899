\* A request to switch off the parallel device of the generic integration.
CONSTANTS
    Fleet = {"d1", "d2"}
    ByAddress = TRUE
    MaxBoots = 2
INIT GsInit
NEXT GsNext
PROPERTY RequestTried
CHECK_DEADLOCK FALSE
