SPECIFICATION FairSpec
CONSTANTS
    MaxDrivers = 2
    SameDriver = TRUE
    SameName = FALSE
    MaxEdits = 2
    MaxFaults = 1
INVARIANTS TypeOK OneRegistrar NoLeftovers
PROPERTIES CsiSettles
CHECK_DEADLOCK FALSE
