SPECIFICATION FairSpec
CONSTANTS
    Bindings = {b1}
    MaxKey = 8
    CacheLag = TRUE
    MaxEdits = 1
    MaxFaults = 1
INVARIANTS
    TypeOK
PROPERTIES
    NoClobber
    PairKept
    PinHolds
    AccessSettles
CHECK_DEADLOCK FALSE
