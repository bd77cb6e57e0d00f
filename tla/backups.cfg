SPECIFICATION FairSpec
CONSTANTS
    MaxClock = 3
    Period = 2
    Keep = 1
    MaxLag = 1
    MaxEdits = 1
    MaxFaults = 1
INVARIANTS
    TypeOK
    OncePerSlot
    CompletedIsTrue
PROPERTIES
    RetentionKept
    KeepsContract
    AllSettles
CHECK_DEADLOCK FALSE
