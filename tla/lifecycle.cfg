SPECIFICATION FairSpec
CONSTANTS
    Policies = {1, 2}
    MaxEdits = 2
    MaxFaults = 1
INVARIANTS
    TypeOK
PROPERTIES
    RecordedCleaned
    LifecycleSettles
CHECK_DEADLOCK FALSE
