SPECIFICATION Spec
CONSTANTS
    MaxClock = 4
    Period = 1
    Keep = 1
    MaxLag = 1
    MaxEdits = 0
    MaxFaults = 0
PROPERTY
    KeepsCompleted
CHECK_DEADLOCK FALSE
