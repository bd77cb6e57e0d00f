SPECIFICATION FairSpec
CONSTANTS
    MaxReplicas = 3
    MinReplicas = 1
    Volumes = {v1}
    Workers = {w1, w2}
    MaxEdits = 1
    MaxFaults = 1
INVARIANTS TypeOK NoStuckTracker
PROPERTIES ShrinkConfirmed ScaleCompletes
