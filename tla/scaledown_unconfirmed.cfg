SPECIFICATION Spec
CONSTANTS
    MaxReplicas = 2
    MinReplicas = 1
    Volumes = {v1}
    Workers = {w1, w2}
    MaxEdits = 1
    MaxFaults = 1
PROPERTY RemovalConfirmed
