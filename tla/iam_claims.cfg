SPECIFICATION FairSpec
CONSTANTS
    CRs = {1, 2}
    Names = {"alice", "bob"}
    DefaultName <- SameDefault
    RetainChoices = {FALSE}
    MaxClock = 1
    MaxEdits = 3
    MaxFaults = 1
    CacheLag = TRUE
INVARIANT TypeOK
PROPERTIES HandoverSafe OwnershipSettles
CHECK_DEADLOCK FALSE
