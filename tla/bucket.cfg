SPECIFICATION FairSpec
CONSTANTS
    Names = {"photos", "videos"}
    DefaultName = "photos"
    Users = {"ann"}
    Specs <- Varied
    MaxEdits = 3
    MaxFaults = 1
INVARIANTS TypeOK ReadyIsTrue
PROPERTIES ForeignUntouched SpecApplied
CHECK_DEADLOCK FALSE
