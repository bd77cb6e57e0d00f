SPECIFICATION FairSpec
CONSTANTS
    Start = {{"filer", "s3"}}
    Toggles = {"jwt"}
    Upgraded = FALSE
    Webhook = TRUE
    CertManager = TRUE
    LagOn = {}
    MaxEdits = 1
    MaxFaults = 0
PROPERTIES GatewaysFollow
CHECK_DEADLOCK FALSE
