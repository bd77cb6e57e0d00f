SPECIFICATION FairSpec
CONSTANTS
    Start = {{"annotations", "jwt", "hostPath", "daemonset", "masterConfig"},
             {"annotations", "concurrentStart", "noBase", "admin", "worker", "hostSuffix"},
             {"annotations", "concurrentStart", "noBase", "mirror", "mirror2"},
             {"annotations", "hostPath", "filer", "s3", "s3Ingress", "config"},
             {"annotations", "tls", "topology", "noBase", "filer", "filerIngress", "sftp"}}
    Toggles = {"jwt", "tls", "daemonset", "hostPath", "persistence", "s3", "noStorage"}
    Upgraded = TRUE
    Webhook = FALSE
    CertManager = TRUE
    LagOn = {"volume", "security", "s3"}
    MaxEdits = 1
    MaxFaults = 1
INVARIANTS TypeOK
PROPERTIES KindsApart ClaimsKept MountsBacked KeysKept ForeignKept Converges
CHECK_DEADLOCK FALSE
