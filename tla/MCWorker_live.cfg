SPECIFICATION FairSpec
CONSTANTS
    ConnectionN = 3
    ListenN = 1
    FilesN = 4
    MaxBytes = 3
    BufSize = 4
    LineLen = 2
    HeadLen = 3
    Longer = FALSE
    Outcomes = {"keepalive", "host"}
    Faults = FALSE
    Commands = {}
    MaxClients = 2
CHECK_DEADLOCK FALSE
PROPERTY RequestsTakenUp
INVARIANT NoEdgeLost
