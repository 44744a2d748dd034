SPECIFICATION FairSpec
CONSTANTS
    ConnectionN = 2
    ListenN = 1
    FilesN = 3
    MaxBytes = 3
    BufSize = 4
    LineLen = 2
    HeadLen = 3
    Longer = FALSE
    Outcomes = {"keepalive"}
    Faults = FALSE
    Commands = {}
    MaxClients = 1
CHECK_DEADLOCK FALSE
PROPERTY RequestLineCompletes
