SPECIFICATION FairSpec
CONSTANTS
    ConnectionN = 3
    ListenN = 1
    FilesN = 2
    MaxBytes = 2
    BufSize = 3
    LineLen = 1
    HeadLen = 2
    Longer = FALSE
    Outcomes = {"keepalive"}
    Faults = FALSE
    Commands = {}
    MaxClients = 2
CHECK_DEADLOCK FALSE
PROPERTY AcceptResumes
