SPECIFICATION Spec
CONSTANTS
    ConnectionN = 3
    ListenN = 1
    FilesN = 4
    MaxBytes = 2
    BufSize = 2
    LineLen = 1
    HeadLen = 2
    Longer = TRUE
    Outcomes = {"keepalive", "close", "bad", "crash"}
    Faults = TRUE
    Commands = {"QUIT", "TERMINATE"}
    MaxClients = 3
CHECK_DEADLOCK FALSE
INVARIANTS WorkerTypeOK PoolConserved FilesConsistent ReusableConsistent NothingDangles StaleEventsDropped
