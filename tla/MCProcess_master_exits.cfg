SPECIFICATION FairSpec
CONSTANTS
    N = 1
    MaxProcesses = 2
    ChanCap = 4
    Garbage = {0}
    OperatorSignals = {"QUIT"}
    MaxSignals = 1
CHECK_DEADLOCK FALSE
PROPERTY MasterExits
