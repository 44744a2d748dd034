SPECIFICATION FairSpec
CONSTANTS
    N = 2
    MaxProcesses = 2
    ChanCap = 8
    Garbage = {0, 2, 3, 4, 5}
    OperatorSignals = {"TERM", "QUIT"}
    MaxSignals = 2
CHECK_DEADLOCK FALSE
PROPERTY ShutdownReachesWorkers
