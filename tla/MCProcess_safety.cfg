SPECIFICATION Spec
CONSTANTS
    N = 3
    MaxProcesses = 3
    ChanCap = 2
    Garbage = {1, 2, 4}
    OperatorSignals = {"TERM", "QUIT", "INT"}
    MaxSignals = 1
CHECK_DEADLOCK FALSE
INVARIANTS TypeOK NoWorkerForgotten MasterExitsLast SlotsInUse ExitingWasTold
