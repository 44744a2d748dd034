SPECIFICATION TimersSpec
CONSTANTS
    Events = {e1, e2, e3, e4, e5}
    Sentinel = Sentinel
    Null = Null
    Delays = {0, 1, 3}
    LazyDelay = 2
    MaxTime = 1
SYMMETRY Symmetry
INVARIANTS TreeHoldsTimers TreeBalanced SleepsUntilNearest
