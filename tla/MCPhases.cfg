SPECIFICATION PhasesSpec
CONSTANTS
    Registered <- MCRegistered
    Indices <- MCIndices
    MaxUriChanges = 10
INVARIANTS CountMatchesRuns NothingUsesFreed RedirectsBounded CheckedBeforeContent KeepaliveHonoured
PROPERTIES RequestEnds
