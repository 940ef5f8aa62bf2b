SPECIFICATION Spec
CONSTANTS
    Fd = {3, 4, 5}
    MaxRuns = 2
INVARIANTS TypeOK NameIsNeverTaken OfferedIsReachable NoSocketIsLost
    NoDeadName FirstCleanupIsSafe
