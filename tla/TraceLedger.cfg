SPECIFICATION Spec
CONSTANTS
    Pids = {1, 2}
    U = 1
    MaxEvents = 3
CHECK_DEADLOCK FALSE
INVARIANTS
    ReplayMatches
    WalkersRelease
    CleanupByDoomer
    RanksComplete
