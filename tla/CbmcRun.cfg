SPECIFICATION Spec
CONSTANTS
    Names = {"mut_nomb_sync", "no_such_name"}
    MaxJobs = 2
    MaxWorkers = 2
    MaxUnknown = 1
INVARIANTS
    VerdictIsRight
    RowsInOrder
PROPERTIES
    RunEnds
