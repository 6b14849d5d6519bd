SPECIFICATION Spec
CONSTANTS
    Rows = 2
    MaxGens = 1
    MaxFills = 1
    MaxRuns = 2
    MaxCrashes = 1
CHECK_DEADLOCK FALSE
INVARIANTS
    DirIsTable
    VerdictOfOneTable
    ConfigsAreRight
    ReadmeKept
    TableIsSummary
