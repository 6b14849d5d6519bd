SPECIFICATION Spec
CONSTANTS
    Runs = {"r1", "r2"}
    Prober = "r1"
    Outs = {"o1", "o2"}
    NScripts = 2
CHECK_DEADLOCK FALSE
INVARIANTS
    ProbeTells
    ResultsAreRight
PROPERTIES
    RunEnds
