SPECIFICATION Spec
CONSTANTS
    Cfgs = {"a"}
    Shells = {1}
    Pids = {1, 2, 3}
    Workers = {8, 16}
    MaxCmds = 3
    MaxDeaths = 2
    MaxFinish = 1
    PidReuse = FALSE
CHECK_DEADLOCK FALSE
INVARIANTS
    OneRunPerConfig
    AdviceIsRight
PROPERTIES
    NoneIsForgotten
    FinishEnds
    FinishWaits
