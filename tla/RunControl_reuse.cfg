SPECIFICATION Spec
CONSTANTS
    Cfgs = {"a", "b"}
    Shells = {1}
    Pids = {1, 2}
    Workers = {8, 16}
    MaxCmds = 2
    MaxDeaths = 1
    MaxFinish = 0
    PidReuse = TRUE
CHECK_DEADLOCK FALSE
PROPERTY NoneIsForgotten
