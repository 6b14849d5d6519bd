SPECIFICATION Spec
CONSTANTS
    NR_CPUS = 3
    Scenarios = {"A1", "A1MIG", "A2", "B1", "B2", "C1", "C2", "D1"}
INVARIANTS
    HeldIsNotFreed
    NoPutIsMissed
    LegitimizedIsNotFreed
    BailedSeesDoomed
    RecheckOrSeen
