SPECIFICATION FairSpec
CONSTANTS
    NCPU = 2
    BATCH = 2
    SHAPE = "lazy"
    HELD = 0
    ORDER = FALSE
    GETS = 1
    WALKER = TRUE
    WALK = 1
    HCPU = 1
    WCPU = 0
    MIGRATE = FALSE
INVARIANTS
    NoUAF
    CleanupOnce
    OnlyHeldWait
PROPERTIES
    ImplementsMountLife
