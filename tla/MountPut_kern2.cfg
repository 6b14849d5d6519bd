SPECIFICATION FairSpec
CONSTANTS
    NCPU = 2
    BATCH = 2
    SHAPE = "kern"
    HELD = 0
    ORDER = TRUE
    GETS = 1
    WALKER = TRUE
    WALK = 0
    HCPU = 1
    WCPU = 0
    MIGRATE = FALSE
INVARIANTS
    GpOutsideSections
    DoomedIsLast
PROPERTIES
    EventuallyFreed
