SPECIFICATION Spec
CONSTANTS
    NCPU = 2
    BATCH = 1
    SHAPE = "sync"
    HELD = 0
    ORDER = FALSE
    GETS = 1
    WALKER = TRUE
    WALK = 0
    HCPU = 1
    WCPU = 0
    MIGRATE = TRUE
INVARIANTS
    TypeOK
    LockProtocol
    CountIsSound
    SyncClean
    CallerPutOnce
PROPERTIES
    NoNewRefsAfterSync
