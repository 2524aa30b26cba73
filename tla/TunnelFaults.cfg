SPECIFICATION Spec
CONSTANTS
    h1 = h1
    None = None
    Conns = {h1}
    HttpConns = {h1}
    MaxChunks = 2
    DrainPauses = TRUE
    DataFails = TRUE
    CtrlFails = TRUE
INVARIANTS TypeOK DataFollowsDial PoolIsTended NoOrphanSocket AnnouncedOnce StatsFollowPool
CHECK_DEADLOCK FALSE
