SPECIFICATION FairSpec
CONSTANTS
    c1 = c1
    None = None
    Conns = {c1}
    HttpConns = {}
    MaxChunks = 2
    DrainPauses = FALSE
    DataFails = TRUE
    CtrlFails = FALSE
PROPERTY UpstreamIsPipe
CHECK_DEADLOCK FALSE
