SPECIFICATION FairSpec
CONSTANTS
    None = None
    c1 = c1
    Conns = {c1}
    HttpConns = {}
    MaxChunks = 2
    DrainPauses = FALSE
    DataFails = FALSE
    CtrlFails = TRUE
INVARIANTS TcpConnsEndWithProxy
PROPERTIES UpstreamIsPipe DownstreamIsPipe SocketsAreFreed
CHECK_DEADLOCK FALSE
