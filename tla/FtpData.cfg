SPECIFICATION FairSpec
CONSTANTS
    d1 = d1
    None = None
    Conns = {d1}
    MaxChunks = 2
PROPERTIES TransfersArePipes DownloadDelivers LeavingEndsAll
CHECK_DEADLOCK FALSE
