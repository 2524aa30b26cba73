SPECIFICATION FairSpec
CONSTANTS
    c1 = c1
    None = None
    Conns = {c1}
    MaxChunks = 2
    Modes <- MCModes
    ClientsFail = TRUE
INVARIANTS VisitorIsTold ProviderIsDialled ProviderGoneClosesConns
PROPERTIES UpstreamIsPipe DownstreamIsPipe RelayDelivers EndsTogether
CHECK_DEADLOCK FALSE
