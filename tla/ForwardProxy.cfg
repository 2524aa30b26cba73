SPECIFICATION FairSpec
CONSTANTS
    c1 = c1
    c2 = c2
    Conns = {c1, c2}
    Blocked = {c2}
    MaxChunks = 2
INVARIANTS BodyComesFirst
PROPERTIES ConnectIsPipe EndsTogether
CHECK_DEADLOCK FALSE
