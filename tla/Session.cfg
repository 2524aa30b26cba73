SPECIFICATION FairSpec
CONSTANTS
    MaxRetries = 2
    Cmds = {c1}
    c1 = c1
INVARIANTS CommandBooks
PROPERTIES ProxyComesBack RemoteCmdIsAnswered OldSessionsEnd
CHECK_DEADLOCK FALSE
