SPECIFICATION FairSpec
CONSTANTS
    c1 = c1
    c2 = c2
    Call = Call
    Answer = Answer
    Link = Link
    None = None
    Conns <- MCConns
    DeafEnds <- MCDeafEnds
    Leavers <- MCLeavers
    High = 0
    Quota <- MCQuota
INVARIANTS BuffersAreBounded
PROPERTIES FlowsUnlessDeaf
CHECK_DEADLOCK FALSE
