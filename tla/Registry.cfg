SPECIFICATION Spec
CONSTANTS
    k1 = k1
    k2 = k2
    k3 = k3
    k4 = k4
    n1 = n1
    n2 = n2
    p1 = p1
    p2 = p2
    p3 = p3
    d1 = d1
    d2 = d2
    s1 = s1
    s2 = s2
    None = None
    Ctrls <- MCCtrls
    Blocked = {k4}
    Names <- MCNames
    Ports <- MCPorts
    AllowedPorts = {p1, p2}
    Domains <- MCDomains
    Keys <- MCKeys
    Requests <- MCRequests
    MaxConnections = 2
INVARIANTS TypeOK LimitHolds NoStaleOwner RoutesAreUnique ListenersMatchProxies GaugeNeverUnder
CHECK_DEADLOCK FALSE
