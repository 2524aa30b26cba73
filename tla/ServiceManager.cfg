SPECIFICATION Spec
CONSTANTS
    r1 = r1
    r2 = r2
    None = None
    Requests = {r1, r2}
    MaxProcs = 3
SYMMETRY Symmetry
INVARIANTS AtMostOneProcess StopCancelsRestart
CHECK_DEADLOCK FALSE
