CONSTANTS
    Procs = {p1, p2}
    Devices = {d1}
    Free = free
    Any = any
SPECIFICATION Spec
INVARIANT FailedConnectUnlocks
CHECK_DEADLOCK FALSE
