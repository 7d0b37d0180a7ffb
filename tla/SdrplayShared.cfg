CONSTANTS
    Procs = {p1, p2}
    Devices = {d1, d2}
    Free = free
    Any = any
SPECIFICATION FairSpec
INVARIANTS OneOwner FlagsTellTheTruth NothingLeftBehind StreamsFromWanted
PROPERTIES ConnectSettles SignalEnds KeepsSourcePromise
CHECK_DEADLOCK FALSE
