CONSTANTS
    Conns = {c1}
    Talkers = {c1}
    Free = free
    Commands <- Pings
    MaxCommands = 2
    Capacity = 1
    MaxChunks = 1
SPECIFICATION FairSpec
PROPERTY BroadcastReturns
