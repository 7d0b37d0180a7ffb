CONSTANTS
    Conns = {c1, c2}
    Foreign = foreign
    NoConn = noconn
    NumFds = 2
    ChunkBytes = 1
    MaxChunks = 2
SPECIFICATION FairSpec
INVARIANTS RegisteredFdIsLive SoleOwner HeaderThenChunks
PROPERTIES KeepsEndpointPromise StopDrains LeaverFreed
