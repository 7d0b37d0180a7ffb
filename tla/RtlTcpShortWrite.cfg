CONSTANTS
    Conns = {c1}
    Foreign = foreign
    NoConn = noconn
    NumFds = 1
    ChunkBytes = 2
    MaxChunks = 2
SPECIFICATION Spec
INVARIANTS WholeChunks
