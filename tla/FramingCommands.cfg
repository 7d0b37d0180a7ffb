CONSTANTS
    HeaderBytes = 2
    MaxBody = 2
    Bodies <- BodySizes
    ChunkBytes = 5
    MaxCommands = 4
SPECIFICATION FairSpec
INVARIANTS NothingWholeWaits BufferBounded
PROPERTY ImplementsStream
CHECK_DEADLOCK FALSE
