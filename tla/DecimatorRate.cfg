CONSTANTS
    NumTaps = 4
    Factor = 3
    ChunkSizes <- AnyChunks
    MaxReceived = 12
SPECIFICATION DecimatorSpec
INVARIANTS OutputRate
CHECK_DEADLOCK FALSE
