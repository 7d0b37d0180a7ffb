CONSTANTS
    Clients = {c1, c2}
    Freqs <- AroundCenter
    WidebandCenter = 10
    NumTaps = 4
    Factor = 3
    ChunkSizes <- AnyChunks
    MaxReceived = 8
SYMMETRY AnyClient
SPECIFICATION Spec
INVARIANTS LoneRetuneTunes UndisturbedChunkTuned WindowsContiguous
PROPERTIES SteadyUnlessDisturbed StrideAtLeastFactor
