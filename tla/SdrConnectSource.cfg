CONSTANTS
    MaxFrames = 3
    Settings = 2
    Capacity = 2
SPECIFICATION FairSpec
INVARIANTS MessagesWhole OnlyEarlyFramesLost ClosedOnce
PROPERTIES KeepsSourcePromise ConnectSettles CloseEnds
CHECK_DEADLOCK FALSE
