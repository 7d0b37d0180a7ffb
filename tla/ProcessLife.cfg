CONSTANTS
    Configs <- MCConfigs
SPECIFICATION FairSpec
INVARIANTS CallbackSafe NothingLeftListening ServesAll ClosedAlone HardwareRate
PROPERTY SignalEnds
CHECK_DEADLOCK FALSE
