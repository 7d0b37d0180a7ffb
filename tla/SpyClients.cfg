CONSTANTS
    Conns = {c1, c2}
    Talkers = {c1}
    Free = free
    Commands <- EveryHandler
    MaxCommands = 2
    Capacity = 1
    MaxChunks = 1
SPECIFICATION ReadingClients
INVARIANTS SequenceGrows HandshakeLeads NoIqUninvited
PROPERTIES KeepsEndpointPromise BroadcastReturns HelloAnswered StopReturns
