CONSTANTS
    Poll = 2
    Stale = 3
    QueueCap = 1
    EncTypes = {0}
    Chunks <- LoopChunks
SPECIFICATION MCSafetySpec
INVARIANT LiveIsAuthenticated
