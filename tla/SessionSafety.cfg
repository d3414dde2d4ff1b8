CONSTANTS
    Poll = 2
    Stale = 3
    QueueCap = 1
    EncTypes = {0, 1, 7, 2}
    Chunks <- AllChunks
SPECIFICATION MCSafetySpec
INVARIANTS
    LiveIsRecent
    StaleFlagHonest
    NoSessionNoData
    NoConnectionLeak
    IdleBounded
    EarlyReadingsServed
    WellFormedNeverRejected
PROPERTIES
    ImplementsDevice
