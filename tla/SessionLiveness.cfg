CONSTANTS
    Poll = 1
    Stale = 2
    QueueCap = 1
    EncTypes = {7}
    Chunks <- GoodChunks
SPECIFICATION MCSpec
PROPERTIES
    CancelEnds
    SilentDeviceRetried
