CONSTANTS
    CRC8 <- MCCRC8
    CRC16 <- MCCRC16
    Streams <- MCStreams
    MaxChunk = 20
SPECIFICATION Spec
INVARIANTS
    SplitInvariant
    CleanStreamComplete
    BufferBounded
    FramesParse
CHECK_DEADLOCK FALSE
