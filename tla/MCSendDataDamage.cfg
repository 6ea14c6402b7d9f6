SPECIFICATION NoisySpec
CONSTANTS
    Sizes <- MCSizes
    Chunk <- MCChunk
    HostBuffer <- MCHostBuffer
    BufSize <- MCBufSize
    Wrap <- MCWrap
INVARIANT SentIntact
CHECK_DEADLOCK FALSE
