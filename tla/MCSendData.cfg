SPECIFICATION UnheededSpec
CONSTANTS
    Sizes <- MCSizes
    Chunk <- MCChunk
    HostBuffer <- MCHostBuffer
    BufSize <- MCBufSize
    Wrap <- MCWrap
INVARIANTS
    TypeOK
    Aligned
    StoredPrefix
    Bookkeeping
    PayloadAwaited
    TargetFits
PROPERTIES
    TransferSpec
    Completes
