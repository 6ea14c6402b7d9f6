SPECIFICATION Spec
CONSTANTS
    Sizes <- MCSizesFromZero
    Chunk <- MCChunk
    Small <- MCSmall
    BufSize <- MCBufSize
    Wrap <- MCWrap
INVARIANT Aligned
CHECK_DEADLOCK FALSE
