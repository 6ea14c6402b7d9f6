SPECIFICATION Spec
CONSTANTS
    Sizes <- MCSizes
    Chunk <- MCChunk
    Small <- MCSmall
    BufSize <- MCBufSize
    Wrap <- MCWrap
INVARIANTS
    TypeOK
    Aligned
    Bookkeeping
    BlockFits
PROPERTIES
    TransferSpec
    Completes
