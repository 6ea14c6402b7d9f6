SPECIFICATION Spec
CONSTANTS
    Sizes <- MCOneChunk
    Chunk <- DCLOADBUFFER
    HostBuffer <- MCAllocated
    BufSize <- MCAllocated
    Wrap <- MCWrapWide
INVARIANT HostBufferFits
