----------------------------- MODULE MCSendData -----------------------------
(* Transfers of zero to three chunks, with and without a short last one;   *)
(* and one chunk of the program's own size, with its own buffers.          *)
EXTENDS SendData

MCSizes == {0, 1, 2, 3, 4, 6, 8}
MCChunk == 3
MCHostBuffer == MostCompressed(MCChunk)
MCBufSize == 22
MCWrap == 16

DCLOADBUFFER == 16384
MCOneChunk == {DCLOADBUFFER}
MCAllocated == DCLOADBUFFER + (DCLOADBUFFER \div 64) + 16 + 3
MCWrapWide == 65536
=============================================================================
