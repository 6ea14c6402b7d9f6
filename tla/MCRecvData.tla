----------------------------- MODULE MCRecvData -----------------------------
(* Transfers in one block and in up to three chunks, with and without work *)
(* memory, at and around the size that is too small to compress.           *)
EXTENDS RecvData

MCSizes == {1, 2, 3, 4, 6, 8}
MCSizesFromZero == {0, 1, 2, 4}
MCChunk == 3
MCSmall == 3
MCBufSize == 70
MCWrap == 16
=============================================================================
