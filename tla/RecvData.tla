------------------------------ MODULE RecvData ------------------------------
(***************************************************************************)
(* A block of memory goes from the target to the host: on the target       *)
(* send_data_block_uncompressed or send_data_block_compressed, on the host *)
(* recv_data.                                                              *)
(*                                                                         *)
(*   target                                         host                   *)
(*   type, size, payload, sum  ----------------->   type, size, ...        *)
(*                             <-----------------   'G' or 'B'             *)
(*                                                                         *)
(* The size is not echoed here: the target sends a whole block and waits.  *)
(* Without work memory for the compressor, or for less than Small bytes,   *)
(* everything goes in one uncompressed block whose answer nobody looks at; *)
(* otherwise in chunks, each repeated until the answer is 'G': the whole   *)
(* block when it is uncompressed, its payload when it is compressed.       *)
(*                                                                         *)
(* Nothing at all goes in one block of no bytes, which recv_data, having   *)
(* nothing to receive, does not read: the configurations that check that   *)
(* a transfer works leave 0 out of Sizes.                                  *)
(***************************************************************************)
EXTENDS Wire

CONSTANTS Sizes,     \* sizes of the blocks of memory that are sent
          Chunk,     \* bytes compressed at a time (8192)
          Small,     \* fewer bytes than this are not worth compressing (19)
          BufSize,   \* size of the target's compression buffer
          Wrap       \* an unsigned int is below Wrap

ASSUME RecvAssumption ==
    /\ Chunk \in Nat \ {0}
    /\ Small \in Nat \ {0}
    /\ BufSize \in Nat
    /\ BufSize >= MostCompressed(Chunk)
    /\ Wrap \in Nat \ {0}
    /\ Sizes \subseteq 0 .. (Wrap - 1)

VARIABLES
    count,      \* bytes to send in this transfer
    tpc,        \* target: what it does next
    tsize,      \* target: bytes still to send
    taddr,      \* target: bytes sent and acknowledged
    frame,      \* target: the block being sent
    wrkmem,     \* target: there is work memory for the compressor
    hpc,        \* host: what it reads next
    htotal,     \* host: bytes it still expects
    hdata,      \* host: bytes it has stored
    htype,      \* host: type of the block being received
    hsize,      \* host: wire size of the block being received
    tmp,        \* host: the compressed payload
    mem,        \* host: the memory the block is stored to
    toHost,     \* the line from the target to the host
    toTarget    \* the line from the host to the target

target == <<tpc, tsize, taddr, frame, wrkmem>>
host == <<hpc, htotal, hdata, htype, hsize, tmp, mem>>
vars == <<count, target, host, toHost, toTarget>>

(* Where each end is at the top of its loop: while(size), while(total).    *)
TargetTopEarly(size) == IF size <= Chunk THEN "done" ELSE "block"  \* mutant: last chunk dropped
TargetTop(size) == IF size = 0 THEN "done" ELSE "block"
HostTopForever(total) == "type"  \* mutant: the end is not noticed
HostTop(total) == IF total = 0 THEN "done" ELSE "type"

Init == /\ count = 0
        /\ tpc = "done"
        /\ tsize = 0
        /\ taddr = 0
        /\ frame = NoFrame
        /\ wrkmem = FALSE
        /\ hpc = "done"
        /\ htotal = 0
        /\ hdata = 0
        /\ htype = "none"
        /\ hsize = 0
        /\ tmp = NoPayload
        /\ mem = <<>>
        /\ toHost = <<>>
        /\ toTarget = <<>>

(* Both functions are called, for the same number of bytes, when both have *)
(* returned from the previous transfer.  What that one left on the line    *)
(* stays there.                                                            *)
Call == /\ tpc = "done"
        /\ hpc = "done"
        /\ count' \in Sizes
        /\ tpc' = "block"
        /\ tsize' = count'
        /\ taddr' = 0
        /\ frame' = NoFrame
        /\ wrkmem' \in BOOLEAN
        /\ hpc' = HostTop(count')
        /\ htotal' = count'
        /\ hdata' = 0
        /\ mem' = [i \in 1..count' |-> Unwritten]
        /\ UNCHANGED <<htype, hsize, tmp, toHost, toTarget>>
-----------------------------------------------------------------------------
(* The target.                                                             *)

(* The transfer goes in one uncompressed block.                            *)
OneBlock == ~wrkmem \/ count < Small

SendSizeNoMin(size) == Chunk  \* mutant: always a full chunk
SendSize(size) == IF size > Chunk THEN Chunk ELSE size

Frames == IF OneBlock THEN {Uncompressed(tsize)}
          ELSE {Frame(SendSize(tsize), csize) : csize \in Compressed(SendSize(tsize))}

BodyRawSize(f) == <<Payload(taddr, f.len, f.len), Byte("sum")>>  \* mutant: not csize bytes
Body(f) == <<Payload(taddr, f.len, f.wire), Byte("sum")>>
Block(f) == <<Byte(f.type), Word(f.wire)>> \o Body(f)

TargetBlock ==
    /\ tpc = "block"
    /\ \E f \in Frames : /\ frame' = f
                         /\ toHost' = toHost \o Block(f)
    /\ tpc' = "ack"
    /\ UNCHANGED <<count, tsize, taddr, wrkmem, host, toTarget>>

(* What goes out again when the answer is not 'G'.                         *)
Again == IF frame.type = "C" THEN Body(frame) ELSE Block(frame)

TargetAck ==
    /\ tpc = "ack"
    /\ toTarget # <<>>
    /\ IsReply(Head(toTarget))
    /\ toTarget' = Tail(toTarget)
    /\ IF Head(toTarget).ch # "G" /\ ~OneBlock
       THEN /\ toHost' = toHost \o Again
            /\ UNCHANGED <<tpc, tsize, taddr>>
       ELSE /\ tsize' = tsize - frame.len
            /\ taddr' = taddr + frame.len
            /\ tpc' = TargetTop(tsize')
            /\ UNCHANGED toHost
    /\ UNCHANGED <<count, frame, wrkmem, host>>

Target == TargetBlock \/ TargetAck
-----------------------------------------------------------------------------
(* The host.                                                               *)

HostType ==
    /\ hpc = "type"
    /\ toHost # <<>>
    /\ Head(toHost).kind = "byte"
    /\ htype' = Head(toHost).ch
    /\ toHost' = Tail(toHost)
    /\ hpc' = "size"
    /\ UNCHANGED <<count, target, htotal, hdata, hsize, tmp, mem, toTarget>>

(* recv_uint sends nothing back.  A type that is neither 'U' nor 'C' has   *)
(* no payload: the loop starts over.                                       *)
HostSize ==
    /\ hpc = "size"
    /\ toHost # <<>>
    /\ IsWord(Head(toHost))
    /\ hsize' = Head(toHost).num
    /\ toHost' = Tail(toHost)
    /\ hpc' = IF htype \in {"U", "C"} THEN "data" ELSE HostTop(htotal)
    /\ UNCHANGED <<count, target, htotal, hdata, htype, tmp, mem, toTarget>>

(* Uncompressed bytes are read to where they belong, compressed ones to a  *)
(* buffer of their own; the data pointer moves after the answer.           *)
HostData ==
    /\ hpc = "data"
    /\ toHost # <<>>
    /\ IsPayload(Head(toHost), hsize)
    /\ toHost' = Tail(toHost)
    /\ IF htype = "U"
       THEN mem' = Store(mem, hdata, Head(toHost)) /\ UNCHANGED tmp
       ELSE tmp' = Head(toHost) /\ UNCHANGED mem
    /\ hpc' = "sum"
    /\ UNCHANGED <<count, target, htotal, hdata, htype, hsize, toTarget>>

MaxGarbage == Chunk + 1  \* bound on what a damaged payload may become

(* The sum is read and dropped.                                            *)
HostSum ==
    /\ hpc = "sum"
    /\ toHost # <<>>
    /\ IsSum(Head(toHost))
    /\ toHost' = Tail(toHost)
    /\ IF htype = "U"
       THEN /\ toTarget' = Append(toTarget, Byte("G"))
            /\ htotal' = SubU(htotal, hsize, Wrap)
            /\ hdata' = hdata + hsize
            /\ UNCHANGED mem
       ELSE \E result \in Decompress(tmp, MaxGarbage) :
               /\ toTarget' = Append(toTarget, Byte(IF result.ok THEN "G" ELSE "B"))
               /\ IF result.ok
                  THEN /\ mem' = Store(mem, hdata, result.out)
                       /\ htotal' = SubU(htotal, result.out.len, Wrap)
                       /\ hdata' = hdata + result.out.len
                  ELSE UNCHANGED <<mem, htotal, hdata>>
    /\ hpc' = HostTop(htotal')
    /\ UNCHANGED <<count, target, htype, hsize, tmp>>

Host == HostType \/ HostSize \/ HostData \/ HostSum
-----------------------------------------------------------------------------
Next == Target \/ Host \/ Call

Fairness == WF_vars(Target) /\ WF_vars(Host)

Spec == Init /\ [][Next]_vars /\ Fairness
-----------------------------------------------------------------------------
(* The types of the two ends' variables and of what is on the line.        *)
TypeOK ==
    /\ count \in Sizes \cup {0}
    /\ tpc \in {"block", "ack", "done"}
    /\ tsize \in 0..count
    /\ taddr \in 0..count
    /\ frame \in [type : {"U", "C", "none"}, len : 0..count, wire : 0..count]
    /\ wrkmem \in BOOLEAN
    /\ hpc \in {"type", "size", "data", "sum", "done"}
    /\ htotal \in 0 .. (Wrap - 1)
    /\ hdata \in Nat
    /\ htype \in {"U", "C", "none"}
    /\ hsize \in Nat
    /\ tmp \in PayloadItem
    /\ mem \in [1..count -> Nat \cup {Damaged}]
    /\ toHost \in Seq(Item)
    /\ toTarget \in Seq(Item)

(* Framing.  The next item on a line is always the one the reader at its   *)
(* end is about to take it for, a payload has exactly the size the reader  *)
(* was told, and nothing is on the line for a reader that has returned:    *)
(* recv_data and the two send functions of the target agree, read by read, *)
(* although the target sends a block without waiting in between.           *)
Aligned ==
    /\ toHost # <<>> =>
          LET item == Head(toHost) IN
          /\ hpc # "done"
          /\ hpc = "type" => IsType(item)
          /\ hpc = "size" => IsWord(item)
          /\ hpc = "data" => IsPayload(item, hsize)
          /\ hpc = "sum"  => IsSum(item)
    /\ toTarget # <<>> => tpc = "ack" /\ IsReply(Head(toTarget))

(* Bytes the host has put in place: those of an uncompressed block are in  *)
(* place before its sum is read, the data pointer moves after that.        *)
InPlace == hdata + IF hpc = "sum" /\ htype = "U" THEN hsize ELSE 0

(* The host's memory holds the first bytes of the source, each at its own  *)
(* place, and nothing has been written beyond them.                        *)
StoredPrefix ==
    \A i \in 1..count : mem[i] = IF i <= InPlace THEN i ELSE Unwritten

(* What the target counts as sent the host has stored, the host is never   *)
(* more than one block ahead, its unsigned total has not gone below zero,  *)
(* and when the target's function returns recv_data has all of it and has  *)
(* returned too, with nothing left on the line; and what it has counted is *)
(* in place.                                                               *)
Bookkeeping ==
    /\ StoredPrefix
    /\ taddr <= hdata
    /\ hdata <= taddr + frame.len
    /\ htotal + hdata = count
    /\ tsize + taddr = count
    /\ tpc = "done" => /\ hdata = count
                       /\ hpc = "done"
                       /\ toHost = <<>>
                       /\ toTarget = <<>>

(* What the compressor is given fits its output buffer, in the worst case, *)
(* and a block never carries more than the host has room for.              *)
BlockFits ==
    /\ frame.type = "C" => \A n \in Compressed(frame.len) : n <= BufSize
    /\ hpc = "sum" => hdata + (IF htype = "C" THEN tmp.len ELSE hsize) <= count

(* The transfer as the rest of the program sees it.                        *)
T == INSTANCE Transfer WITH MaxBlock <- Wrap, got <- InPlace, busy <- tpc # "done"
TransferSpec == T!Spec

(* Both functions return.                                                  *)
Completes == tpc # "done" ~> tpc = "done" /\ hpc = "done"
=============================================================================
