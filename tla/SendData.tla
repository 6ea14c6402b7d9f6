------------------------------ MODULE SendData ------------------------------
(***************************************************************************)
(* A block of memory goes from the host to the target: send_data (dc-tool) *)
(* on one end of the line, load_data_block_general (dcload) on the other.  *)
(*                                                                         *)
(*   host                                     target                       *)
(*   type 'U' or 'C'   ----------------->     type                         *)
(*   size (send_uint)  ----------------->     size (get_uint)              *)
(*                     <-----------------     echo of the size             *)
(*   payload, sum      ----------------->     payload, sum                 *)
(*                     <-----------------     'G' or 'B'                   *)
(*                                                                         *)
(* A compressed block that the target answers 'B' is sent again, without   *)
(* its header.  Neither end compares the sum.                              *)
(***************************************************************************)
EXTENDS Wire

CONSTANTS Sizes,     \* sizes of the blocks of memory that are sent
          Chunk,     \* DCLOADBUFFER: bytes taken from the source at a time
          HostBuffer,\* size of the host's compression buffer
          BufSize,   \* size of the target's
          Wrap       \* an unsigned int is below Wrap

ASSUME SendAssumption ==
    /\ Chunk \in Nat \ {0}
    /\ HostBuffer \in Nat
    /\ BufSize \in Nat
    /\ BufSize >= Chunk + (Chunk \div 64) + 16 + 3
    /\ Wrap \in Nat \ {0}
    /\ Sizes \subseteq 0 .. (Wrap - 1)

VARIABLES
    count,      \* bytes to send in this transfer
    hpc,        \* host: what it does next
    hsize,      \* host: bytes still to send
    haddr,      \* host: bytes sent and acknowledged
    frame,      \* host: the block being sent
    tpc,        \* target: what it reads next
    ttotal,     \* target: bytes it still expects
    tdata,      \* target: bytes it has stored
    ttype,      \* target: type of the block being received
    tsize,      \* target: wire size of the block being received
    tmp,        \* target: the compressed payload, in buffer
    mem,        \* target: the memory the block is loaded to
    toTarget,   \* the line from the host to the target
    toHost      \* the line from the target to the host

host == <<hpc, hsize, haddr, frame>>
target == <<tpc, ttotal, tdata, ttype, tsize, tmp, mem>>
vars == <<count, host, target, toTarget, toHost>>

(* Where each end is at the top of its loop: while(size), while(total).    *)
TargetTopForever(total) == "type"  \* mutant: the end is not noticed
HostTopEarly(size) == IF size <= Chunk THEN "done" ELSE "header"  \* mutant: last chunk dropped
HostTop(size) == IF size = 0 THEN "done" ELSE "header"
TargetTop(total) == IF total = 0 THEN "done" ELSE "type"

Init == /\ count = 0
        /\ hpc = "done"
        /\ hsize = 0
        /\ haddr = 0
        /\ frame = NoFrame
        /\ tpc = "done"
        /\ ttotal = 0
        /\ tdata = 0
        /\ ttype = "none"
        /\ tsize = 0
        /\ tmp = NoPayload
        /\ mem = <<>>
        /\ toTarget = <<>>
        /\ toHost = <<>>

(* Both functions are called, for the same number of bytes, when both have *)
(* returned from the previous transfer.  What that one left on the line    *)
(* stays there.                                                            *)
Call == /\ hpc = "done"
        /\ tpc = "done"
        /\ count' \in Sizes
        /\ hpc' = HostTop(count')
        /\ hsize' = count'
        /\ haddr' = 0
        /\ frame' = NoFrame
        /\ tpc' = TargetTop(count')
        /\ ttotal' = count'
        /\ tdata' = 0
        /\ mem' = [i \in 1..count' |-> Unwritten]
        /\ UNCHANGED <<ttype, tsize, tmp, toTarget, toHost>>
-----------------------------------------------------------------------------
(* The host.                                                               *)

SendSizeNoMin(size) == Chunk  \* mutant: always a full chunk
SendSize(size) == IF size > Chunk THEN Chunk ELSE size

HeaderAndPayload(f) ==  \* mutant: does not wait for the echo
    <<Byte(f.type), Word(f.wire), Payload(haddr, f.len, f.wire)>>
Header(f) == <<Byte(f.type), Word(f.wire)>>

(* The chunk is compressed before anybody looks at how much that makes of  *)
(* it.  Once that has written past the end of the host's buffer the model  *)
(* stops.                                                                  *)
HostHeader ==
    /\ hpc = "header"
    /\ \E csize \in Compressed(SendSize(hsize)) :
          IF csize <= HostBuffer
          THEN /\ frame' = Frame(SendSize(hsize), csize)
               /\ toTarget' = toTarget \o Header(frame')
               /\ hpc' = "echo"
          ELSE hpc' = "overrun" /\ UNCHANGED <<frame, toTarget>>
    /\ UNCHANGED <<count, hsize, haddr, target, toHost>>

BodyRawSize == <<Payload(haddr, frame.len, frame.len), Byte("sum")>>  \* mutant: not csize bytes
BodyFromStart == <<Payload(0, frame.len, frame.wire), Byte("sum")>>   \* mutant: addr not advanced
Body == <<Payload(haddr, frame.len, frame.wire), Byte("sum")>>

(* send_uint returns whether the echo is what it sent; nobody looks.       *)
HostEcho ==
    /\ hpc = "echo"
    /\ toHost # <<>>
    /\ IsWord(Head(toHost))
    /\ toHost' = Tail(toHost)
    /\ toTarget' = toTarget \o Body
    /\ hpc' = "ack"
    /\ UNCHANGED <<count, hsize, haddr, frame, target>>

(* Only the loop around a compressed payload looks at the answer.          *)
Resend(reply) == frame.type = "C" /\ reply.ch # "G"

HostAck ==
    /\ hpc = "ack"
    /\ toHost # <<>>
    /\ IsReply(Head(toHost))
    /\ toHost' = Tail(toHost)
    /\ IF Resend(Head(toHost))
       THEN /\ toTarget' = toTarget \o Body
            /\ UNCHANGED <<hpc, hsize, haddr>>
       ELSE /\ hsize' = hsize - frame.len
            /\ haddr' = haddr + frame.len
            /\ hpc' = HostTop(hsize')
            /\ UNCHANGED toTarget
    /\ UNCHANGED <<count, frame, target>>

Host == HostHeader \/ HostEcho \/ HostAck
-----------------------------------------------------------------------------
(* The target.                                                             *)

TargetType ==
    /\ tpc = "type"
    /\ toTarget # <<>>
    /\ Head(toTarget).kind = "byte"
    /\ ttype' = Head(toTarget).ch
    /\ toTarget' = Tail(toTarget)
    /\ tpc' = "size"
    /\ UNCHANGED <<count, host, ttotal, tdata, tsize, tmp, mem, toHost>>

(* get_uint sends back what it read.  A type that is neither 'U' nor 'C'   *)
(* has no payload: the loop starts over.                                   *)
TargetSize ==
    /\ tpc = "size"
    /\ toTarget # <<>>
    /\ IsWord(Head(toTarget))
    /\ tsize' = Head(toTarget).num
    /\ toTarget' = Tail(toTarget)
    /\ toHost' = Append(toHost, Head(toTarget))
    /\ tpc' = IF ttype \in {"U", "C"} THEN "data" ELSE TargetTop(ttotal)
    /\ UNCHANGED <<count, host, ttotal, tdata, ttype, tmp, mem>>

(* Uncompressed bytes go where they belong, compressed ones to buffer.     *)
TargetData ==
    /\ tpc = "data"
    /\ toTarget # <<>>
    /\ IsPayload(Head(toTarget), tsize)
    /\ toTarget' = Tail(toTarget)
    /\ IF ttype = "U"
       THEN /\ mem' = Store(mem, tdata, Head(toTarget))
            /\ tdata' = tdata + Head(toTarget).len
            /\ UNCHANGED tmp
       ELSE /\ tmp' = Head(toTarget)
            /\ UNCHANGED <<mem, tdata>>
    /\ tpc' = "sum"
    /\ UNCHANGED <<count, host, ttotal, ttype, tsize, toHost>>

MaxGarbage == Chunk + 1  \* bound on what a damaged payload may become

(* The sum is read and dropped.                                            *)
TargetSum ==
    /\ tpc = "sum"
    /\ toTarget # <<>>
    /\ IsSum(Head(toTarget))
    /\ toTarget' = Tail(toTarget)
    /\ IF ttype = "U"
       THEN /\ toHost' = Append(toHost, Byte("G"))
            /\ ttotal' = SubU(ttotal, tsize, Wrap)
            /\ UNCHANGED <<mem, tdata>>
       ELSE \E result \in Decompress(tmp, MaxGarbage) :
               /\ toHost' = Append(toHost, Byte(IF result.ok THEN "G" ELSE "B"))
               /\ IF result.ok
                  THEN /\ mem' = Store(mem, tdata, result.out)
                       /\ ttotal' = SubU(ttotal, result.out.len, Wrap)
                       /\ tdata' = tdata + result.out.len
                  ELSE UNCHANGED <<mem, ttotal, tdata>>
    /\ tpc' = TargetTop(ttotal')
    /\ UNCHANGED <<count, host, ttype, tsize, tmp>>

Target == TargetType \/ TargetSize \/ TargetData \/ TargetSum
-----------------------------------------------------------------------------
Next == Host \/ Target \/ Call

Fairness == WF_vars(Host) /\ WF_vars(Target)

Spec == Init /\ [][Next]_vars /\ Fairness
-----------------------------------------------------------------------------
(* A line that damages what nobody acts on: an echo, which send_uint        *)
(* compares but its callers do not ask about, and the answer to an         *)
(* uncompressed block, which send_data reads and drops.                    *)
Noise ==
    /\ \E i \in DOMAIN toHost :
          \/ /\ IsWord(toHost[i])
             /\ \E n \in {0, frame.wire + 1} : toHost' = [toHost EXCEPT ![i] = Word(n)]
          \/ /\ IsReply(toHost[i])
             /\ frame.type = "U"
             /\ toHost' = [toHost EXCEPT ![i] = Byte("B")]
    /\ UNCHANGED <<count, host, target, toTarget>>

UnheededSpec == Init /\ [][Next \/ Noise]_vars /\ Fairness

(* A noisy line damages payloads.  After a misread the model stops, at the *)
(* item the reader would take for another.                                 *)
Damage ==
    /\ \E i \in DOMAIN toTarget :
          /\ toTarget[i].kind = "data"
          /\ toTarget' = [toTarget EXCEPT ![i].ok = FALSE]
    /\ UNCHANGED <<count, host, target, toHost>>

NoisySpec == Init /\ [][Next \/ Damage]_vars
-----------------------------------------------------------------------------
(* The types of the two ends' variables and of what is on the line.        *)
TypeOK ==
    /\ count \in Sizes \cup {0}
    /\ hpc \in {"header", "echo", "ack", "done", "overrun"}
    /\ hsize \in 0..count
    /\ haddr \in 0..count
    /\ frame \in [type : {"U", "C", "none"}, len : 0..Chunk, wire : 0..Chunk]
    /\ tpc \in {"type", "size", "data", "sum", "done"}
    /\ ttotal \in 0 .. (Wrap - 1)
    /\ tdata \in Nat
    /\ ttype \in {"U", "C", "none"}
    /\ tsize \in Nat
    /\ tmp \in PayloadItem
    /\ mem \in [1..count -> Nat \cup {Damaged}]
    /\ toTarget \in Seq(Item)
    /\ toHost \in Seq(Item)

(* Framing.  The next item on a line is always the one the reader at its   *)
(* end is about to take it for, a payload has exactly the size the reader  *)
(* was told, and nothing is on the line for a reader that has returned:    *)
(* load_data_block_general and send_data agree, read by read, on a         *)
(* protocol that is written down in neither.                               *)
Aligned ==
    /\ toTarget # <<>> =>
          LET item == Head(toTarget) IN
          /\ tpc # "done"
          /\ tpc = "type" => IsType(item)
          /\ tpc = "size" => IsWord(item)
          /\ tpc = "data" => IsPayload(item, tsize)
          /\ tpc = "sum"  => IsSum(item)
    /\ toHost # <<>> =>
          LET item == Head(toHost) IN
          /\ hpc \in {"echo", "ack"}
          /\ hpc = "echo" => IsWord(item)
          /\ hpc = "ack"  => IsReply(item)

(* The target's memory holds the first tdata bytes of the source, each at  *)
(* its own place, and nothing has been written beyond them.                *)
StoredPrefix ==
    \A i \in 1..count : mem[i] = IF i <= tdata THEN i ELSE Unwritten

(* What the host counts as sent the target has stored, the target is never *)
(* more than one block ahead, its unsigned total has not gone below zero,  *)
(* and when send_data returns the target has all of it and has returned    *)
(* too, with nothing left on the line.  (An uncompressed block's bytes are  *)
(* stored before its sum is read and its size subtracted.)                 *)
Bookkeeping ==
    /\ haddr <= tdata
    /\ tdata <= haddr + frame.len
    /\ ttotal + tdata = count + IF tpc = "sum" /\ ttype = "U" THEN tsize ELSE 0
    /\ hsize + haddr = count
    /\ hpc = "done" => /\ tdata = count
                       /\ tpc = "done"
                       /\ toTarget = <<>>
                       /\ toHost = <<>>

(* A payload is on the line only once the target has echoed its size and   *)
(* is in the loop that reads it: no payload byte reaches a target that is  *)
(* drawing the progress line or decompressing.  The target has 16 bytes of *)
(* FIFO and no receive interrupt; a host without flow control (open_serial *)
(* sets none under Windows) has only the echo to hold the payload back.    *)
PayloadAwaited ==
    \A i \in DOMAIN toTarget :
        toTarget[i].kind = "data" => tpc = "data" /\ i = 1

(* The target writes nothing behind what it writes to: a compressed        *)
(* payload fits its buffer, and an uncompressed one, or what the other     *)
(* decompresses to, fits the rest of the area that the block is for.       *)
(* load_data_block_general does not ask: it takes the host's word for it.  *)
TargetFits ==
    /\ tpc = "data" => tsize <= IF ttype = "C" THEN BufSize ELSE count - tdata
    /\ tpc = "sum" /\ ttype = "C" => tdata + tmp.len <= count

(* minilzo's testmini.c:49-56 provides n + n/16 + 64 + 3 bytes for what n  *)
(* bytes become, "because the input block may be incompressible": in the   *)
(* host's buffer, too, there is room for what the compressor may make of a *)
(* chunk.                                                                  *)
HostBufferFits == hpc # "overrun"

(* dc-tool.c:438 "send size bytes to dc from addr": when send_data returns *)
(* the target has those bytes.  The sum that comes with every block would  *)
(* tell the target of a damaged one, and the answer 'B' would tell the     *)
(* host, but the target does not look at the sum.                          *)
SentIntact == hpc = "done" => \A i \in 1..count : mem[i] = i

(* The transfer as the rest of the program sees it.                        *)
T == INSTANCE Transfer WITH MaxBlock <- Chunk, got <- tdata, busy <- hpc # "done"
TransferSpec == T!Spec

(* send_data returns, and so does load_data_block_general.                 *)
Completes == hpc # "done" ~> hpc = "done" /\ tpc = "done"
=============================================================================
