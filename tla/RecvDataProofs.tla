--------------------------- MODULE RecvDataProofs ---------------------------
(***************************************************************************)
(* Proofs about RecvData, for every set of sizes without 0, chunk size,    *)
(* smallest size worth compressing, buffer size and width of the unsigned  *)
(* total.                                                                  *)
(*                                                                         *)
(* The target sends a whole block at once, so the line holds up to four    *)
(* items; still the two ends move in lockstep: a transfer is in one of     *)
(* six phases, each of which fixes both program counters and what is on    *)
(* the line, and each of which is left by one action only.                 *)
(***************************************************************************)
EXTENDS RecvData, SequenceTheorems, TLAPS

(* Bytes are accounted for, and the block being sent is part of what is    *)
(* left to send.                                                           *)
Accounts ==
    /\ count \in Sizes \cup {0}
    /\ tsize \in Nat
    /\ taddr \in Nat
    /\ tsize + taddr = count
    /\ tpc = "block" => tsize # 0
    /\ tpc = "done" => tsize = 0
    /\ frame \in [type : {"U", "C", "none"}, len : 0..count, wire : 0..count]
    /\ frame.type = "C" => frame.len <= Chunk
    /\ tpc = "ack" => /\ frame.type # "none"
                      /\ frame.len \in 1..tsize
                      /\ frame.type = "U" => frame.wire = frame.len
    /\ wrkmem \in BOOLEAN
    /\ htype \in {"U", "C", "none"}
    /\ hsize \in Nat
    /\ tmp \in PayloadItem
    /\ mem \in [1..count -> Nat \cup {Damaged}]

(* What the host has counted when it is level with the target, and when it *)
(* is one block ahead.                                                     *)
Level == hdata = taddr /\ htotal = tsize
Ahead == hdata = taddr + frame.len /\ htotal = tsize - frame.len

Idle == /\ tpc \in {"block", "done"}
        /\ hpc = HostTop(htotal)
        /\ Level
        /\ toHost = <<>>
        /\ toTarget = <<>>

BlockSent == /\ tpc = "ack"
             /\ hpc = "type"
             /\ Level
             /\ toHost = <<Byte(frame.type), Word(frame.wire),
                           Payload(taddr, frame.len, frame.wire), Byte("sum")>>
             /\ toTarget = <<>>

TypeRead == /\ tpc = "ack"
            /\ hpc = "size"
            /\ Level
            /\ htype = frame.type
            /\ toHost = <<Word(frame.wire), Payload(taddr, frame.len, frame.wire), Byte("sum")>>
            /\ toTarget = <<>>

SizeRead == /\ tpc = "ack"
            /\ hpc = "data"
            /\ Level
            /\ htype = frame.type
            /\ hsize = frame.wire
            /\ toHost = <<Payload(taddr, frame.len, frame.wire), Byte("sum")>>
            /\ toTarget = <<>>

DataRead == /\ tpc = "ack"
            /\ hpc = "sum"
            /\ Level
            /\ htype = frame.type
            /\ hsize = frame.wire
            /\ htype = "C" => tmp = Payload(taddr, frame.len, frame.wire)
            /\ toHost = <<Byte("sum")>>
            /\ toTarget = <<>>

Answered == /\ tpc = "ack"
            /\ hpc = HostTop(htotal)
            /\ Ahead
            /\ toHost = <<>>
            /\ toTarget = <<Byte("G")>>

Phase == \/ Idle
         \/ BlockSent
         \/ TypeRead
         \/ SizeRead
         \/ DataRead
         \/ Answered

IInv == Accounts /\ StoredPrefix /\ Phase
-----------------------------------------------------------------------------
(* Heads and tails of the sequences the line holds.                        *)
LEMMA OneItem == \A a : /\ Head(<<a>>) = a
                        /\ Tail(<<a>>) = <<>>
                        /\ <<a>> # <<>>
                        /\ Append(<<>>, a) = <<a>>
  BY SMT

LEMMA TwoItems == \A a, b : /\ Head(<<a, b>>) = a
                            /\ Tail(<<a, b>>) = <<b>>
                            /\ <<a, b>> # <<>>
  BY SMT

LEMMA ThreeItems == \A a, b, c : /\ Head(<<a, b, c>>) = a
                                 /\ Tail(<<a, b, c>>) = <<b, c>>
                                 /\ <<a, b, c>> # <<>>
  BY SMT

LEMMA FourItems == \A a, b, c, d : /\ Head(<<a, b, c, d>>) = a
                                   /\ Tail(<<a, b, c, d>>) = <<b, c, d>>
                                   /\ <<a, b, c, d>> # <<>>
  BY SMT

LEMMA FourJoined == \A a, b, c, d : <<>> \o (<<a, b>> \o <<c, d>>) = <<a, b, c, d>>
<1> TAKE a, b, c, d
<1> DEFINE S == {a, b, c, d}
           joined == <<a, b>> \o <<c, d>>
<1>1. <<a, b>> \in Seq(S) /\ <<c, d>> \in Seq(S) /\ <<a, b, c, d>> \in Seq(S)
  OBVIOUS
<1>2. joined \in Seq(S) /\ Len(joined) = 4
  BY <1>1
<1>3. \A i \in 1..4 : joined[i] = <<a, b, c, d>>[i]
  BY <1>1
<1>4. joined = <<a, b, c, d>>
  <2> HIDE DEF joined, S
  <2> QED
    BY <1>1, <1>2, <1>3, SeqEqual
<1>5. QED
  BY <1>1, <1>4, ConcatEmptySeq

(* A block carries all it was given, and is no longer on the line than in  *)
(* memory.                                                                 *)
LEMMA FrameFacts ==
    ASSUME NEW n \in Nat, n # 0, NEW csize \in Compressed(n)
    PROVE  /\ Frame(n, csize) \in [type : {"U", "C"}, len : {n}, wire : 1..n]
           /\ Frame(n, csize).type = "U" => Frame(n, csize).wire = n
<1>1. csize \in Nat /\ csize # 0
  BY DEF Compressed
<1>2. CASE csize < n
  BY <1>1, <1>2 DEF Frame
<1>3. CASE ~(csize < n)
  BY <1>1, <1>3 DEF Frame, Uncompressed
<1>4. QED
  BY <1>2, <1>3

(* So does the one block of a transfer that is not compressed.             *)
LEMMA FramesFacts ==
    ASSUME RecvAssumption, tsize \in Nat, tsize # 0, NEW f \in Frames
    PROVE  /\ f \in [type : {"U", "C"}, len : 1..tsize, wire : 0..tsize]
           /\ f.type = "U" => f.wire = f.len
           /\ f.type = "C" => f.len <= Chunk
<1>1. CASE OneBlock
  BY <1>1 DEF Frames, Uncompressed
<1>2. CASE ~OneBlock
  <2>1. SendSize(tsize) \in 1..tsize /\ SendSize(tsize) <= Chunk
    BY DEF SendSize, RecvAssumption
  <2>2. PICK csize \in Compressed(SendSize(tsize)) : f = Frame(SendSize(tsize), csize)
    BY <1>2 DEF Frames
  <2>3. /\ f \in [type : {"U", "C"}, len : {SendSize(tsize)}, wire : 1..SendSize(tsize)]
        /\ f.type = "U" => f.wire = SendSize(tsize)
    BY <2>1, <2>2, FrameFacts
  <2>4. QED
    BY <2>1, <2>3
<1>3. QED
  BY <1>1, <1>2

LEMMA PlusZero == \A n \in Nat : n + 0 = n
  OBVIOUS

(* What unsigned subtraction does when it does not wrap.                   *)
LEMMA NoWrap == ASSUME NEW a \in Nat, NEW b \in 0..a
                PROVE  SubU(a, b, Wrap) = a - b
  BY DEF SubU

(* Storing an undamaged block behind a prefix extends the prefix.          *)
LEMMA StoreExtends ==
    ASSUME NEW n \in Nat, NEW m \in [1..n -> Nat \cup {Damaged}], NEW pos \in Nat,
           NEW len \in Nat, NEW wire,
           \A i \in 1..n : m[i] = IF i <= pos THEN i ELSE Unwritten
    PROVE  /\ Store(m, pos, Payload(pos, len, wire)) \in [1..n -> Nat \cup {Damaged}]
           /\ \A i \in 1..n : Store(m, pos, Payload(pos, len, wire))[i]
                               = IF i <= pos + len THEN i ELSE Unwritten
  BY DEF Store, Payload, Unwritten

(* What the accounts say of the numbers, in one place.                     *)
LEMMA Numbers ==
    ASSUME RecvAssumption, IInv
    PROVE  /\ count \in 0 .. (Wrap - 1)
           /\ tsize \in 0..count /\ taddr \in 0..count /\ tsize + taddr = count
           /\ frame.len \in Nat /\ frame.wire \in Nat
           /\ tpc = "ack" => frame.len \in 1..tsize /\ frame.type \in {"U", "C"}
           /\ frame.type = "U" /\ tpc = "ack" => frame.wire = frame.len
           /\ hsize \in Nat
  BY DEF IInv, Accounts, RecvAssumption
-----------------------------------------------------------------------------
(* One lemma per action: from which phase it leads to which.               *)

LEMMA InitOK == ASSUME RecvAssumption, Init PROVE IInv
<1>1. NoPayload \in PayloadItem
  BY DEF NoPayload, Payload, PayloadItem
<1>2. Accounts
  <2>1. tsize + taddr = count
    BY PlusZero DEF Init
  <2>2. frame \in [type : {"U", "C", "none"}, len : 0..count, wire : 0..count] /\ frame.type = "none"
    BY DEF Init, NoFrame
  <2>3. mem \in [1..count -> Nat \cup {Damaged}]
    BY DEF Init
  <2>4. QED
    BY <1>1, <2>1, <2>2, <2>3 DEF Init, Accounts
<1>3. StoredPrefix /\ Idle
  BY DEF Init, StoredPrefix, Idle, Level, HostTop
<1>4. QED
  BY <1>2, <1>3 DEF IInv, Phase

LEMMA CallOK == ASSUME RecvAssumption, 0 \notin Sizes, IInv, Call PROVE IInv'
<1>1. Idle
  BY DEF IInv, Phase, Idle, BlockSent, TypeRead, SizeRead, DataRead, Answered, Call
<1>2. count' \in Nat /\ count' # 0 /\ count' \in Sizes
  BY DEF Call, RecvAssumption
<1>3. Accounts'
  <2>1. frame' = NoFrame /\ tpc' = "block" /\ tsize' = count' /\ taddr' = 0 /\ wrkmem' \in BOOLEAN
    BY DEF Call
  <2>2. mem' \in [1..count' -> Nat \cup {Damaged}]
    BY DEF Call, Unwritten
  <2>3. /\ htype' \in {"U", "C", "none"}
        /\ hsize' \in Nat
        /\ tmp' \in PayloadItem
    BY DEF IInv, Accounts, Call
  <2>4. QED
    <3>1. /\ frame' \in [type : {"U", "C", "none"}, len : 0..count', wire : 0..count']
          /\ frame'.type = "none"
      BY <1>2, <2>1 DEF NoFrame
    <3>2. tsize' + taddr' = count'
      BY <1>2, <2>1, PlusZero
    <3>3. QED
      BY <1>2, <2>1, <2>2, <2>3, <3>1, <3>2 DEF Accounts
<1>4. hpc' = "type" /\ hdata' = 0 /\ mem' = [i \in 1..count' |-> Unwritten]
  BY <1>2 DEF Call, HostTop
<1>5. StoredPrefix'
  BY <1>2, <1>4 DEF StoredPrefix, InPlace
<1>6. Idle'
  BY <1>1, <1>2 DEF Idle, Call, Level, HostTop
<1>7. QED
  BY <1>3, <1>5, <1>6 DEF IInv, Phase

LEMMA TargetBlockOK == ASSUME RecvAssumption, IInv, TargetBlock PROVE IInv'
<1>1. Idle
  BY DEF IInv, Phase, Idle, BlockSent, TypeRead, SizeRead, DataRead, Answered, TargetBlock
<1>2. tsize \in Nat /\ tsize # 0 /\ tsize <= count /\ count \in Nat
  BY Numbers DEF IInv, Accounts, TargetBlock
<1>3. PICK f \in Frames : frame' = f /\ toHost' = toHost \o Block(f)
  BY DEF TargetBlock
<1>4. /\ frame' \in [type : {"U", "C"}, len : 1..tsize, wire : 0..tsize]
      /\ frame'.type = "U" => frame'.wire = frame'.len
      /\ frame'.type = "C" => frame'.len <= Chunk
  BY <1>2, <1>3, FramesFacts
<1>5. Accounts'
  BY <1>2, <1>4 DEF IInv, Accounts, TargetBlock, host
<1>6. StoredPrefix'
  BY DEF IInv, StoredPrefix, InPlace, TargetBlock, host
<1>7. BlockSent'
  <2>1. hpc = "type"
    BY <1>1, <1>2 DEF Idle, Level, HostTop
  <2>2. toHost' = <<Byte(frame'.type), Word(frame'.wire),
                    Payload(taddr, frame'.len, frame'.wire), Byte("sum")>>
    BY <1>1, <1>3, FourJoined DEF Idle, Block, Body
  <2>3. QED
    BY <1>1, <2>1, <2>2 DEF Idle, BlockSent, TargetBlock, host, Level
<1>8. QED
  BY <1>5, <1>6, <1>7 DEF IInv, Phase

LEMMA TargetAckOK == ASSUME RecvAssumption, IInv, TargetAck PROVE IInv'
<1>1. Answered
  BY DEF IInv, Phase, Idle, BlockSent, TypeRead, SizeRead, DataRead, Answered, TargetAck
<1>2. Head(toTarget).ch = "G" /\ toTarget' = <<>>
  BY <1>1, OneItem DEF Answered, TargetAck, Byte
<1>3. /\ tsize' = tsize - frame.len
      /\ taddr' = taddr + frame.len
      /\ tpc' = TargetTop(tsize')
      /\ UNCHANGED <<toHost, count, frame, wrkmem, hpc, htotal, hdata, htype, hsize, tmp, mem>>
  BY <1>2 DEF TargetAck, host
<1>4. /\ tsize' \in Nat /\ taddr' \in Nat /\ tsize' + taddr' = count'
      /\ tpc' \in {"block", "done"}
      /\ tpc' = "block" => tsize' # 0
      /\ tpc' = "done" => tsize' = 0
  <2>1. tsize \in Nat /\ taddr \in Nat /\ frame.len \in 1..tsize /\ tsize + taddr = count
    BY <1>1, Numbers DEF Answered
  <2>2. tsize' \in Nat /\ taddr' \in Nat /\ tsize' + taddr' = count'
    BY <1>3, <2>1
  <2>3. QED
    BY <1>3, <2>2 DEF TargetTop
<1>5. Accounts'
  BY <1>3, <1>4 DEF IInv, Accounts
<1>6. StoredPrefix'
  BY <1>3 DEF IInv, StoredPrefix, InPlace
<1>7. Idle'
  BY <1>1, <1>2, <1>3, <1>4 DEF Answered, Ahead, Idle, Level
<1>8. QED
  BY <1>5, <1>6, <1>7 DEF IInv, Phase

LEMMA HostTypeOK == ASSUME RecvAssumption, IInv, HostType PROVE IInv'
<1>1. BlockSent
  BY DEF IInv, Phase, Idle, BlockSent, TypeRead, SizeRead, DataRead, Answered, HostType, HostTop
<1>2. /\ htype' = frame.type
      /\ toHost' = <<Word(frame.wire), Payload(taddr, frame.len, frame.wire), Byte("sum")>>
  BY <1>1, FourItems DEF BlockSent, HostType, Byte
<1>3. Accounts'
  BY <1>1, <1>2, Numbers DEF IInv, Accounts, HostType, BlockSent, target
<1>4. StoredPrefix'
  BY <1>1 DEF IInv, StoredPrefix, InPlace, HostType, BlockSent
<1>5. TypeRead'
  BY <1>1, <1>2 DEF BlockSent, TypeRead, HostType, target, Level
<1>6. QED
  BY <1>3, <1>4, <1>5 DEF IInv, Phase

LEMMA HostSizeOK == ASSUME RecvAssumption, IInv, HostSize PROVE IInv'
<1>1. TypeRead
  BY DEF IInv, Phase, Idle, BlockSent, TypeRead, SizeRead, DataRead, Answered, HostSize, HostTop
<1>2. /\ hsize' = frame.wire
      /\ toHost' = <<Payload(taddr, frame.len, frame.wire), Byte("sum")>>
  BY <1>1, ThreeItems DEF TypeRead, HostSize, Word
<1>3. htype \in {"U", "C"} /\ frame.wire \in Nat
  BY <1>1, Numbers DEF TypeRead
<1>4. hpc' = "data"
  BY <1>3 DEF HostSize
<1>5. Accounts'
  BY <1>2, <1>3 DEF IInv, Accounts, HostSize, target
<1>6. StoredPrefix'
  BY <1>1, <1>4 DEF IInv, StoredPrefix, InPlace, HostSize, TypeRead
<1>7. SizeRead'
  BY <1>1, <1>2, <1>4 DEF TypeRead, SizeRead, HostSize, target, Level
<1>8. QED
  BY <1>5, <1>6, <1>7 DEF IInv, Phase

LEMMA HostDataOK == ASSUME RecvAssumption, IInv, HostData PROVE IInv'
<1>1. SizeRead
  BY DEF IInv, Phase, Idle, BlockSent, TypeRead, SizeRead, DataRead, Answered, HostData, HostTop
<1>2. Head(toHost) = Payload(taddr, frame.len, frame.wire) /\ toHost' = <<Byte("sum")>>
  BY <1>1, TwoItems DEF SizeRead, HostData
<1>3. /\ frame.type \in {"U", "C"} /\ htype = frame.type /\ hsize = frame.wire
      /\ hdata = taddr /\ hpc = "data" /\ hpc' = "sum"
  BY <1>1, Numbers DEF SizeRead, Level, HostData
<1>4. Payload(taddr, frame.len, frame.wire) \in PayloadItem
  BY Numbers DEF Payload, PayloadItem
<1>5. /\ mem \in [1..count -> Nat \cup {Damaged}]
      /\ \A i \in 1..count : mem[i] = IF i <= taddr THEN i ELSE Unwritten
  <2>1. InPlace = taddr
    BY <1>3, Numbers DEF InPlace
  <2>2. QED
    BY <2>1 DEF IInv, Accounts, StoredPrefix
<1>6. CASE htype = "U"
  <2>1. /\ mem' = Store(mem, taddr, Payload(taddr, frame.len, frame.wire))
        /\ tmp' = tmp
    BY <1>2, <1>3, <1>6 DEF HostData
  <2>2. /\ mem' \in [1..count -> Nat \cup {Damaged}]
        /\ \A i \in 1..count : mem'[i] = IF i <= taddr + frame.len THEN i ELSE Unwritten
    <3>1. taddr \in Nat /\ count \in Nat /\ frame.len \in Nat
      BY Numbers
    <3>2. QED
      BY <1>5, <2>1, <3>1, StoreExtends
  <2>3. InPlace' = taddr + frame.len
    BY <1>1, <1>3, <1>6, Numbers DEF InPlace, HostData, SizeRead
  <2>4. Accounts'
    BY <2>1, <2>2 DEF IInv, Accounts, HostData, target
  <2>5. StoredPrefix'
    BY <2>2, <2>3 DEF StoredPrefix, HostData
  <2>6. DataRead'
    BY <1>1, <1>2, <1>6 DEF SizeRead, DataRead, HostData, target, Level
  <2>7. QED
    BY <2>4, <2>5, <2>6 DEF IInv, Phase
<1>7. CASE htype = "C"
  <2>1. mem' = mem /\ tmp' = Payload(taddr, frame.len, frame.wire)
    BY <1>2, <1>7 DEF HostData
  <2>2. Accounts'
    BY <1>4, <2>1 DEF IInv, Accounts, HostData, target
  <2>3. StoredPrefix'
    BY <1>3, <1>7, <2>1 DEF IInv, StoredPrefix, InPlace, HostData
  <2>4. DataRead'
    BY <1>1, <1>2, <2>1 DEF SizeRead, DataRead, HostData, target, Level
  <2>5. QED
    BY <2>2, <2>3, <2>4 DEF IInv, Phase
<1>8. QED
  BY <1>3, <1>6, <1>7

(* What the host does at the end of a block, whatever its type.            *)
LEMMA SumCounts ==
    ASSUME RecvAssumption, IInv, HostSum
    PROVE  /\ DataRead
           /\ htype \in {"U", "C"} /\ htype = frame.type
           /\ toTarget' = <<Byte("G")>> /\ toHost' = <<>>
           /\ htotal' = tsize - frame.len
           /\ hdata' = taddr + frame.len
           /\ hpc' = HostTop(htotal')
           /\ htype = "U" => mem' = mem
           /\ htype = "C" => mem' = Store(mem, taddr, Payload(taddr, frame.len, frame.wire))
<1>1. DataRead
  BY DEF IInv, Phase, Idle, BlockSent, TypeRead, SizeRead, DataRead, Answered, HostSum, HostTop
<1>2. /\ htype = frame.type /\ htype \in {"U", "C"} /\ hsize = frame.wire
      /\ htotal = tsize /\ hdata = taddr /\ toTarget = <<>>
      /\ frame.len \in 1..tsize /\ tsize \in Nat
  BY <1>1, Numbers DEF DataRead, Level
<1>3. SubU(tsize, frame.len, Wrap) = tsize - frame.len
  BY <1>2, NoWrap
<1>4. toHost' = <<>> /\ hpc' = HostTop(htotal')
  BY <1>1, OneItem DEF DataRead, HostSum
<1>5. CASE htype = "U"
  <2>1. hsize = frame.len
    BY <1>1, <1>2, <1>5, Numbers DEF DataRead
  <2>2. QED
    BY <1>1, <1>2, <1>3, <1>4, <1>5, <2>1, OneItem DEF HostSum
<1>6. CASE htype = "C"
  <2>1. tmp = Payload(taddr, frame.len, frame.wire)
    BY <1>1, <1>6 DEF DataRead
  <2>2. tmp.ok /\ tmp.len = frame.len
    BY <2>1 DEF Payload
  <2>3. Decompress(tmp, MaxGarbage) = {[ok |-> TRUE, out |-> tmp]}
    BY <2>2 DEF Decompress
  <2>4. /\ toTarget' = Append(toTarget, Byte("G"))
        /\ mem' = Store(mem, hdata, tmp)
        /\ htotal' = SubU(htotal, tmp.len, Wrap)
        /\ hdata' = hdata + tmp.len
    BY <1>6, <2>3 DEF HostSum
  <2>5. QED
    BY <1>1, <1>2, <1>3, <1>4, <1>6, <2>1, <2>2, <2>4, OneItem
<1>7. QED
  BY <1>2, <1>5, <1>6

LEMMA HostSumOK == ASSUME RecvAssumption, IInv, HostSum PROVE IInv'
<1>1. /\ DataRead /\ hdata = taddr /\ hpc = "sum" /\ hpc' # "sum"
      /\ hsize = frame.wire /\ hdata' = taddr + frame.len
  BY SumCounts DEF DataRead, Level, HostTop
<1>2. InPlace' = taddr + frame.len
  BY <1>1, Numbers DEF InPlace
<1>3. /\ mem \in [1..count -> Nat \cup {Damaged}]
      /\ \A i \in 1..count : mem[i] = IF i <= InPlace THEN i ELSE Unwritten
  BY DEF IInv, Accounts, StoredPrefix
<1>4. /\ mem' \in [1..count -> Nat \cup {Damaged}]
      /\ \A i \in 1..count : mem'[i] = IF i <= taddr + frame.len THEN i ELSE Unwritten
  <2>1. CASE htype = "U"
    <3>1. InPlace = taddr + frame.len
      BY <1>1, <2>1, SumCounts, Numbers DEF InPlace, DataRead
    <3>2. QED
      BY <1>3, <2>1, <3>1, SumCounts
  <2>2. CASE htype = "C"
    <3>1. InPlace = taddr
      BY <1>1, <2>2, Numbers DEF InPlace
    <3>2. taddr \in Nat /\ count \in Nat /\ frame.len \in Nat
      BY Numbers
    <3>3. mem' = Store(mem, taddr, Payload(taddr, frame.len, frame.wire))
      BY <2>2, SumCounts
    <3>4. QED
      BY <1>3, <3>1, <3>2, <3>3, StoreExtends
  <2>3. QED
    BY <2>1, <2>2, SumCounts
<1>5. UNCHANGED <<count, target, htype, hsize, tmp>>
  BY DEF HostSum
<1>6. Accounts'
  BY <1>4, <1>5 DEF IInv, Accounts, target
<1>7. StoredPrefix'
  BY <1>2, <1>4, <1>5 DEF StoredPrefix
<1>8. Answered'
  BY <1>1, <1>5, SumCounts DEF DataRead, Answered, Ahead, target
<1>9. QED
  BY <1>6, <1>7, <1>8 DEF IInv, Phase
-----------------------------------------------------------------------------
(* The lockstep of the two ends is an invariant.                           *)
THEOREM Lockstep == ASSUME 0 \notin Sizes PROVE Spec => []IInv
<1>1. Init => IInv
  BY InitOK, RecvAssumption
<1>2. IInv /\ [Next]_vars => IInv'
  <2>1. SUFFICES ASSUME IInv, [Next]_vars PROVE IInv'
    OBVIOUS
  <2>2. CASE UNCHANGED vars
    BY <2>1, <2>2 DEF IInv, Accounts, StoredPrefix, InPlace, Phase, Idle, BlockSent, TypeRead,
       SizeRead, DataRead, Answered, Level, Ahead, vars, host, target
  <2>3. CASE Next
    BY <2>1, <2>3, RecvAssumption, CallOK, TargetBlockOK, TargetAckOK, HostTypeOK, HostSizeOK,
       HostDataOK, HostSumOK DEF Next, Host, Target
  <2>4. QED
    BY <2>1, <2>2, <2>3
<1>3. QED
  BY <1>1, <1>2, PTL DEF Spec
-----------------------------------------------------------------------------
(* What follows from the lockstep in every state.                          *)

LEMMA IInvTypeOK == ASSUME RecvAssumption, IInv PROVE TypeOK
<1> DEFINE Pcs == /\ tpc \in {"block", "ack", "done"}
                  /\ hpc \in {"type", "size", "data", "sum", "done"}
           Totals == htotal \in 0 .. (Wrap - 1) /\ hdata \in Nat
           Lines == toHost \in Seq(Item) /\ toTarget \in Seq(Item)
<1>1. SUFFICES Pcs /\ Totals /\ Lines
  BY Numbers DEF IInv, Accounts, TypeOK
<1>2. /\ Byte("sum") \in Item /\ Byte("G") \in Item
      /\ Payload(taddr, frame.len, frame.wire) \in Item
      /\ Word(frame.wire) \in Item
      /\ tpc = "ack" => Byte(frame.type) \in Item
  BY Numbers DEF Byte, Payload, Word, Item, PayloadItem
<1>3. Pcs
  BY DEF IInv, Phase, Idle, BlockSent, TypeRead, SizeRead, DataRead, Answered, HostTop
<1>4. Totals
  <2>1. CASE Level
    BY <2>1, Numbers DEF Level
  <2>2. CASE Answered
    <3>1. frame.len \in 1..tsize /\ htotal = tsize - frame.len /\ hdata = taddr + frame.len
      BY <2>2, Numbers DEF Answered, Ahead
    <3>2. htotal \in Nat /\ htotal <= count /\ Wrap \in Nat /\ count \in 0 .. (Wrap - 1)
      BY <3>1, Numbers DEF RecvAssumption
    <3>3. QED
      BY <3>1, <3>2, Numbers
  <2>3. QED
    BY <2>1, <2>2 DEF IInv, Phase, Idle, BlockSent, TypeRead, SizeRead, DataRead
<1>5. Lines
  <2>1. CASE Idle
    BY <2>1 DEF Idle
  <2>2. CASE DataRead
    BY <1>2, <2>2 DEF DataRead
  <2>3. CASE Answered
    BY <1>2, <2>3 DEF Answered
  <2>4. CASE BlockSent
    BY <1>2, <2>4 DEF BlockSent
  <2>5. CASE TypeRead
    BY <1>2, <2>5 DEF TypeRead
  <2>6. CASE SizeRead
    BY <1>2, <2>6 DEF SizeRead
  <2>7. QED
    BY <2>1, <2>2, <2>3, <2>4, <2>5, <2>6 DEF IInv, Phase
<1>6. QED
  BY <1>3, <1>4, <1>5

LEMMA IInvAligned == ASSUME RecvAssumption, IInv PROVE Aligned
<1>1. /\ tpc = "ack" => IsType(Byte(frame.type))
      /\ IsWord(Word(frame.wire))
      /\ IsPayload(Payload(taddr, frame.len, frame.wire), frame.wire)
      /\ IsSum(Byte("sum"))
      /\ IsReply(Byte("G"))
  BY Numbers DEF IsType, IsWord, IsPayload, IsSum, IsReply, Byte, Word, Payload
<1>2. CASE Idle
  BY <1>2 DEF Idle, Aligned
<1>3. CASE BlockSent
  BY <1>1, <1>3, FourItems DEF BlockSent, Aligned
<1>4. CASE TypeRead
  BY <1>1, <1>4, ThreeItems DEF TypeRead, Aligned
<1>5. CASE SizeRead
  BY <1>1, <1>5, TwoItems DEF SizeRead, Aligned
<1>6. CASE DataRead
  BY <1>1, <1>6, OneItem DEF DataRead, Aligned
<1>7. CASE Answered
  BY <1>1, <1>7, OneItem DEF Answered, Aligned
<1>8. QED
  BY <1>2, <1>3, <1>4, <1>5, <1>6, <1>7 DEF IInv, Phase

LEMMA IInvBookkeeping == ASSUME RecvAssumption, IInv PROVE Bookkeeping
<1>1. StoredPrefix
  BY DEF IInv
<1>2. CASE Level
  <2>1. /\ taddr <= hdata /\ hdata <= taddr + frame.len /\ htotal + hdata = count
        /\ tsize + taddr = count
    BY <1>2, Numbers DEF Level
  <2>2. tpc = "done" => tsize = 0 /\ Idle
    BY DEF IInv, Accounts, Phase, Idle, BlockSent, TypeRead, SizeRead, DataRead, Answered
  <2>3. tpc = "done" => hdata = count /\ hpc = "done" /\ toHost = <<>> /\ toTarget = <<>>
    BY <1>2, <2>2, Numbers DEF Level, Idle, HostTop
  <2>4. QED
    BY <1>1, <2>1, <2>3 DEF Bookkeeping
<1>3. CASE Answered
  <2>1. /\ taddr <= hdata /\ hdata <= taddr + frame.len /\ htotal + hdata = count
        /\ tsize + taddr = count
    <3>1. hdata = taddr + frame.len /\ htotal = tsize - frame.len
      BY <1>3 DEF Answered, Ahead
    <3>2. frame.len \in Nat /\ tsize \in Nat /\ taddr \in Nat /\ count \in Nat
      BY Numbers
    <3>3. tsize + taddr = count
      BY DEF IInv, Accounts
    <3>4. QED
      BY <3>1, <3>2, <3>3
  <2>2. tpc # "done"
    BY <1>3 DEF Answered
  <2>3. QED
    BY <1>1, <2>1, <2>2 DEF Bookkeeping
<1>4. QED
  BY <1>2, <1>3 DEF IInv, Phase, Idle, BlockSent, TypeRead, SizeRead, DataRead

(* The compressor's bound grows with the size of what it is given.         *)
LEMMA CompressedGrows ==
    ASSUME NEW a \in Nat, NEW b \in Nat, a <= b, NEW n \in Compressed(a)
    PROVE  n <= MostCompressed(b)
<1>1. a \div 16 <= b \div 16
  OBVIOUS
<1>2. a \div 16 \in Nat /\ b \div 16 \in Nat
  OBVIOUS
<1>3. n \in 1 .. (a + (a \div 16) + 64 + 3)
  BY DEF Compressed, MostCompressed
<1>4. QED
  BY <1>1, <1>2, <1>3 DEF MostCompressed

LEMMA IInvBlockFits == ASSUME RecvAssumption, IInv PROVE BlockFits
<1>1. ASSUME frame.type = "C", NEW n \in Compressed(frame.len) PROVE n <= BufSize
  <2>1. frame.len \in Nat /\ frame.len <= Chunk /\ Chunk \in Nat
    BY <1>1, Numbers DEF IInv, Accounts, RecvAssumption
  <2>2. n <= MostCompressed(Chunk)
    BY <1>1, <2>1, CompressedGrows
  <2>3. MostCompressed(Chunk) \in Nat /\ n \in Nat
    BY <1>1, <2>1 DEF Compressed, MostCompressed
  <2>4. QED
    BY <2>1, <2>2, <2>3 DEF RecvAssumption
<1>2. ASSUME hpc = "sum" PROVE hdata + (IF htype = "C" THEN tmp.len ELSE hsize) <= count
  <2>1. DataRead
    BY <1>2 DEF IInv, Phase, Idle, BlockSent, TypeRead, SizeRead, DataRead, Answered, HostTop
  <2>2. IF htype = "C" THEN tmp.len = frame.len ELSE hsize = frame.len
    BY <2>1, Numbers DEF DataRead, Payload
  <2>3. hdata = taddr /\ frame.len <= tsize
    BY <2>1, Numbers DEF DataRead, Level
  <2>4. QED
    BY <2>2, <2>3, Numbers
<1>3. QED
  BY <1>1, <1>2 DEF BlockFits
-----------------------------------------------------------------------------
(* The variables and the lines keep their types: in particular recv_data's *)
(* unsigned total never wraps below zero.                                  *)
THEOREM TypeCorrect == ASSUME 0 \notin Sizes PROVE Spec => []TypeOK
  BY Lockstep, IInvTypeOK, RecvAssumption, PTL

(* The host never takes one item of a block for another, although nothing  *)
(* holds the target back while it sends one.                               *)
THEOREM FramingKept == ASSUME 0 \notin Sizes PROVE Spec => []Aligned
  BY Lockstep, IInvAligned, RecvAssumption, PTL

(* The host's memory is always a prefix of the source, and complete when   *)
(* the target's function returns.                                          *)
THEOREM BooksBalance == ASSUME 0 \notin Sizes PROVE Spec => []Bookkeeping
  BY Lockstep, IInvBookkeeping, RecvAssumption, PTL

(* No block overruns the compressor's buffer or the host's memory.         *)
THEOREM NoOverrun == ASSUME 0 \notin Sizes PROVE Spec => []BlockFits
  BY Lockstep, IInvBlockFits, RecvAssumption, PTL
-----------------------------------------------------------------------------
(* Every step of the two ends is a step of Transfer or leaves it alone:    *)
(* putting a block in place delivers it, the last answer finishes.         *)
LEMMA InitRefines == Init => T!Init
  BY DEF Init, T!Init, InPlace

LEMMA CallRefines == ASSUME RecvAssumption, 0 \notin Sizes, Call PROVE T!Call
<1>1. count' # 0 /\ tpc = "done" /\ tpc' = "block" /\ hdata' = 0 /\ hpc' = HostTop(count')
  BY DEF Call
<1>2. InPlace' = 0
  BY <1>1, PlusZero DEF InPlace, HostTop
<1>3. QED
  BY <1>1, <1>2 DEF Call, T!Call, Unwritten

LEMMA TargetRefines ==
    ASSUME RecvAssumption, IInv, Target
    PROVE  T!Finish \/ UNCHANGED T!vars
<1>1. UNCHANGED <<count, InPlace, mem>>
  BY DEF Target, TargetBlock, TargetAck, InPlace, host
<1>2. CASE TargetBlock
  BY <1>1, <1>2 DEF TargetBlock, T!vars
<1>3. CASE TargetAck
  <2>1. Answered
    BY <1>3 DEF IInv, Phase, Idle, BlockSent, TypeRead, SizeRead, DataRead, Answered, TargetAck
  <2>2. Head(toTarget).ch = "G"
    BY <2>1, OneItem DEF Answered, Byte
  <2>3. tpc = "ack" /\ tsize' = tsize - frame.len /\ tpc' = TargetTop(tsize')
    BY <1>3, <2>2 DEF TargetAck
  <2>4. CASE tsize' = 0
    <3>1. hdata = count /\ hpc # "sum"
      BY <2>1, <2>3, <2>4, Numbers DEF Answered, Ahead, HostTop
    <3>2. InPlace = count
      BY <3>1, Numbers DEF InPlace
    <3>3. tpc' = "done"
      BY <2>3, <2>4 DEF TargetTop
    <3>4. QED
      BY <1>1, <2>3, <3>2, <3>3 DEF T!Finish
  <2>5. CASE tsize' # 0
    BY <1>1, <2>3, <2>5 DEF TargetTop, T!vars
  <2>6. QED
    BY <2>4, <2>5
<1>4. QED
  BY <1>2, <1>3 DEF Target

(* Putting a block of len bytes in the first free place delivers it.       *)
LEMMA StoreDelivers ==
    ASSUME NEW len \in 1..Wrap, tpc = "ack", tpc' = tpc, count' = count,
           count \in Nat, taddr \in Nat, Wrap \in Nat, NEW wire,
           InPlace = taddr, InPlace' = taddr + len, taddr + len <= count,
           mem \in [1..count -> Nat \cup {Damaged}],
           mem' = Store(mem, taddr, Payload(taddr, len, wire))
    PROVE  T!Deliver
<1>1. mem' = [i \in 1..count |-> IF taddr < i /\ i <= taddr + len THEN i ELSE mem[i]]
  BY DEF Store, Payload
<1>2. QED
  BY <1>1 DEF T!Deliver

LEMMA HostDataRefines ==
    ASSUME RecvAssumption, IInv, HostData
    PROVE  T!Deliver \/ UNCHANGED T!vars
<1>1. SizeRead
  BY DEF IInv, Phase, Idle, BlockSent, TypeRead, SizeRead, DataRead, Answered, HostData, HostTop
<1>2. /\ tpc = "ack" /\ tpc' = tpc /\ count' = count /\ hdata' = hdata /\ hdata = taddr
      /\ hpc = "data" /\ hpc' = "sum" /\ htype' = htype /\ hsize' = hsize
      /\ InPlace = taddr
  BY <1>1, Numbers DEF SizeRead, Level, HostData, target, InPlace
<1>3. CASE htype = "U"
  <2>1. mem' = Store(mem, taddr, Payload(taddr, frame.len, frame.wire))
    BY <1>1, <1>2, <1>3, TwoItems DEF HostData, SizeRead
  <2>2. InPlace' = taddr + frame.len
    BY <1>1, <1>2, <1>3, Numbers DEF InPlace, SizeRead
  <2>3. /\ frame.len \in 1..Wrap /\ Wrap \in Nat /\ taddr + frame.len <= count
        /\ taddr \in Nat /\ count \in Nat
    BY <1>2, Numbers DEF RecvAssumption
  <2>4. mem \in [1..count -> Nat \cup {Damaged}]
    BY DEF IInv, Accounts
  <2>5. QED
    BY <1>2, <2>1, <2>2, <2>3, <2>4, StoreDelivers
<1>4. CASE htype # "U"
  <2>1. mem' = mem
    BY <1>4 DEF HostData
  <2>2. InPlace' = taddr
    BY <1>2, <1>4, Numbers DEF InPlace
  <2>3. QED
    BY <1>2, <2>1, <2>2 DEF T!vars
<1>5. QED
  BY <1>3, <1>4

LEMMA HostSumRefines ==
    ASSUME RecvAssumption, IInv, HostSum
    PROVE  T!Deliver \/ UNCHANGED T!vars
<1>1. /\ tpc = "ack" /\ tpc' = tpc /\ count' = count /\ hdata = taddr
      /\ hpc = "sum" /\ hpc' # "sum" /\ hdata' = taddr + frame.len /\ hsize = frame.wire
  BY SumCounts DEF DataRead, Level, HostSum, target, HostTop
<1>2. InPlace' = taddr + frame.len
  BY <1>1, Numbers DEF InPlace
<1>3. CASE htype = "U"
  <2>1. InPlace = taddr + frame.len
    BY <1>1, <1>3, SumCounts, Numbers DEF InPlace
  <2>2. QED
    BY <1>1, <1>2, <1>3, <2>1, SumCounts DEF T!vars
<1>4. CASE htype = "C"
  <2>1. InPlace = taddr
    BY <1>1, <1>4, Numbers DEF InPlace
  <2>2. /\ frame.len \in 1..Wrap /\ Wrap \in Nat /\ taddr + frame.len <= count
        /\ taddr \in Nat /\ count \in Nat
    BY <1>1, Numbers DEF RecvAssumption
  <2>3. mem \in [1..count -> Nat \cup {Damaged}]
    BY DEF IInv, Accounts
  <2>4. mem' = Store(mem, taddr, Payload(taddr, frame.len, frame.wire))
    BY <1>4, SumCounts
  <2>5. QED
    BY <1>1, <1>2, <2>1, <2>2, <2>3, <2>4, StoreDelivers
<1>5. QED
  BY <1>3, <1>4, SumCounts

LEMMA HostRefines ==
    ASSUME RecvAssumption, IInv, Host
    PROVE  T!Deliver \/ UNCHANGED T!vars
<1>1. CASE HostType
  BY <1>1 DEF HostType, InPlace, target, T!vars
<1>2. CASE HostSize
  BY <1>2 DEF HostSize, HostTop, InPlace, target, T!vars
<1>3. QED
  BY <1>1, <1>2, HostDataRefines, HostSumRefines DEF Host

(* The senders of the target with recv_data implement Transfer: blocks     *)
(* arrive whole, in order, once, and the end is reached with all of them.  *)
THEOREM RecvImplementsTransfer == ASSUME 0 \notin Sizes PROVE Spec => TransferSpec
<1>1. Init => T!Init
  BY InitRefines
<1>2. IInv /\ [Next]_vars => [T!Next]_(T!vars)
  <2>1. SUFFICES ASSUME IInv, [Next]_vars PROVE [T!Next]_(T!vars)
    OBVIOUS
  <2>2. CASE UNCHANGED vars
    BY <2>2 DEF vars, host, target, T!vars, InPlace
  <2>3. CASE Next
    BY <2>1, <2>3, RecvAssumption, CallRefines, HostRefines, TargetRefines
    DEF Next, T!Next
  <2>4. QED
    BY <2>1, <2>2, <2>3
<1>3. QED
  BY <1>1, <1>2, Lockstep, PTL DEF Spec, TransferSpec, T!Spec
=============================================================================
