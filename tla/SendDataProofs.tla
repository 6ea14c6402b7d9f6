--------------------------- MODULE SendDataProofs ---------------------------
(***************************************************************************)
(* Proofs about SendData, for every set of sizes, chunk size, buffer sizes *)
(* and width of the unsigned total, on a line that may damage what nobody  *)
(* acts on (UnheededSpec).                                                 *)
(*                                                                         *)
(* The inductive invariant says that the two ends move in lockstep: at any *)
(* time the transfer is in one of seven phases, each of which fixes both   *)
(* program counters and the exact contents of the line, and each of which  *)
(* is left by one action only.                                             *)
(***************************************************************************)
EXTENDS SendData, TLAPS

(* Bytes are accounted for, and the block being sent is part of what is    *)
(* left to send.                                                           *)
Accounts ==
    /\ count \in Sizes \cup {0}
    /\ hsize \in Nat
    /\ haddr \in Nat
    /\ hsize + haddr = count
    /\ hpc = "header" => hsize # 0
    /\ hpc = "done" => hsize = 0
    /\ frame \in [type : {"U", "C", "none"}, len : 0..Chunk, wire : 0..Chunk]
    /\ hpc \in {"echo", "ack"} => /\ frame.type # "none"
                                  /\ frame.len \in 1..hsize
                                  /\ frame.type = "U" => frame.wire = frame.len
    /\ ttype \in {"U", "C", "none"}
    /\ tsize \in Nat
    /\ tmp \in PayloadItem
    /\ mem \in [1..count -> Nat \cup {Damaged}]

(* What the target has stored when it is level with the host, and when it  *)
(* is one block ahead.                                                     *)
Level == tdata = haddr /\ ttotal = hsize
Ahead == tdata = haddr + frame.len /\ ttotal = hsize - frame.len

Idle == /\ hpc \in {"header", "done", "overrun"}
        /\ tpc = TargetTop(ttotal)
        /\ Level
        /\ toTarget = <<>>
        /\ toHost = <<>>

HeaderSent == /\ hpc = "echo"
              /\ tpc = "type"
              /\ Level
              /\ toTarget = <<Byte(frame.type), Word(frame.wire)>>
              /\ toHost = <<>>

TypeRead == /\ hpc = "echo"
            /\ tpc = "size"
            /\ Level
            /\ ttype = frame.type
            /\ toTarget = <<Word(frame.wire)>>
            /\ toHost = <<>>

SizeRead == /\ hpc = "echo"
            /\ tpc = "data"
            /\ Level
            /\ ttype = frame.type
            /\ tsize = frame.wire
            /\ toTarget = <<>>
            /\ \E n \in Nat : toHost = <<Word(n)>>

BodySent == /\ hpc = "ack"
            /\ tpc = "data"
            /\ Level
            /\ ttype = frame.type
            /\ tsize = frame.wire
            /\ toTarget = Body
            /\ toHost = <<>>

DataRead == /\ hpc = "ack"
            /\ tpc = "sum"
            /\ ttype = frame.type
            /\ tsize = frame.wire
            /\ ttotal = hsize
            /\ ttype = "U" => tdata = haddr + frame.len
            /\ ttype = "C" => /\ tdata = haddr
                              /\ tmp = Payload(haddr, frame.len, frame.wire)
            /\ toTarget = <<Byte("sum")>>
            /\ toHost = <<>>

Answered == /\ hpc = "ack"
            /\ tpc = TargetTop(ttotal)
            /\ Ahead
            /\ toTarget = <<>>
            /\ \E reply \in {"G", "B"} : /\ toHost = <<Byte(reply)>>
                                         /\ reply = "B" => frame.type = "U"

Phase == \/ Idle
         \/ HeaderSent
         \/ TypeRead
         \/ SizeRead
         \/ BodySent
         \/ DataRead
         \/ Answered

IInv == Accounts /\ StoredPrefix /\ Phase
-----------------------------------------------------------------------------
(* Heads and tails of the sequences the line holds.                        *)
LEMMA OneItem == \A a : /\ Head(<<a>>) = a
                        /\ Tail(<<a>>) = <<>>
                        /\ <<a>> # <<>>
                        /\ Append(<<>>, a) = <<a>>
  BY SMT

LEMMA TwoItems == \A a, b : /\ Head(<<a, b>>) = a
                            /\ Tail(<<a, b>>) = <<b>>
                            /\ <<a, b>> # <<>>
                            /\ <<>> \o <<a, b>> = <<a, b>>
  BY SMT
(* A block carries all of its chunk, and is no longer on the line than in  *)
(* memory: this is what makes it fit the target's buffer.                  *)
LEMMA FrameFacts ==
    ASSUME NEW n \in Nat, n # 0, NEW csize \in Compressed(n)
    PROVE  /\ Frame(n, csize) \in [type : {"U", "C"}, len : {n}, wire : 1..n]
           /\ Frame(n, csize).type = "U" => Frame(n, csize).wire = n
<1>1. csize \in Nat /\ csize # 0
  BY DEF Compressed
<1>2. CASE csize < n
  BY <1>1, <1>2 DEF Frame
<1>3. CASE ~(csize < n)
  BY <1>1, <1>3 DEF Frame, Uncompressed
<1>4. QED
  BY <1>2, <1>3

LEMMA PlusZero == \A n \in Nat : n + 0 = n
  OBVIOUS

(* What unsigned subtraction does when it does not wrap.                   *)
LEMMA NoWrap == ASSUME NEW a \in Nat, NEW b \in 0..a
                PROVE  SubU(a, b, Wrap) = a - b
  BY DEF SubU

(* Storing an undamaged block behind a prefix extends the prefix.          *)
LEMMA StoreExtends ==
    ASSUME NEW n \in Nat, NEW m \in [1..n -> Nat \cup {Damaged}], NEW pos \in Nat,
           NEW len \in Nat, NEW wire,
           \A i \in 1..n : m[i] = IF i <= pos THEN i ELSE Unwritten
    PROVE  /\ Store(m, pos, Payload(pos, len, wire)) \in [1..n -> Nat \cup {Damaged}]
           /\ \A i \in 1..n : Store(m, pos, Payload(pos, len, wire))[i]
                               = IF i <= pos + len THEN i ELSE Unwritten
  BY DEF Store, Payload, Unwritten
-----------------------------------------------------------------------------
(* One lemma per action: from which phase it leads to which.               *)

LEMMA InitOK == ASSUME SendAssumption PROVE Init => IInv
  BY DEF Init, IInv, Accounts, StoredPrefix, Phase, Idle, Level, TargetTop, SendAssumption,
         NoFrame, NoPayload, Payload, PayloadItem

LEMMA CallOK == ASSUME SendAssumption, IInv, Call PROVE IInv'
<1>1. Idle
  BY DEF IInv, Phase, Idle, HeaderSent, TypeRead, SizeRead, BodySent, DataRead, Answered, Call
<1>2. count' \in Nat
  BY DEF Call, SendAssumption
<1>3. Accounts'
  <2>1. frame' \in [type : {"U", "C", "none"}, len : 0..Chunk, wire : 0..Chunk]
    BY DEF Call, NoFrame, SendAssumption
  <2>2. mem' \in [1..count' -> Nat \cup {Damaged}]
    BY DEF Call, Unwritten
  <2>3. /\ hpc' \notin {"echo", "ack"}
        /\ hpc' = "header" => hsize' # 0
        /\ hpc' = "done" => hsize' = 0
    BY DEF Call, HostTop
  <2>4. hsize' = count' /\ haddr' = 0 /\ count' \in Sizes
    BY DEF Call
  <2>5. /\ ttype' \in {"U", "C", "none"}
        /\ tsize' \in Nat
        /\ tmp' \in PayloadItem
    BY DEF IInv, Accounts, Call
  <2>6. hsize' + haddr' = count'
    <3>1. count' + 0 = count'
      BY <1>2, PlusZero
    <3>2. QED
      BY <2>4, <3>1
  <2>7. QED
    BY <1>2, <2>1, <2>2, <2>3, <2>4, <2>5, <2>6 DEF Accounts
<1>4. StoredPrefix'
  BY <1>2 DEF StoredPrefix, Call
<1>5. Idle'
  BY <1>1, <1>2 DEF Idle, Call, Level, HostTop
<1>6. QED
  BY <1>3, <1>4, <1>5 DEF IInv, Phase

LEMMA HostHeaderOK == ASSUME SendAssumption, IInv, HostHeader PROVE IInv'
<1>1. Idle
  BY DEF IInv, Phase, Idle, HeaderSent, TypeRead, SizeRead, BodySent, DataRead, Answered, HostHeader
<1>2. hsize \in Nat /\ hsize # 0 /\ Chunk \in Nat \ {0}
  BY DEF IInv, Accounts, HostHeader, SendAssumption
<1>3. SendSize(hsize) \in Nat /\ SendSize(hsize) # 0 /\ SendSize(hsize) \in 1..hsize
      /\ SendSize(hsize) \in 1..Chunk
  BY <1>2 DEF SendSize
<1>4. PICK csize \in Compressed(SendSize(hsize)) :
          IF csize <= HostBuffer
          THEN /\ frame' = Frame(SendSize(hsize), csize)
               /\ toTarget' = toTarget \o <<Byte(frame'.type), Word(frame'.wire)>>
               /\ hpc' = "echo"
          ELSE hpc' = "overrun" /\ UNCHANGED <<frame, toTarget>>
  BY DEF HostHeader, Header
<1>5. StoredPrefix'
  BY DEF IInv, StoredPrefix, HostHeader, target
<1>6. CASE csize <= HostBuffer
  <2>1. /\ frame' = Frame(SendSize(hsize), csize) /\ hpc' = "echo"
        /\ toTarget' = toTarget \o <<Byte(frame'.type), Word(frame'.wire)>>
    BY <1>4, <1>6
  <2>2. /\ frame' \in [type : {"U", "C"}, len : 0..Chunk, wire : 0..Chunk]
        /\ frame'.len \in 1..hsize
        /\ frame'.type = "U" => frame'.wire = frame'.len
    BY <1>2, <1>3, <2>1, FrameFacts
  <2>3. Accounts'
    BY <2>1, <2>2 DEF IInv, Accounts, HostHeader, target
  <2>4. tpc = "type"
    BY <1>1, <1>2 DEF Idle, Level, TargetTop
  <2>5. toTarget' = <<Byte(frame'.type), Word(frame'.wire)>>
    BY <1>1, <2>1, TwoItems DEF Idle
  <2>6. HeaderSent'
    BY <1>1, <2>1, <2>4, <2>5 DEF Idle, HeaderSent, HostHeader, target, Level
  <2>7. QED
    BY <1>5, <2>3, <2>6 DEF IInv, Phase
<1>7. CASE ~(csize <= HostBuffer)
  <2>1. hpc' = "overrun" /\ UNCHANGED <<frame, toTarget>>
    BY <1>4, <1>7
  <2>2. Accounts'
    BY <2>1 DEF IInv, Accounts, HostHeader, target
  <2>3. Idle'
    BY <1>1, <2>1 DEF Idle, HostHeader, target, Level
  <2>4. QED
    BY <1>5, <2>2, <2>3 DEF IInv, Phase
<1>8. QED
  BY <1>6, <1>7

LEMMA HostEchoOK == ASSUME SendAssumption, IInv, HostEcho PROVE IInv'
<1>1. SizeRead
  BY DEF IInv, Phase, Idle, HeaderSent, TypeRead, SizeRead, BodySent, DataRead, Answered, HostEcho
<1>2. Accounts'
  BY DEF IInv, Accounts, HostEcho, target
<1>3. StoredPrefix'
  BY DEF IInv, StoredPrefix, HostEcho, target
<1>4. toTarget' = Body' /\ toHost' = <<>>
  <2>1. \E n \in Nat : toHost = <<Word(n)>>
    BY <1>1 DEF SizeRead
  <2>2. toHost' = <<>>
    BY <2>1, OneItem DEF HostEcho
  <2>3. QED
    BY <1>1, <2>2, TwoItems DEF SizeRead, HostEcho, Body
<1>5. BodySent'
  BY <1>1, <1>4 DEF SizeRead, BodySent, HostEcho, target, Level
<1>6. QED
  BY <1>2, <1>3, <1>5 DEF IInv, Phase

(* The answer to a compressed block cannot be damaged unnoticed, and is    *)
(* "G"; nobody looks at the other.                                         *)
LEMMA NotResent == ASSUME Answered PROVE ~Resend(Head(toHost))
<1>1. PICK reply \in {"G", "B"} : toHost = <<Byte(reply)>> /\ (reply = "B" => frame.type = "U")
  BY DEF Answered
<1>2. Head(toHost).ch = reply
  BY <1>1, OneItem DEF Byte
<1>3. QED
  BY <1>1, <1>2 DEF Resend

LEMMA HostAckOK == ASSUME SendAssumption, IInv, HostAck PROVE IInv'
<1>1. Answered
  BY DEF IInv, Phase, Idle, HeaderSent, TypeRead, SizeRead, BodySent, DataRead, Answered, HostAck
<1>2. ~Resend(Head(toHost)) /\ toHost' = <<>>
  BY <1>1, NotResent, OneItem DEF Answered, HostAck
<1>3. /\ hsize' = hsize - frame.len
      /\ haddr' = haddr + frame.len
      /\ hpc' = HostTop(hsize')
      /\ UNCHANGED <<toTarget, count, frame, tpc, ttotal, tdata, ttype, tsize, tmp, mem>>
  BY <1>2 DEF HostAck, target
<1>4. /\ hsize \in Nat /\ haddr \in Nat /\ frame.len \in 1..hsize
      /\ hsize + haddr = count
  BY <1>1 DEF IInv, Accounts, Answered
<1>5. hsize' \in Nat /\ haddr' \in Nat /\ hsize' + haddr' = count'
  BY <1>3, <1>4
<1>6. Accounts'
  BY <1>3, <1>5 DEF IInv, Accounts, HostTop
<1>7. StoredPrefix'
  BY <1>3 DEF IInv, StoredPrefix
<1>8. Idle'
  BY <1>1, <1>2, <1>3 DEF Answered, Ahead, Idle, Level, HostTop
<1>9. QED
  BY <1>6, <1>7, <1>8 DEF IInv, Phase
LEMMA TargetTypeOK == ASSUME SendAssumption, IInv, TargetType PROVE IInv'
<1>1. CASE HeaderSent
  <2>1. ttype' = frame.type /\ toTarget' = <<Word(frame.wire)>>
    BY <1>1, TwoItems DEF HeaderSent, TargetType, Byte
  <2>2. Accounts'
    BY <1>1, <2>1 DEF IInv, Accounts, TargetType, HeaderSent, host
  <2>3. StoredPrefix'
    BY DEF IInv, StoredPrefix, TargetType, host
  <2>4. TypeRead'
    BY <1>1, <2>1 DEF HeaderSent, TypeRead, TargetType, host, Level
  <2>5. QED
    BY <2>2, <2>3, <2>4 DEF IInv, Phase
<1>2. HeaderSent
  BY DEF IInv, Phase, Idle, HeaderSent, TypeRead, SizeRead, BodySent, DataRead, Answered,
         TargetType, TargetTop
<1>3. QED
  BY <1>1, <1>2

LEMMA TargetSizeOK == ASSUME SendAssumption, IInv, TargetSize PROVE IInv'
<1>1. TypeRead
  BY DEF IInv, Phase, Idle, HeaderSent, TypeRead, SizeRead, BodySent, DataRead, Answered,
         TargetSize, TargetTop
<1>2. /\ tsize' = frame.wire
      /\ toTarget' = <<>>
      /\ toHost' = <<Word(frame.wire)>>
  BY <1>1, OneItem DEF TypeRead, TargetSize, Word
<1>3. ttype \in {"U", "C"} /\ frame.wire \in Nat
  BY <1>1, Chunk \in Nat DEF IInv, Accounts, TypeRead, SendAssumption
<1>4. Accounts'
  BY <1>2, <1>3 DEF IInv, Accounts, TargetSize, host
<1>5. StoredPrefix'
  BY DEF IInv, StoredPrefix, TargetSize, host
<1>6. SizeRead'
  BY <1>1, <1>2, <1>3 DEF TypeRead, SizeRead, TargetSize, host, Level
<1>7. QED
  BY <1>4, <1>5, <1>6 DEF IInv, Phase

LEMMA TargetDataOK == ASSUME SendAssumption, IInv, TargetData PROVE IInv'
<1>1. BodySent
  BY DEF IInv, Phase, Idle, HeaderSent, TypeRead, SizeRead, BodySent, DataRead, Answered,
         TargetData, TargetTop
<1>2. /\ Head(toTarget) = Payload(haddr, frame.len, frame.wire)
      /\ toTarget' = <<Byte("sum")>>
  BY <1>1, TwoItems DEF BodySent, TargetData, Body
<1>3. /\ Head(toTarget).len = frame.len
      /\ Head(toTarget) \in PayloadItem
      /\ frame.len \in Nat /\ haddr \in Nat /\ count \in Nat
      /\ frame.type \in {"U", "C"} /\ ttype = frame.type /\ tdata = haddr
  <2>1. /\ frame.len \in Nat /\ frame.wire \in Nat /\ haddr \in Nat /\ count \in Nat
        /\ frame.type \in {"U", "C"} /\ ttype = frame.type /\ tdata = haddr
    BY <1>1 DEF IInv, Accounts, BodySent, Level, SendAssumption
  <2>2. Payload(haddr, frame.len, frame.wire) \in PayloadItem
    BY <2>1 DEF Payload, PayloadItem
  <2>3. Payload(haddr, frame.len, frame.wire).len = frame.len
    BY DEF Payload
  <2>4. QED
    BY <1>2, <2>1, <2>2, <2>3
<1>4. CASE ttype = "U"
  <2>1. /\ mem' = Store(mem, tdata, Head(toTarget))
        /\ tdata' = tdata + frame.len
        /\ tmp' = tmp
    BY <1>3, <1>4 DEF TargetData
  <2>2. /\ mem' \in [1..count -> Nat \cup {Damaged}]
        /\ \A i \in 1..count : mem'[i] = IF i <= tdata' THEN i ELSE Unwritten
    <3>1. /\ mem' = Store(mem, haddr, Payload(haddr, frame.len, frame.wire))
          /\ tdata' = haddr + frame.len
      BY <1>2, <1>3, <2>1
    <3>2. /\ mem \in [1..count -> Nat \cup {Damaged}]
          /\ \A i \in 1..count : mem[i] = IF i <= haddr THEN i ELSE Unwritten
      BY <1>3 DEF IInv, Accounts, StoredPrefix
    <3>3. QED
      BY <1>3, <3>1, <3>2, StoreExtends
  <2>3. Accounts'
    BY <2>1, <2>2 DEF IInv, Accounts, TargetData, host
  <2>4. StoredPrefix'
    BY <2>2 DEF StoredPrefix, TargetData
  <2>5. DataRead'
    BY <1>1, <1>2, <1>3, <1>4, <2>1 DEF BodySent, DataRead, TargetData, host, Level
  <2>6. QED
    BY <2>3, <2>4, <2>5 DEF IInv, Phase
<1>5. CASE ttype = "C"
  <2>1. mem' = mem /\ tdata' = tdata /\ tmp' = Head(toTarget)
    BY <1>5 DEF TargetData
  <2>2. Accounts'
    BY <1>3, <2>1 DEF IInv, Accounts, TargetData, host
  <2>3. StoredPrefix'
    BY <2>1 DEF IInv, StoredPrefix, TargetData
  <2>4. DataRead'
    BY <1>1, <1>2, <1>3, <1>5, <2>1 DEF BodySent, DataRead, TargetData, host, Level
  <2>5. QED
    BY <2>2, <2>3, <2>4 DEF IInv, Phase
<1>6. QED
  BY <1>3, <1>4, <1>5

LEMMA TargetSumOK == ASSUME SendAssumption, IInv, TargetSum PROVE IInv'
<1>1. DataRead
  BY DEF IInv, Phase, Idle, HeaderSent, TypeRead, SizeRead, BodySent, DataRead, Answered,
         TargetSum, TargetTop
<1>2. toTarget' = <<>> /\ toHost = <<>>
  BY <1>1, OneItem DEF DataRead, TargetSum
<1>3. /\ frame.len \in 1..hsize /\ hsize \in Nat /\ haddr \in Nat
      /\ count \in Nat /\ ttotal = hsize
      /\ frame.type \in {"U", "C"} /\ ttype = frame.type
      /\ frame.type = "U" => tsize = frame.len
  BY <1>1 DEF IInv, Accounts, DataRead, SendAssumption
<1>4. SubU(ttotal, frame.len, Wrap) = hsize - frame.len
  BY <1>3, NoWrap
<1>5. /\ toHost' = <<Byte("G")>>
      /\ ttotal' = hsize - frame.len
      /\ tdata' = haddr + frame.len
      /\ mem' \in [1..count -> Nat \cup {Damaged}]
      /\ \A i \in 1..count : mem'[i] = IF i <= tdata' THEN i ELSE Unwritten
  <2>1. CASE ttype = "U"
    BY <1>1, <1>2, <1>3, <1>4, <2>1, OneItem
    DEF IInv, Accounts, StoredPrefix, DataRead, TargetSum
  <2>2. CASE ttype = "C"
    <3>1. tmp = Payload(haddr, frame.len, frame.wire) /\ tdata = haddr
      BY <1>1, <2>2 DEF DataRead
    <3>2. tmp.ok /\ tmp.len = frame.len
      BY <3>1 DEF Payload
    <3>3. Decompress(tmp, MaxGarbage) = {[ok |-> TRUE, out |-> tmp]}
      BY <3>2 DEF Decompress
    <3>4. /\ toHost' = Append(toHost, Byte("G"))
          /\ mem' = Store(mem, tdata, tmp)
          /\ ttotal' = SubU(ttotal, tmp.len, Wrap)
          /\ tdata' = tdata + tmp.len
      BY <2>2, <3>3 DEF TargetSum
    <3>5. /\ mem' = Store(mem, haddr, Payload(haddr, frame.len, frame.wire))
          /\ tdata' = haddr + frame.len
          /\ mem \in [1..count -> Nat \cup {Damaged}]
          /\ \A i \in 1..count : mem[i] = IF i <= haddr THEN i ELSE Unwritten
          /\ frame.len \in Nat
      BY <1>3, <3>1, <3>2, <3>4 DEF IInv, Accounts, StoredPrefix
    <3>6. /\ mem' \in [1..count -> Nat \cup {Damaged}]
          /\ \A i \in 1..count : mem'[i] = IF i <= tdata' THEN i ELSE Unwritten
      BY <1>3, <3>5, StoreExtends
    <3>7. QED
      BY <1>2, <1>4, <3>2, <3>4, <3>5, <3>6, OneItem
  <2>3. QED
    BY <1>3, <2>1, <2>2
<1>6. Accounts'
  BY <1>5 DEF IInv, Accounts, TargetSum, host
<1>7. StoredPrefix'
  BY <1>5 DEF StoredPrefix, TargetSum
<1>8. Answered'
  BY <1>1, <1>2, <1>3, <1>5 DEF DataRead, Answered, Ahead, TargetSum, host
<1>9. QED
  BY <1>6, <1>7, <1>8 DEF IInv, Phase

(* Noise changes one item on the line to the host: while it waits for the  *)
(* echo, or for the answer to an uncompressed block.                       *)
LEMMA NoiseOK == ASSUME SendAssumption, IInv, Noise PROVE IInv'
<1>1. UNCHANGED <<count, host, target, toTarget>>
  BY DEF Noise
<1>2. PICK i \in DOMAIN toHost :
          \/ /\ IsWord(toHost[i])
             /\ \E n \in {0, frame.wire + 1} : toHost' = [toHost EXCEPT ![i] = Word(n)]
          \/ /\ IsReply(toHost[i])
             /\ frame.type = "U"
             /\ toHost' = [toHost EXCEPT ![i] = Byte("B")]
  BY DEF Noise
<1>3. Accounts' /\ StoredPrefix'
  BY <1>1 DEF IInv, Accounts, StoredPrefix, host, target
<1>4. toHost # <<>> /\ (SizeRead \/ Answered)
  BY <1>2 DEF IInv, Phase, Idle, HeaderSent, TypeRead, SizeRead, BodySent, DataRead, Answered
<1>5. frame.wire + 1 \in Nat
  BY DEF IInv, Accounts, SendAssumption
<1>6. CASE SizeRead
  <2>1. PICK n \in Nat : toHost = <<Word(n)>>
    BY <1>6 DEF SizeRead
  <2>2. i = 1 /\ ~IsReply(toHost[i])
    BY <1>2, <2>1 DEF IsReply, Word
  <2>3. \E m \in Nat : toHost' = <<Word(m)>>
    BY <1>2, <1>5, <2>1, <2>2
  <2>4. SizeRead'
    BY <1>1, <1>6, <2>3 DEF SizeRead, Level, host, target
  <2>5. QED
    BY <1>3, <2>4 DEF IInv, Phase
<1>7. CASE Answered
  <2>1. PICK reply \in {"G", "B"} : toHost = <<Byte(reply)>>
    BY <1>7 DEF Answered
  <2>2. i = 1 /\ ~IsWord(toHost[i])
    BY <1>2, <2>1 DEF IsWord, Byte
  <2>3. toHost' = <<Byte("B")>> /\ frame.type = "U"
    BY <1>2, <2>1, <2>2
  <2>4. \E r \in {"G", "B"} : toHost' = <<Byte(r)>> /\ (r = "B" => frame'.type = "U")
    BY <1>1, <2>3 DEF host
  <2>5. Answered'
    BY <1>1, <1>7, <2>4 DEF Answered, Ahead, host, target
  <2>6. QED
    BY <1>3, <2>5 DEF IInv, Phase
<1>8. QED
  BY <1>4, <1>6, <1>7
-----------------------------------------------------------------------------
(* What follows from the lockstep in every state.                          *)

LEMMA Numbers ==
    ASSUME SendAssumption, IInv
    PROVE  /\ count \in 0 .. (Wrap - 1)
           /\ hsize \in 0..count /\ haddr \in 0..count /\ hsize + haddr = count
           /\ frame.len \in Nat /\ frame.wire \in Nat
           /\ hpc \in {"echo", "ack"} => frame.len \in 1..hsize /\ frame.type \in {"U", "C"}
  BY DEF IInv, Accounts, SendAssumption

LEMMA IInvTypeOK == ASSUME SendAssumption, IInv PROVE TypeOK
<1> DEFINE Pcs == /\ hpc \in {"header", "echo", "ack", "done", "overrun"}
                  /\ tpc \in {"type", "size", "data", "sum", "done"}
           Totals == ttotal \in 0 .. (Wrap - 1) /\ tdata \in Nat
           Lines == toTarget \in Seq(Item) /\ toHost \in Seq(Item)
<1> SUFFICES Pcs /\ Totals /\ Lines
  BY Numbers DEF IInv, Accounts, TypeOK
<1>1. /\ Byte("sum") \in Item /\ Byte("G") \in Item /\ Byte("B") \in Item
      /\ Payload(haddr, frame.len, frame.wire) \in Item
      /\ \A n \in Nat : Word(n) \in Item
      /\ hpc \in {"echo", "ack"} => Byte(frame.type) \in Item
  BY Numbers DEF Byte, Payload, Word, Item, PayloadItem
<1>2. CASE Idle
  BY <1>2, Numbers DEF Idle, Level, TargetTop
<1>3. CASE HeaderSent
  BY <1>1, <1>3, Numbers DEF HeaderSent, Level
<1>4. CASE TypeRead
  BY <1>1, <1>4, Numbers DEF TypeRead, Level
<1>5. CASE SizeRead
  BY <1>1, <1>5, Numbers DEF SizeRead, Level
<1>6. CASE BodySent
  BY <1>1, <1>6, Numbers DEF BodySent, Level, Body
<1>7. CASE DataRead
  <2>1. Pcs /\ Lines /\ ttotal = hsize
    BY <1>1, <1>7 DEF DataRead
  <2>2. frame.type \in {"U", "C"} /\ ttype = frame.type
    BY <1>7, Numbers DEF DataRead
  <2>3. tdata = haddr \/ tdata = haddr + frame.len
    BY <1>7, <2>2 DEF DataRead
  <2>4. QED
    BY <2>1, <2>3, Numbers
<1>8. CASE Answered
  <2>1. Pcs /\ Lines
    BY <1>1, <1>8 DEF Answered, TargetTop
  <2>2. Totals
    BY <1>8, Numbers DEF Answered, Ahead
  <2>3. QED
    BY <2>1, <2>2
<1>9. QED
  BY <1>2, <1>3, <1>4, <1>5, <1>6, <1>7, <1>8 DEF IInv, Phase

LEMMA IInvAligned == ASSUME SendAssumption, IInv PROVE Aligned
<1>1. /\ hpc \in {"echo", "ack"} => IsType(Byte(frame.type))
      /\ \A n : IsWord(Word(n))
      /\ IsPayload(Payload(haddr, frame.len, frame.wire), frame.wire)
      /\ IsSum(Byte("sum"))
      /\ IsReply(Byte("G")) /\ IsReply(Byte("B"))
  BY Numbers DEF IsType, IsWord, IsPayload, IsSum, IsReply, Byte, Word, Payload
<1>2. CASE Idle
  BY <1>2 DEF Idle, Aligned
<1>3. CASE HeaderSent
  BY <1>1, <1>3, TwoItems DEF HeaderSent, Aligned
<1>4. CASE TypeRead
  BY <1>1, <1>4, OneItem DEF TypeRead, Aligned
<1>5. CASE SizeRead
  BY <1>1, <1>5, OneItem DEF SizeRead, Aligned
<1>6. CASE BodySent
  BY <1>1, <1>6, TwoItems DEF BodySent, Body, Aligned
<1>7. CASE DataRead
  BY <1>1, <1>7, OneItem DEF DataRead, Aligned
<1>8. CASE Answered
  BY <1>1, <1>8, OneItem DEF Answered, Aligned
<1>9. QED
  BY <1>2, <1>3, <1>4, <1>5, <1>6, <1>7, <1>8 DEF IInv, Phase

LEMMA IInvBookkeeping == ASSUME SendAssumption, IInv PROVE Bookkeeping
<1>1. CASE Idle
  BY <1>1, Numbers DEF Idle, Level, TargetTop, Bookkeeping, IInv, Accounts
<1>2. CASE HeaderSent \/ TypeRead \/ SizeRead \/ BodySent
  BY <1>2, Numbers DEF HeaderSent, TypeRead, SizeRead, BodySent, Level, Bookkeeping
<1>3. CASE DataRead
  <2>1. ttype = "U" => tdata = haddr + frame.len /\ tsize = frame.len
    BY <1>3 DEF DataRead, IInv, Accounts
  <2>2. ttype = "C" => tdata = haddr
    BY <1>3 DEF DataRead
  <2>3. ttype \in {"U", "C"} /\ ttotal = hsize /\ tpc = "sum" /\ hpc = "ack"
    BY <1>3, Numbers DEF DataRead
  <2>4. CASE ttype = "U"
    BY <2>1, <2>3, <2>4, Numbers DEF Bookkeeping
  <2>5. CASE ttype = "C"
    BY <2>2, <2>3, <2>5, Numbers DEF Bookkeeping
  <2>6. QED
    BY <2>3, <2>4, <2>5
<1>4. CASE Answered
  <2>1. /\ hpc = "ack" /\ tpc # "sum"
        /\ tdata = haddr + frame.len /\ ttotal = hsize - frame.len
        /\ frame.len \in 1..hsize
    BY <1>4, Numbers DEF Answered, Ahead, TargetTop
  <2>2. QED
    BY <2>1, Numbers DEF Bookkeeping
<1>5. QED
  BY <1>1, <1>2, <1>3, <1>4 DEF IInv, Phase

LEMMA IInvPayloadAwaited == ASSUME SendAssumption, IInv PROVE PayloadAwaited
<1>1. /\ Byte(frame.type).kind = "byte" /\ Word(frame.wire).kind = "word"
      /\ Byte("sum").kind = "byte"
  BY DEF Byte, Word
<1>2. CASE BodySent
  <2>1. toTarget = <<Payload(haddr, frame.len, frame.wire), Byte("sum")>> /\ tpc = "data"
    BY <1>2 DEF BodySent, Body
  <2>2. QED
    BY <1>1, <2>1 DEF PayloadAwaited
<1>3. CASE HeaderSent
  BY <1>1, <1>3 DEF HeaderSent, PayloadAwaited
<1>4. CASE TypeRead
  BY <1>1, <1>4 DEF TypeRead, PayloadAwaited
<1>5. CASE DataRead
  BY <1>1, <1>5 DEF DataRead, PayloadAwaited
<1>6. CASE Idle \/ SizeRead \/ Answered
  BY <1>6 DEF Idle, SizeRead, Answered, PayloadAwaited
<1>7. QED
  BY <1>2, <1>3, <1>4, <1>5, <1>6 DEF IInv, Phase

LEMMA IInvTargetFits == ASSUME SendAssumption, IInv PROVE TargetFits
<1>1. tpc = "data" => SizeRead \/ BodySent
  BY DEF IInv, Phase, Idle, HeaderSent, TypeRead, SizeRead, BodySent, DataRead, Answered,
         TargetTop
<1>2. tpc = "sum" => DataRead
  BY DEF IInv, Phase, Idle, HeaderSent, TypeRead, SizeRead, BodySent, DataRead, Answered,
         TargetTop
<1>3. frame.wire <= BufSize
  <2>1. frame.wire \in 0..Chunk /\ Chunk \in Nat
    BY DEF IInv, Accounts, SendAssumption
  <2>2. Chunk \div 64 \in Nat
    BY <2>1
  <2>3. QED
    BY <2>1, <2>2 DEF SendAssumption
<1>4. ASSUME tpc = "data" PROVE tsize <= IF ttype = "C" THEN BufSize ELSE count - tdata
  <2>1. /\ ttype = frame.type /\ tsize = frame.wire /\ tdata = haddr
        /\ hpc \in {"echo", "ack"}
    BY <1>1, <1>4 DEF SizeRead, BodySent, Level
  <2>2. CASE ttype = "C"
    BY <1>3, <2>1, <2>2
  <2>3. CASE ttype # "C"
    <3>1. frame.wire = frame.len
      BY <2>1, <2>3 DEF IInv, Accounts
    <3>2. /\ hsize \in Nat /\ haddr \in Nat /\ frame.len \in 1..hsize
          /\ hsize + haddr = count
      BY <2>1 DEF IInv, Accounts
    <3>3. QED
      BY <2>1, <2>3, <3>1, <3>2
  <2>4. QED
    BY <2>2, <2>3
<1>5. tpc = "sum" /\ ttype = "C" => tdata + tmp.len <= count
  <2>1. SUFFICES ASSUME tpc = "sum", ttype = "C" PROVE tdata + tmp.len <= count
    OBVIOUS
  <2>2. tdata = haddr /\ tmp.len = frame.len /\ hpc = "ack"
    BY <1>2, <2>1 DEF DataRead, Payload
  <2>3. QED
    BY <2>2, Numbers
<1>6. QED
  BY <1>4, <1>5 DEF TargetFits
-----------------------------------------------------------------------------
(* The lockstep of the two ends is an invariant.                           *)
THEOREM Lockstep == UnheededSpec => []IInv
<1>1. Init => IInv
  BY InitOK, SendAssumption
<1>2. IInv /\ [Next \/ Noise]_vars => IInv'
  <2>1. SUFFICES ASSUME IInv, [Next \/ Noise]_vars PROVE IInv'
    OBVIOUS
  <2>2. CASE UNCHANGED vars
    BY <2>1, <2>2 DEF IInv, Accounts, StoredPrefix, Phase, Idle, HeaderSent, TypeRead,
       SizeRead, BodySent, DataRead, Answered, Level, Ahead, Body, vars, host, target
  <2>3. CASE Next
    BY <2>1, <2>3, SendAssumption, CallOK, HostHeaderOK, HostEchoOK, HostAckOK,
       TargetTypeOK, TargetSizeOK, TargetDataOK, TargetSumOK DEF Next, Host, Target
  <2>4. CASE Noise
    BY <2>1, <2>4, SendAssumption, NoiseOK
  <2>5. QED
    BY <2>1, <2>2, <2>3, <2>4
<1>3. QED
  BY <1>1, <1>2, PTL DEF UnheededSpec

(* A clean line is one that damages nothing: what is proved below of       *)
(* UnheededSpec holds of Spec.                                             *)
THEOREM CleanLine == Spec => UnheededSpec
<1>1. [Next]_vars => [Next \/ Noise]_vars
  OBVIOUS
<1>2. QED
  BY <1>1, PTL DEF Spec, UnheededSpec

(* The variables and the lines keep their types: in particular the         *)
(* target's unsigned total never wraps below zero.                         *)
THEOREM TypeCorrect == UnheededSpec => []TypeOK
  BY Lockstep, IInvTypeOK, SendAssumption, PTL

(* Host and target never misread each other, whatever is sent.             *)
THEOREM FramingKept == UnheededSpec => []Aligned
  BY Lockstep, IInvAligned, SendAssumption, PTL

(* The target's memory is always a prefix of the source.                   *)
THEOREM PrefixStored == UnheededSpec => []StoredPrefix
<1>1. IInv => StoredPrefix
  BY DEF IInv
<1>2. QED
  BY <1>1, Lockstep, PTL

(* When send_data returns the target has everything.                       *)
THEOREM BooksBalance == UnheededSpec => []Bookkeeping
  BY Lockstep, IInvBookkeeping, SendAssumption, PTL

(* Thousands of bytes come in only while the target reads them.            *)
THEOREM NoPayloadUnawaited == UnheededSpec => []PayloadAwaited
  BY Lockstep, IInvPayloadAwaited, SendAssumption, PTL

(* The target takes no payload that is larger than its buffer or than what *)
(* is left of the area it loads to, although it compares neither.          *)
THEOREM TargetNotOverrun == UnheededSpec => []TargetFits
  BY Lockstep, IInvTargetFits, SendAssumption, PTL
-----------------------------------------------------------------------------
(* Every step of the two ends is a step of Transfer or leaves it alone:    *)
(* storing a block delivers it, the last answer finishes.                  *)
LEMMA InitRefines == Init => T!Init
  BY DEF Init, T!Init

LEMMA CallRefines == Call => T!Call
  BY DEF Call, T!Call, HostTop, Unwritten

LEMMA HostRefines ==
    ASSUME SendAssumption, IInv, Host
    PROVE  T!Finish \/ UNCHANGED T!vars
<1>1. CASE HostHeader
  BY <1>1 DEF HostHeader, T!vars, target
<1>2. CASE HostEcho
  BY <1>2 DEF HostEcho, T!vars, target
<1>3. CASE HostAck
  <2>1. Answered
    BY <1>3 DEF IInv, Phase, Idle, HeaderSent, TypeRead, SizeRead, BodySent, DataRead,
                Answered, HostAck
  <2>2. ~Resend(Head(toHost))
    BY <2>1, NotResent
  <2>3. /\ hpc = "ack"
        /\ hsize' = hsize - frame.len
        /\ hpc' = HostTop(hsize')
        /\ UNCHANGED <<count, tdata, mem>>
    BY <1>3, <2>2 DEF HostAck, target
  <2>4. CASE hsize' = 0
    <3>1. tdata = count
      BY <2>1, <2>3, <2>4, Numbers DEF Answered, Ahead
    <3>2. hpc' = "done"
      BY <2>3, <2>4 DEF HostTop
    <3>3. QED
      BY <2>3, <3>1, <3>2 DEF T!Finish
  <2>5. CASE hsize' # 0
    BY <2>3, <2>5 DEF HostTop, T!vars
  <2>6. QED
    BY <2>4, <2>5
<1>4. QED
  BY <1>1, <1>2, <1>3 DEF Host

(* Storing a block of len bytes at the first free place delivers them.     *)
LEMMA StoreDelivers ==
    ASSUME NEW len \in 1..Chunk, hpc # "done", hpc' = hpc, count' = count,
           count \in Nat, tdata \in Nat, Chunk \in Nat,
           tdata + len <= count, tdata' = tdata + len, NEW wire,
           mem \in [1..count -> Nat \cup {Damaged}],
           mem' = Store(mem, tdata, Payload(tdata, len, wire))
    PROVE  T!Deliver
<1>1. mem' = [i \in 1..count |-> IF tdata < i /\ i <= tdata + len THEN i ELSE mem[i]]
  BY DEF Store, Payload
<1>2. QED
  BY <1>1 DEF T!Deliver

LEMMA TargetRefines ==
    ASSUME SendAssumption, IInv, Target
    PROVE  T!Deliver \/ UNCHANGED T!vars
<1>1. CASE TargetType
  BY <1>1 DEF TargetType, T!vars, host
<1>2. CASE TargetSize
  BY <1>2 DEF TargetSize, T!vars, host
<1>3. CASE TargetData
  <2>1. BodySent
    BY <1>3 DEF IInv, Phase, Idle, HeaderSent, TypeRead, SizeRead, BodySent, DataRead,
                Answered, TargetData, TargetTop
  <2>2. Head(toTarget) = Payload(haddr, frame.len, frame.wire)
    BY <2>1, TwoItems DEF BodySent, Body
  <2>3. /\ hpc = "ack" /\ tdata = haddr /\ frame.len \in 1..hsize
        /\ frame.len \in 1..Chunk /\ Chunk \in Nat
        /\ mem \in [1..count -> Nat \cup {Damaged}]
        /\ UNCHANGED <<hpc, count>>
    BY <1>3, <2>1, Numbers
    DEF BodySent, Level, TargetData, host, IInv, Accounts, SendAssumption
  <2>4. CASE ttype = "U"
    <3>1. /\ mem' = Store(mem, tdata, Payload(tdata, frame.len, frame.wire))
          /\ tdata' = tdata + frame.len
      <4>1. Head(toTarget).len = frame.len
        BY <2>2 DEF Payload
      <4>2. mem' = Store(mem, tdata, Head(toTarget)) /\ tdata' = tdata + Head(toTarget).len
        BY <1>3, <2>4 DEF TargetData
      <4>3. QED
        BY <2>2, <2>3, <4>1, <4>2
    <3>2. tdata \in Nat /\ count \in Nat /\ tdata + frame.len <= count
      BY <2>3, Numbers
    <3>3. QED
      BY <2>3, <3>1, <3>2, StoreDelivers
  <2>5. CASE ttype # "U"
    BY <1>3, <2>3, <2>5 DEF TargetData, T!vars
  <2>6. QED
    BY <2>4, <2>5
<1>4. CASE TargetSum
  <2>1. DataRead
    BY <1>4 DEF IInv, Phase, Idle, HeaderSent, TypeRead, SizeRead, BodySent, DataRead,
                Answered, TargetSum, TargetTop
  <2>2. UNCHANGED <<hpc, count>>
    BY <1>4 DEF TargetSum, host
  <2>3. CASE ttype = "U"
    BY <1>4, <2>2, <2>3 DEF TargetSum, T!vars
  <2>4. CASE ttype # "U"
    <3>1. ttype = "C" /\ hpc = "ack"
      BY <2>1, <2>4, Numbers DEF DataRead
    <3>2. tmp = Payload(tdata, frame.len, frame.wire) /\ tdata = haddr
      BY <2>1, <3>1 DEF DataRead
    <3>3. tmp.ok /\ tmp.len = frame.len
      BY <3>2 DEF Payload
    <3>4. Decompress(tmp, MaxGarbage) = {[ok |-> TRUE, out |-> tmp]}
      BY <3>3 DEF Decompress
    <3>5. /\ mem' = Store(mem, tdata, Payload(tdata, frame.len, frame.wire))
          /\ tdata' = tdata + frame.len
      BY <1>4, <2>4, <3>2, <3>3, <3>4 DEF TargetSum
    <3>6. /\ frame.len \in 1..Chunk /\ Chunk \in Nat
          /\ mem \in [1..count -> Nat \cup {Damaged}]
      BY <3>1, Numbers DEF IInv, Accounts, SendAssumption
    <3>7. tdata \in Nat /\ count \in Nat /\ tdata + frame.len <= count
      BY <3>1, <3>2, Numbers
    <3>8. QED
      <4>1. hpc # "done" /\ hpc' = hpc /\ count' = count
        BY <2>2, <3>1
      <4>2. QED
        BY <3>5, <3>6, <3>7, <4>1, StoreDelivers
  <2>5. QED
    BY <2>3, <2>4
<1>5. QED
  BY <1>1, <1>2, <1>3, <1>4 DEF Target

(* send_data with load_data_block_general implements Transfer: blocks      *)
(* arrive whole, in order, once, and the end is reached with all of them.  *)
THEOREM SendImplementsTransfer == UnheededSpec => TransferSpec
<1>1. Init => T!Init
  BY InitRefines
<1>2. IInv /\ [Next \/ Noise]_vars => [T!Next]_(T!vars)
  <2>1. SUFFICES ASSUME IInv, [Next \/ Noise]_vars PROVE [T!Next]_(T!vars)
    OBVIOUS
  <2>2. CASE UNCHANGED vars
    BY <2>2 DEF vars, host, target, T!vars
  <2>3. CASE Next
    BY <2>1, <2>3, SendAssumption, CallRefines, HostRefines, TargetRefines
    DEF Next, T!Next
  <2>4. CASE Noise
    BY <2>4 DEF Noise, host, target, T!vars
  <2>5. QED
    BY <2>1, <2>2, <2>3, <2>4
<1>3. QED
  BY <1>1, <1>2, Lockstep, PTL DEF UnheededSpec, TransferSpec, T!Spec
=============================================================================
