---------------------------- MODULE LzoSafeProofs ----------------------------
(***************************************************************************)
(* Proofs about LzoSafe, for every set of streams of bytes, however they   *)
(* came about, and every amount of room.  The first part assumes nothing   *)
(* about what is in a stream: the tests of lzo1x_decompress_safe alone     *)
(* keep it within the stream and the room, although most of its reads have *)
(* no test of their own and rely on one made up to two steps earlier.  The *)
(* second part is about the answer.  It assumes that what came is of a     *)
(* stream that stands for its source, by the format LzoProofs defines and  *)
(* proves lzo1x_1_compress to write.                                       *)
(***************************************************************************)
EXTENDS LzoSafe, WellFoundedInduction, SequenceTheorems, TLAPS

Bytes == 0..255
Errors == {"error", "input overrun", "output overrun", "lookbehind overrun"}

(* The room for what the next step reads untested: two bytes behind the    *)
(* instruction of a match, one more behind a run.                          *)
Within ==
    /\ received \in Received
    /\ dec.pc \in {"start", "run", "first", "few", "match", "ok"} \cup Errors
    /\ dec.ip \in 0 .. Len(received.stream)
    /\ dec.pc = "match" => dec.t \in Bytes /\ dec.ip + 2 <= Len(received.stream)
    /\ dec.pc = "first" => dec.ip + 3 <= Len(received.stream)
    /\ dec.pc = "few" => dec.t \in 1..3
    /\ got \in Seq(Bytes)
    /\ Len(got) <= received.room

(* The registers are three, in whatever state.                             *)
Registers == dec = [pc |-> dec.pc, ip |-> dec.ip, t |-> dec.t]

IInv == Within /\ Registers
-----------------------------------------------------------------------------
(* The operators of the model.                                             *)

LEMMA StreamType == ASSUME received \in Received
                    PROVE  /\ received.stream \in Seq(Bytes)
                           /\ Len(received.stream) \in Nat
                           /\ received.room \in Nat
  BY SafeAssumption DEF Bytes

LEMMA InFacts ==
    ASSUME received \in Received, NEW i \in Int
    PROVE  /\ P!In(i) \in 0..256
           /\ i \in 0 .. Len(received.stream) - 1 => P!In(i) \in Bytes
           /\ P!In(i) \in Bytes => i \in 0 .. Len(received.stream) - 1
<1>1. DOMAIN received.stream = 1 .. Len(received.stream)
  BY StreamType
<1>2. CASE i + 1 \in DOMAIN received.stream
  <2>1. P!In(i) = received.stream[i + 1]
    BY <1>2 DEF P!In
  <2>2. received.stream[i + 1] \in Bytes
    BY <1>1, <1>2, StreamType
  <2>3. QED
    BY <1>1, <1>2, <2>1, <2>2, StreamType DEF Bytes
<1>3. CASE i + 1 \notin DOMAIN received.stream
  <2>1. P!In(i) = 256
    BY <1>3 DEF P!In, P!Stray
  <2>2. QED
    BY <1>1, <1>3, <2>1, StreamType DEF Bytes
<1>4. QED
  BY <1>2, <1>3

LEMMA LeastExists ==
    ASSUME NEW S, S \subseteq Nat, S # {}
    PROVE  \E k \in S : \A j \in S : k <= j
<1>1. PICK k \in S : \A j \in S : <<j, k>> \notin OpToRel(<, Nat)
  BY NatLessThanWellFounded, WFMin
<1>2. \A j \in S : ~(j < k)
  BY <1>1 DEF OpToRel
<1>3. QED
  BY <1>2

(* All tests hold.                                                         *)
LEMMA TwoTests ==
    ASSUME NEW a, NEW b, Failing(<<a, b>>) = {}
    PROVE  a.holds /\ b.holds
  BY DEF Failing

LEMMA ThreeTests ==
    ASSUME NEW a, NEW b, NEW c, Failing(<<a, b, c>>) = {}
    PROVE  a.holds /\ b.holds /\ c.holds
  BY DEF Failing

LEMMA FourTests ==
    ASSUME NEW a, NEW b, NEW c, NEW d, Failing(<<a, b, c, d>>) = {}
    PROVE  a.holds /\ b.holds /\ c.holds /\ d.holds
  BY DEF Failing

(* The zero bytes of a long length end within the stream, if they end.     *)
LEMMA LongFacts ==
    ASSUME received \in Received, NEW ip \in Nat, NEW base \in Nat, ZerosEnd(ip).holds
    PROVE  /\ P!Long(ip, base).t \in Nat
           /\ P!Long(ip, base).ip \in ip .. Len(received.stream)
<1> DEFINE Ends(k) == P!In(ip + k) # 0 /\ \A j \in 0 .. k - 1 : P!In(ip + j) = 0
           N == Len(received.stream)
           zeros == CHOOSE k \in 0..N : Ends(k)
           S == {k \in Nat : P!In(ip + k) # 0}
<1>1. N \in Nat
  BY StreamType
<1>2. PICK j \in ip + 1 .. N : received.stream[j] # 0
  BY DEF ZerosEnd, Test
<1>3. j - 1 - ip \in Nat /\ ip + (j - 1 - ip) = j - 1 /\ j \in 1..N
  BY <1>1, <1>2
<1>4. P!In(j - 1) = received.stream[j]
  BY <1>3, StreamType DEF P!In
<1>5. j - 1 - ip \in S
  BY <1>2, <1>3, <1>4
<1>6. PICK k \in S : \A l \in S : k <= l
  BY <1>5, LeastExists
<1>7. k \in 0..N /\ Ends(k)
  <2>1. k \in Nat /\ k <= j - 1 - ip
    BY <1>5, <1>6
  <2>2. k \in 0..N
    BY <1>1, <1>3, <2>1
  <2>3. ASSUME NEW l \in 0 .. k - 1 PROVE P!In(ip + l) = 0
    <3>1. l \in Nat /\ ~(k <= l)
      BY <2>1
    <3>2. QED
      BY <1>6, <3>1
  <2>4. QED
    BY <1>6, <2>2, <2>3
<1>8. zeros \in 0..N /\ Ends(zeros)
  <2> HIDE DEF Ends
  <2> QED
    BY <1>7
<1>9. zeros <= j - 1 - ip
  <2>1. ASSUME j - 1 - ip < zeros PROVE FALSE
    BY <1>1, <1>2, <1>3, <1>4, <1>8, <2>1
  <2>2. QED
    BY <2>1, <1>1, <1>3, <1>8
<1>10. P!In(ip + zeros) \in 0..256
  <2> HIDE DEF zeros
  <2>1. ip + zeros \in Int
    BY <1>1, <1>8
  <2>2. QED
    BY <2>1, InFacts
<1>11. P!Long(ip, base) = [t |-> 255 * zeros + base + P!In(ip + zeros), ip |-> ip + zeros + 1]
  BY DEF P!Long
<1>12. zeros \in Nat
  BY <1>1, <1>8
<1> HIDE DEF zeros
<1>13. ip + zeros + 1 \in ip .. N
  BY <1>1, <1>2, <1>3, <1>9, <1>12
<1>14. 255 * zeros + base + P!In(ip + zeros) \in Nat
  <2>1. \A a, b \in Nat : \A c \in 0..256 : 255 * a + b + c \in Nat
    OBVIOUS
  <2>2. QED
    BY <1>10, <1>12, <2>1
<1>15. QED
  BY <1>11, <1>13, <1>14

LEMMA LengthFacts ==
    ASSUME received \in Received, NEW ip \in 0 .. Len(received.stream), NEW t \in Nat,
           NEW mask \in {7, 15, 31}, t % (mask + 1) = 0 => ZerosEnd(ip).holds
    PROVE  /\ P!LengthOf(t, mask, ip).t \in Nat
           /\ P!LengthOf(t, mask, ip).ip \in ip .. Len(received.stream)
           /\ t % (mask + 1) # 0 => P!LengthOf(t, mask, ip).ip = ip
<1>1. Len(received.stream) \in Nat /\ ip \in Nat /\ mask \in Nat
  BY StreamType
<1>2. t % (mask + 1) \in Nat
  <2>1. t % 8 \in Nat /\ t % 16 \in Nat /\ t % 32 \in Nat
    OBVIOUS
  <2>2. QED
    BY <2>1
<1>3. CASE t % (mask + 1) = 0
  BY <1>1, <1>3, LongFacts DEF P!LengthOf
<1>4. CASE t % (mask + 1) # 0
  BY <1>1, <1>2, <1>4 DEF P!LengthOf
<1>5. QED
  BY <1>3, <1>4

(* What is copied from the stream are bytes.                               *)
LEMMA LiteralsFacts ==
    ASSUME received \in Received, got \in Seq(Bytes), NEW ip \in Nat, NEW t \in Nat,
           ip + t <= Len(received.stream)
    PROVE  /\ P!CopyLiterals(ip, t) \in Seq(Bytes)
           /\ Len(P!CopyLiterals(ip, t)) = Len(got) + t
<1> DEFINE new == [i \in 1..t |-> P!In(ip + i - 1)]
<1>1. \A i \in 1..t : P!In(ip + i - 1) \in Bytes
  BY StreamType, InFacts
<1>2. new \in Seq(Bytes) /\ Len(new) = t
  BY <1>1
<1>3. P!CopyLiterals(ip, t) = got \o new
  BY DEF P!CopyLiterals
<1> HIDE DEF new
<1>4. QED
  BY <1>2, <1>3, ConcatProperties

(* So is what is copied from before.                                       *)
LEMMA Remainder ==
    ASSUME NEW a \in Nat, NEW off \in Nat, off # 0
    PROVE  a % off \in 0 .. off - 1
  OBVIOUS

LEMMA MatchFacts ==
    ASSUME received \in Received, got \in Seq(Bytes), NEW off \in 1 .. Len(got), NEW t \in Nat
    PROVE  /\ P!CopyMatch(off, t) \in Seq(Bytes)
           /\ Len(P!CopyMatch(off, t)) = Len(got) + t
<1> DEFINE from(i) == Len(got) - off + ((i - 1) % off) + 1
           new == [i \in 1..t |-> IF from(i) \in DOMAIN got THEN got[from(i)] ELSE P!Stray]
<1>1. \A i \in 1..t : from(i) \in 1 .. Len(got)
  <2>1. TAKE i \in 1..t
  <2>2. (i - 1) % off \in 0 .. off - 1
    <3>1. i - 1 \in Nat /\ off \in Nat /\ off # 0
      OBVIOUS
    <3>2. QED
      BY <3>1, Remainder
  <2>3. QED
    BY <2>2
<1>2. \A i \in 1..t : new[i] \in Bytes
  BY <1>1
<1>3. new \in Seq(Bytes) /\ Len(new) = t
  <2>1. new \in [1..t -> Bytes]
    BY <1>2
  <2>2. QED
    BY <2>1
<1>4. P!CopyMatch(off, t) = got \o new
  BY DEF P!CopyMatch
<1> HIDE DEF new
<1>5. QED
  BY <1>3, <1>4, ConcatProperties
-----------------------------------------------------------------------------
(* The steps, by what they do to the registers and to what is written.     *)

LEMMA StepKeeps ==
    ASSUME IInv, received' = received, NEW p, NEW i, NEW t,
           dec' = [pc |-> p, ip |-> i, t |-> t],
           p \in {"start", "run", "first", "few", "match", "ok"} \cup Errors,
           i \in 0 .. Len(received.stream),
           p = "match" => t \in Bytes /\ i + 2 <= Len(received.stream),
           p = "first" => i + 3 <= Len(received.stream),
           p = "few" => t \in 1..3,
           got' \in Seq(Bytes), Len(got') <= received.room
    PROVE  IInv'
  BY DEF IInv, Within, Registers

LEMMA StoppedKeeps ==
    ASSUME IInv, NEW tests, Stopped(tests), \A n \in DOMAIN tests : tests[n].error \in Errors
    PROVE  IInv'
<1>1. PICK n \in DOMAIN tests : dec' = [dec EXCEPT !.pc = tests[n].error]
  BY DEF Stopped, Failing
<1>2. dec' = [pc |-> tests[n].error, ip |-> dec.ip, t |-> dec.t]
  BY <1>1 DEF IInv, Registers
<1>3. received' = received /\ got' = got
  BY DEF Stopped
<1>4. tests[n].error \in Errors
  BY <1>1
<1>5. QED
  BY <1>2, <1>3, <1>4, StepKeeps DEF IInv, Within, Errors

LEMMA NoError ==
    ASSUME NEW a, NEW b, a.error \in Errors, b.error \in Errors
    PROVE  /\ \A n \in DOMAIN <<a, b>> : <<a, b>>[n].error \in Errors
           /\ \A c : c.error \in Errors =>
                 \A n \in DOMAIN <<a, b, c>> : <<a, b, c>>[n].error \in Errors
           /\ \A c, d : c.error \in Errors /\ d.error \in Errors =>
                 \A n \in DOMAIN <<a, b, c, d>> : <<a, b, c, d>>[n].error \in Errors
<1> HIDE DEF Errors
<1> QED
  OBVIOUS

LEMMA ErrorsOfTests ==
    /\ \A ip, n : NeedIp(ip, n).error \in Errors
    /\ \A n : NeedOp(n).error \in Errors
    /\ \A off : TestLb(off).error \in Errors
    /\ \A ip : ZerosEnd(ip).error \in Errors
    /\ \A c, test : test.error \in Errors => Only(c, test).error \in Errors
  BY DEF NeedIp, NeedOp, TestLb, ZerosEnd, Only, Test, Errors

(* match_done: the low bits of a byte, or of what is no byte, count to 3.  *)
LEMMA AfterMatchKeeps ==
    ASSUME IInv, received' = received, NEW ip \in 0 .. Len(received.stream), P!AfterMatch(ip),
           got' \in Seq(Bytes), Len(got') <= received.room
    PROVE  IInv'
<1> DEFINE t == P!In(ip - 2) % 4
<1>1. P!In(ip - 2) \in 0..256
  BY StreamType, InFacts DEF IInv, Within
<1>2. t \in 0..3
  <2>1. \A n \in 0..256 : n % 4 \in 0..3
    OBVIOUS
  <2>2. QED
    BY <1>1, <2>1
<1>3. dec' = [pc |-> IF t = 0 THEN "run" ELSE "few", ip |-> ip, t |-> t]
  BY DEF P!AfterMatch
<1> HIDE DEF t
<1>4. CASE t = 0
  BY <1>3, <1>4, StepKeeps
<1>5. CASE t # 0
  <2>1. t \in 1..3
    BY <1>2, <1>5
  <2>2. dec' = [pc |-> "few", ip |-> ip, t |-> t]
    BY <1>3, <1>5
  <2>3. QED
    BY <2>1, <2>2, StepKeeps
<1>6. QED
  BY <1>4, <1>5

LEMMA StartKeeps == ASSUME IInv, SafeStart PROVE IInv'
<1> DEFINE t == P!In(0) - 17
           a == NeedIp(0, 1)
           b == Only(t >= 4, NeedOp(t))
           c == Only(t >= 4, NeedIp(1, t + 3))
<1>1. received \in Received /\ Len(received.stream) \in Nat /\ received.room \in Nat
  BY StreamType DEF IInv, Within
<1>2. CASE Stopped(<<a, b, c>>)
  BY <1>2, StoppedKeeps, NoError, ErrorsOfTests
<1>3. CASE Failing(<<a, b, c>>) = {} /\ received' = received /\ P!Start
  <2>1. a.holds /\ b.holds /\ c.holds
    <3> HIDE DEF a, b, c
    <3> QED
      BY <1>3, ThreeTests
  <2>2. Len(received.stream) - 0 >= 1
    BY <2>1 DEF NeedIp, Test
  <2>3. P!In(0) \in Bytes /\ t \in Int
    <3>1. 0 \in 0 .. Len(received.stream) - 1
      BY <1>1, <2>2
    <3>2. P!In(0) \in Bytes
      BY <1>1, <3>1, InFacts
    <3>3. QED
      BY <3>2 DEF Bytes
  <2>4. CASE t <= 0
    <3>1. dec' = [pc |-> "run", ip |-> dec.ip, t |-> dec.t] /\ got' = got
      BY <1>3, <2>4 DEF P!Start, IInv, Registers
    <3>2. QED
      BY <1>3, <3>1, StepKeeps DEF IInv, Within
  <2>5. CASE t > 0 /\ t < 4
    <3>1. dec' = [pc |-> "few", ip |-> 1, t |-> t] /\ got' = got
      BY <1>3, <2>3, <2>5 DEF P!Start
    <3> HIDE DEF t
    <3>2. t \in 1..3 /\ 1 \in 0 .. Len(received.stream)
      BY <1>1, <2>2, <2>3, <2>5
    <3>3. QED
      BY <1>3, <3>1, <3>2, StepKeeps DEF IInv, Within
  <2>6. CASE t >= 4
    <3>1. dec' = [pc |-> "first", ip |-> 1 + t, t |-> 0] /\ got' = P!CopyLiterals(1, t)
      BY <1>3, <2>3, <2>6 DEF P!Start
    <3>2. received.room - Len(got) >= t /\ Len(received.stream) - 1 >= t + 3
      BY <2>1, <2>6 DEF Only, NeedOp, NeedIp, Test
    <3>3. t \in Nat
      BY <2>3, <2>6
    <3> HIDE DEF t
    <3>4. got' \in Seq(Bytes) /\ Len(got') = Len(got) + t
      BY <1>1, <3>1, <3>2, <3>3, LiteralsFacts DEF IInv, Within
    <3>5. Len(got') <= received.room /\ 1 + t \in 0 .. Len(received.stream)
          /\ (1 + t) + 3 <= Len(received.stream)
      <4>1. Len(got) \in Nat
        BY DEF IInv, Within
      <4>2. QED
        BY <1>1, <3>2, <3>3, <3>4, <4>1
    <3>6. QED
      BY <1>3, <3>1, <3>4, <3>5, StepKeeps
  <2>7. QED
    BY <2>3, <2>4, <2>5, <2>6
<1>4. QED
  BY <1>2, <1>3 DEF SafeStart, Guarded
(* What there was room for is within the room.                             *)
LEMMA RoomFor ==
    ASSUME NEW room \in Nat, NEW had \in Nat, NEW n \in Nat, NEW has,
           room - had >= n, has = had + n
    PROVE  has <= room
  OBVIOUS

(* Behind t literals from i on, a byte of an instruction and two more; and *)
(* behind a run, whose length is three more than t.                        *)
LEMMA Behind ==
    ASSUME NEW n \in Nat, NEW i \in Nat, NEW t \in Nat
    PROVE  /\ n - i >= t + 3 => i + t + 1 \in 0..n /\ (i + t + 1) + 2 <= n
           /\ n - i >= t + 6 => i + t + 3 \in 0..n /\ (i + t + 3) + 3 <= n
  OBVIOUS

(* The registers and the room as numbers.                                  *)
LEMMA Numbers ==
    ASSUME IInv
    PROVE  /\ Len(received.stream) \in Nat
           /\ received.room \in Nat
           /\ dec.ip \in Nat
           /\ Len(got) \in Nat
  BY StreamType DEF IInv, Within

LEMMA RunKeeps == ASSUME IInv, SafeRun PROVE IInv'
<1> DEFINE b == P!In(dec.ip)
           run == P!LengthOf(b, 15, dec.ip + 1)
           t1 == NeedIp(dec.ip, 3)
           t2 == Only(b = 0, ZerosEnd(dec.ip + 1))
           t3 == Only(b < 16, NeedOp(run.t + 3))
           t4 == Only(b < 16, NeedIp(run.ip, run.t + 6))
<1>1. /\ received \in Received /\ Len(received.stream) \in Nat /\ received.room \in Nat
      /\ dec.ip \in Nat /\ Len(got) \in Nat
  BY StreamType DEF IInv, Within
<1>2. CASE Stopped(<<t1, t2, t3, t4>>)
  BY <1>2, StoppedKeeps, NoError, ErrorsOfTests
<1>3. CASE Failing(<<t1, t2, t3, t4>>) = {} /\ received' = received /\ P!Run
  <2>1. t1.holds /\ t2.holds /\ t3.holds /\ t4.holds
    <3> HIDE DEF t1, t2, t3, t4
    <3> QED
      BY <1>3, FourTests
  <2>2. Len(received.stream) - dec.ip >= 3
    BY <2>1 DEF NeedIp, Test
  <2>3. b \in Bytes /\ b \in Nat
    <3>1. dec.ip \in 0 .. Len(received.stream) - 1
      BY <1>1, <2>2
    <3>2. b \in Bytes
      BY <1>1, <3>1, InFacts
    <3>3. QED
      BY <3>2 DEF Bytes
  <2>4. CASE b >= 16
    <3>1. dec' = [pc |-> "match", ip |-> dec.ip + 1, t |-> b] /\ got' = got
      BY <1>3, <2>4 DEF P!Run
    <3>2. dec.ip + 1 \in 0 .. Len(received.stream) /\ (dec.ip + 1) + 2 <= Len(received.stream)
      BY <1>1, <2>2
    <3> HIDE DEF b
    <3>3. QED
      BY <1>3, <2>3, <3>1, <3>2, StepKeeps DEF IInv, Within
  <2>5. CASE b < 16
    <3>1. /\ dec' = [pc |-> "first", ip |-> run.ip + run.t + 3, t |-> 0]
          /\ got' = P!CopyLiterals(run.ip, run.t + 3)
      BY <1>3, <2>3, <2>5 DEF P!Run
    <3>2. /\ received.room - Len(got) >= run.t + 3
          /\ Len(received.stream) - run.ip >= run.t + 6
      BY <2>1, <2>5 DEF Only, NeedOp, NeedIp, Test
    <3>3. run.t \in Nat /\ run.ip \in Nat
      <4>1. b = 0 => ZerosEnd(dec.ip + 1).holds
        BY <2>1 DEF Only, Test
      <4> HIDE DEF b
      <4>2. dec.ip + 1 \in 0 .. Len(received.stream)
        BY <1>1, <2>2
      <4>3. b % 16 = b
        BY <2>3, <2>5
      <4>4. b % (15 + 1) = 0 => ZerosEnd(dec.ip + 1).holds
        BY <4>1, <4>3
      <4>5. /\ P!LengthOf(b, 15, dec.ip + 1).t \in Nat
            /\ P!LengthOf(b, 15, dec.ip + 1).ip \in dec.ip + 1 .. Len(received.stream)
        BY <1>1, <2>3, <4>2, <4>4, LengthFacts
      <4>6. QED
        BY <1>1, <4>5
    <3> HIDE DEF run
    <3>4. run.ip + (run.t + 3) <= Len(received.stream) /\ run.t + 3 \in Nat
      BY <3>2, <3>3, Numbers
    <3>5. got' \in Seq(Bytes) /\ Len(got') = Len(got) + (run.t + 3)
      BY <1>1, <3>1, <3>3, <3>4, LiteralsFacts DEF IInv, Within
    <3>6. /\ run.ip + run.t + 3 \in 0 .. Len(received.stream)
          /\ (run.ip + run.t + 3) + 3 <= Len(received.stream)
      BY <3>2, <3>3, Numbers, Behind
    <3>7. Len(got') <= received.room
      BY <3>2, <3>4, <3>5, Numbers, RoomFor
    <3>8. QED
      BY <1>3, <3>1, <3>5, <3>6, <3>7, StepKeeps
  <2>6. QED
    BY <2>3, <2>4, <2>5
<1>4. QED
  BY <1>2, <1>3 DEF SafeRun, Guarded

LEMMA AfterRunKeeps == ASSUME IInv, SafeAfterRun PROVE IInv'
<1> DEFINE b == P!In(dec.ip)
           off == 1 + P!M2MaxOffset + b \div 4 + P!In(dec.ip + 1) * 4
           t1 == Only(b < 16, TestLb(off))
           t2 == Only(b < 16, NeedOp(3))
<1>1. /\ received \in Received /\ Len(received.stream) \in Nat /\ received.room \in Nat
      /\ dec.ip \in Nat /\ Len(got) \in Nat /\ got \in Seq(Bytes)
  BY StreamType DEF IInv, Within
<1>2. dec.ip + 3 <= Len(received.stream)
  BY DEF SafeAfterRun, Now, IInv, Within
<1>3. b \in Bytes /\ b \in Nat
  <2>1. dec.ip \in 0 .. Len(received.stream) - 1
    BY <1>1, <1>2
  <2>2. b \in Bytes
    BY <1>1, <2>1, InFacts
  <2>3. QED
    BY <2>2 DEF Bytes
<1>4. CASE Stopped(<<t1, t2>>)
  BY <1>4, StoppedKeeps, NoError, ErrorsOfTests
<1>5. CASE Failing(<<t1, t2>>) = {} /\ received' = received /\ P!AfterRun
  <2>1. t1.holds /\ t2.holds
    <3> HIDE DEF t1, t2
    <3> QED
      BY <1>5, TwoTests
  <2>2. CASE b >= 16
    <3>1. dec' = [pc |-> "match", ip |-> dec.ip + 1, t |-> b] /\ got' = got
      BY <1>5, <2>2 DEF P!AfterRun
    <3>2. dec.ip + 1 \in 0 .. Len(received.stream) /\ (dec.ip + 1) + 2 <= Len(received.stream)
      BY <1>1, <1>2
    <3> HIDE DEF b
    <3>3. QED
      BY <1>3, <1>5, <3>1, <3>2, StepKeeps DEF IInv, Within
  <2>3. CASE b < 16
    <3>1. P!AfterMatch(dec.ip + 2) /\ got' = P!CopyMatch(off, 3)
      BY <1>3, <1>5, <2>3 DEF P!AfterRun
    <3>2. off <= Len(got) /\ received.room - Len(got) >= 3
      BY <2>1, <2>3 DEF Only, TestLb, NeedOp, Test
    <3>3. off \in 1 .. Len(got)
      <4>1. P!In(dec.ip + 1) \in 0..256
        <5>1. dec.ip + 1 \in Int
          BY Numbers
        <5>2. QED
          BY <1>1, <5>1, InFacts
      <4>2. \A x \in Nat, y \in 0..256 : 1 + 2048 + x \div 4 + y * 4 \in Nat \ {0}
        OBVIOUS
      <4>3. off \in Nat \ {0}
        BY <1>3, <4>1, <4>2 DEF P!M2MaxOffset
      <4> HIDE DEF off
      <4>4. QED
        BY <1>1, <3>2, <4>3
    <3> HIDE DEF off
    <3>4. got' \in Seq(Bytes) /\ Len(got') = Len(got) + 3
      BY <1>1, <3>1, <3>3, MatchFacts
    <3>5. dec.ip + 2 \in 0 .. Len(received.stream) /\ Len(got') <= received.room
      BY <1>1, <1>2, <3>2, <3>4
    <3>6. QED
      BY <1>5, <3>1, <3>4, <3>5, AfterMatchKeeps
  <2>4. QED
    BY <1>3, <2>2, <2>3
<1>6. QED
  BY <1>4, <1>5 DEF SafeAfterRun, Guarded

LEMMA FewLiteralsKeeps == ASSUME IInv, SafeFewLiterals PROVE IInv'
<1> DEFINE t1 == NeedOp(dec.t)
           t2 == NeedIp(dec.ip, dec.t + 3)
<1>1. /\ received \in Received /\ Len(received.stream) \in Nat /\ received.room \in Nat
      /\ dec.ip \in Nat /\ Len(got) \in Nat /\ got \in Seq(Bytes)
  BY StreamType DEF IInv, Within
<1>2. dec.t \in 1..3
  BY DEF SafeFewLiterals, Now, IInv, Within
<1>3. CASE Stopped(<<t1, t2>>)
  BY <1>3, StoppedKeeps, NoError, ErrorsOfTests
<1>4. CASE Failing(<<t1, t2>>) = {} /\ received' = received /\ P!FewLiterals
  <2>1. t1.holds /\ t2.holds
    <3> HIDE DEF t1, t2
    <3> QED
      BY <1>4, TwoTests
  <2>2. received.room - Len(got) >= dec.t /\ Len(received.stream) - dec.ip >= dec.t + 3
    BY <2>1 DEF NeedOp, NeedIp, Test
  <2>3. /\ dec' = [pc |-> "match", ip |-> dec.ip + dec.t + 1, t |-> P!In(dec.ip + dec.t)]
        /\ got' = P!CopyLiterals(dec.ip, dec.t)
    BY <1>4 DEF P!FewLiterals
  <2>4. dec.t \in Nat /\ dec.ip + dec.t <= Len(received.stream)
    BY <1>1, <1>2, <2>2
  <2>5. got' \in Seq(Bytes) /\ Len(got') = Len(got) + dec.t
    BY <1>1, <2>3, <2>4, LiteralsFacts
  <2>6. P!In(dec.ip + dec.t) \in Bytes
    <3>1. dec.ip + dec.t \in 0 .. Len(received.stream) - 1
      BY <1>2, <2>2, Numbers
    <3>2. QED
      BY <1>1, <3>1, InFacts
  <2>7. /\ dec.ip + dec.t + 1 \in 0 .. Len(received.stream)
        /\ (dec.ip + dec.t + 1) + 2 <= Len(received.stream)
    BY <2>2, <2>4, Numbers, Behind
  <2>8. Len(got') <= received.room
    BY <2>2, <2>4, <2>5, Numbers, RoomFor
  <2>9. QED
    BY <1>4, <2>3, <2>5, <2>6, <2>7, <2>8, StepKeeps
<1>5. QED
  BY <1>3, <1>4 DEF SafeFewLiterals, Guarded
(* The last step of a match: off is within what is written, and there is   *)
(* room for n bytes.                                                       *)
LEMMA CopyKeeps ==
    ASSUME IInv, received' = received, NEW off \in Nat \ {0}, NEW n \in Nat,
           NEW ip \in 0 .. Len(received.stream),
           off <= Len(got), received.room - Len(got) >= n,
           got' = P!CopyMatch(off, n), P!AfterMatch(ip)
    PROVE  IInv'
<1>1. off \in 1 .. Len(got)
  BY Numbers
<1>2. got' \in Seq(Bytes) /\ Len(got') = Len(got) + n
  BY <1>1, MatchFacts DEF IInv, Within
<1>3. Len(got') <= received.room
  BY <1>2, Numbers, RoomFor
<1>4. QED
  BY <1>2, <1>3, AfterMatchKeeps

LEMMA NearMatchKeeps == ASSUME IInv, SafeNearMatch PROVE IInv'
<1> DEFINE off == 1 + ((dec.t \div 4) % 8) + P!In(dec.ip) * 8
           n == dec.t \div 32 + 1
           t1 == TestLb(off)
           t2 == NeedOp(n)
<1>1. dec.t \in 0..255 /\ dec.ip + 2 <= Len(received.stream) /\ received \in Received
  BY DEF SafeNearMatch, Now, IInv, Within, Bytes
<1>2. CASE Stopped(<<t1, t2>>)
  BY <1>2, StoppedKeeps, NoError, ErrorsOfTests
<1>3. CASE Failing(<<t1, t2>>) = {} /\ received' = received /\ P!NearMatch
  <2>1. t1.holds /\ t2.holds
    <3> HIDE DEF t1, t2
    <3> QED
      BY <1>3, TwoTests
  <2>2. off <= Len(got) /\ received.room - Len(got) >= n
    BY <2>1 DEF TestLb, NeedOp, Test
  <2>3. got' = P!CopyMatch(off, n) /\ P!AfterMatch(dec.ip + 1)
    BY <1>3 DEF P!NearMatch
  <2>4. off \in Nat \ {0} /\ n \in Nat
    <3>1. P!In(dec.ip) \in 0..256
      <4>1. dec.ip \in Int
        BY Numbers
      <4>2. QED
        BY <1>1, <4>1, InFacts
    <3>2. \A t \in 0..255 : (t \div 4) % 8 \in Nat /\ t \div 32 + 1 \in Nat
      OBVIOUS
    <3>3. (dec.t \div 4) % 8 \in Nat /\ n \in Nat
      BY <1>1, <3>2
    <3>4. \A r \in Nat, x \in 0..256 : 1 + r + x * 8 \in Nat \ {0}
      OBVIOUS
    <3>5. QED
      BY <3>1, <3>3, <3>4
  <2>5. dec.ip + 1 \in 0 .. Len(received.stream)
    BY <1>1, Numbers
  <2> HIDE DEF off, n
  <2>6. QED
    BY <1>3, <2>2, <2>3, <2>4, <2>5, CopyKeeps
<1>4. QED
  BY <1>2, <1>3 DEF SafeNearMatch, Guarded

LEMMA ShortMatchKeeps == ASSUME IInv, SafeShortMatch PROVE IInv'
<1> DEFINE off == 1 + dec.t \div 4 + P!In(dec.ip) * 4
           t1 == TestLb(off)
           t2 == NeedOp(2)
<1>1. dec.t \in 0..255 /\ dec.ip + 2 <= Len(received.stream) /\ received \in Received
  BY DEF SafeShortMatch, Now, IInv, Within, Bytes
<1>2. CASE Stopped(<<t1, t2>>)
  BY <1>2, StoppedKeeps, NoError, ErrorsOfTests
<1>3. CASE Failing(<<t1, t2>>) = {} /\ received' = received /\ P!ShortMatch
  <2>1. t1.holds /\ t2.holds
    <3> HIDE DEF t1, t2
    <3> QED
      BY <1>3, TwoTests
  <2>2. off <= Len(got) /\ received.room - Len(got) >= 2
    BY <2>1 DEF TestLb, NeedOp, Test
  <2>3. got' = P!CopyMatch(off, 2) /\ P!AfterMatch(dec.ip + 1)
    BY <1>3 DEF P!ShortMatch
  <2>4. off \in Nat \ {0}
    <3>1. P!In(dec.ip) \in 0..256
      <4>1. dec.ip \in Int
        BY Numbers
      <4>2. QED
        BY <1>1, <4>1, InFacts
    <3>2. \A t \in 0..255, x \in 0..256 : 1 + t \div 4 + x * 4 \in Nat \ {0}
      OBVIOUS
    <3>3. QED
      BY <1>1, <3>1, <3>2
  <2>5. dec.ip + 1 \in 0 .. Len(received.stream)
    BY <1>1, Numbers
  <2> HIDE DEF off
  <2>6. QED
    BY <1>3, <2>2, <2>3, <2>4, <2>5, CopyKeeps
<1>4. QED
  BY <1>2, <1>3 DEF SafeShortMatch, Guarded

(* The length of a match, and the offset behind it: when the length is     *)
(* long, the tests are what says that the offset is there.                 *)
LEMMA LengthThere ==
    ASSUME IInv, dec.pc = "match", NEW mask \in {7, 15, 31}, NEW m,
           m = P!LengthOf(dec.t, mask, dec.ip),
           Only(LongLength(mask), ZerosEnd(dec.ip)).holds,
           Only(LongLength(mask), NeedIp(m.ip, 2)).holds
    PROVE  /\ m.t \in Nat
           /\ m.ip \in Nat
           /\ m.ip + 2 \in 0 .. Len(received.stream)
           /\ P!OffsetAt(m.ip) \in Nat
<1>1. /\ dec.t \in Nat /\ dec.ip \in 0 .. Len(received.stream) /\ received \in Received
      /\ dec.ip + 2 <= Len(received.stream)
  <2>1. dec.t \in Bytes
    BY DEF IInv, Within
  <2>2. dec.t \in Nat
    BY <2>1 DEF Bytes
  <2>3. QED
    BY <2>2 DEF IInv, Within
<1>2. dec.t % (mask + 1) = 0 => ZerosEnd(dec.ip).holds
  BY DEF Only, LongLength, Test
<1>3. dec.t % (mask + 1) = 0 => Len(received.stream) - m.ip >= 2
  BY DEF Only, LongLength, NeedIp, Test
<1>4. /\ m.t \in Nat
      /\ m.ip \in dec.ip .. Len(received.stream)
      /\ dec.t % (mask + 1) # 0 => m.ip = dec.ip
  <2>1. received \in Received /\ dec.ip \in 0 .. Len(received.stream) /\ dec.t \in Nat
    BY <1>1, Numbers
  <2>2. /\ P!LengthOf(dec.t, mask, dec.ip).t \in Nat
        /\ P!LengthOf(dec.t, mask, dec.ip).ip \in dec.ip .. Len(received.stream)
        /\ dec.t % (mask + 1) # 0 => P!LengthOf(dec.t, mask, dec.ip).ip = dec.ip
    BY <1>2, <2>1, LengthFacts, Zenon
  <2>3. QED
    BY <2>2
<1>5. m.ip \in Nat /\ m.ip + 1 \in Nat
  BY <1>4, Numbers
<1>6. m.ip + 2 \in 0 .. Len(received.stream)
  <2>1. CASE dec.t % (mask + 1) = 0
    BY <1>3, <1>5, <2>1, Numbers
  <2>2. CASE dec.t % (mask + 1) # 0
    BY <1>1, <1>4, <2>2, Numbers
  <2>3. QED
    BY <2>1, <2>2
<1>7. P!OffsetAt(m.ip) \in Nat
  <2>1. P!In(m.ip) \in 0..256 /\ P!In(m.ip + 1) \in 0..256
    BY <1>1, <1>5, InFacts
  <2>2. \A x, y \in 0..256 : x \div 4 + y * 64 \in Nat
    OBVIOUS
  <2>3. QED
    BY <2>1, <2>2 DEF P!OffsetAt
<1>8. QED
  BY <1>4, <1>5, <1>6, <1>7

LEMMA MiddleMatchKeeps == ASSUME IInv, SafeMiddleMatch PROVE IInv'
<1> DEFINE m == P!LengthOf(dec.t, 31, dec.ip)
           off == 1 + P!OffsetAt(m.ip)
           t1 == Only(LongLength(31), ZerosEnd(dec.ip))
           t2 == Only(LongLength(31), NeedIp(m.ip, 2))
           t3 == TestLb(off)
           t4 == NeedOp(m.t + 2)
<1>1. dec.pc = "match"
  BY DEF SafeMiddleMatch, Now
<1>2. CASE Stopped(<<t1, t2, t3, t4>>)
  BY <1>2, StoppedKeeps, NoError, ErrorsOfTests
<1>3. CASE Failing(<<t1, t2, t3, t4>>) = {} /\ received' = received /\ P!MiddleMatch
  <2>1. t1.holds /\ t2.holds /\ t3.holds /\ t4.holds
    <3> HIDE DEF t1, t2, t3, t4
    <3> QED
      BY <1>3, FourTests
  <2>2. off <= Len(got) /\ received.room - Len(got) >= m.t + 2
    BY <2>1 DEF TestLb, NeedOp, Test
  <2>3. got' = P!CopyMatch(off, m.t + 2) /\ P!AfterMatch(m.ip + 2)
    BY <1>3 DEF P!MiddleMatch
  <2>4. /\ m.t \in Nat /\ m.ip + 2 \in 0 .. Len(received.stream)
        /\ P!OffsetAt(m.ip) \in Nat
    <3> HIDE DEF m
    <3>1. m = P!LengthOf(dec.t, 31, dec.ip)
      BY DEF m
    <3>2. QED
      BY <1>1, <2>1, <3>1, LengthThere
  <2> HIDE DEF m
  <2>5. off \in Nat \ {0} /\ m.t + 2 \in Nat
    BY <2>4
  <2> HIDE DEF off
  <2>6. QED
    BY <1>3, <2>2, <2>3, <2>4, <2>5, CopyKeeps
<1>4. QED
  BY <1>2, <1>3 DEF SafeMiddleMatch, Guarded

LEMMA TestsMean ==
    /\ \A off : TestLb(off).holds => off <= Len(got)
    /\ \A n : NeedOp(n).holds => received.room - Len(got) >= n
  BY Zenon DEF TestLb, NeedOp, Test

LEMMA OnlyMeans ==
    ASSUME NEW x, NEW y, NEW test
    PROVE  Only(x # y, test).holds => (x # y => test.holds)
  BY DEF Only, Test

LEMMA FarMatchKeeps == ASSUME IInv, SafeFarMatch PROVE IInv'
<1> DEFINE m == P!LengthOf(dec.t, 7, dec.ip)
           off == 16384 * ((dec.t \div 8) % 2) + P!OffsetAt(m.ip)
           t1 == Only(LongLength(7), ZerosEnd(dec.ip))
           t2 == Only(LongLength(7), NeedIp(m.ip, 2))
           t3 == Only(off # 0, TestLb(off + 16384))
           t4 == Only(off # 0, NeedOp(m.t + 2))
<1>1. dec.pc = "match" /\ dec.t \in 16..31
  BY DEF SafeFarMatch, Now
<1>2. CASE Stopped(<<t1, t2, t3, t4>>)
  BY <1>2, StoppedKeeps, NoError, ErrorsOfTests
<1>3. CASE Failing(<<t1, t2, t3, t4>>) = {} /\ received' = received /\ P!FarMatch
  <2>1. t1.holds /\ t2.holds /\ t3.holds /\ t4.holds
    <3> HIDE DEF t1, t2, t3, t4
    <3> QED
      BY <1>3, FourTests
  <2>2. /\ m.t \in Nat /\ m.ip + 2 \in 0 .. Len(received.stream)
        /\ P!OffsetAt(m.ip) \in Nat
    <3> HIDE DEF m
    <3>1. m = P!LengthOf(dec.t, 7, dec.ip)
      BY DEF m
    <3>2. QED
      BY <1>1, <2>1, <3>1, LengthThere
  <2>3. CASE off = 0
    <3>1. /\ got' = got
          /\ dec' = [pc |-> IF m.ip + 2 = Len(received.stream) THEN "ok" ELSE "error",
                     ip |-> m.ip + 2, t |-> 0]
      BY <1>3, <2>3 DEF P!FarMatch
    <3> HIDE DEF m
    <3>2. CASE m.ip + 2 = Len(received.stream)
      <4>1. dec' = [pc |-> "ok", ip |-> m.ip + 2, t |-> 0]
        BY <3>1, <3>2
      <4>2. QED
        BY <1>3, <2>2, <3>1, <4>1, StepKeeps DEF IInv, Within
    <3>3. CASE m.ip + 2 # Len(received.stream)
      <4>1. dec' = [pc |-> "error", ip |-> m.ip + 2, t |-> 0]
        BY <3>1, <3>3
      <4>2. "error" \in Errors
        BY DEF Errors
      <4>3. QED
        BY <1>3, <2>2, <3>1, <4>1, <4>2, StepKeeps DEF IInv, Within
    <3>4. QED
      BY <3>2, <3>3
  <2>4. CASE off # 0
    <3>1. off + 16384 <= Len(got) /\ received.room - Len(got) >= m.t + 2
      <4> HIDE DEF off, m
      <4>1. t3.holds /\ t4.holds
        BY <2>1
      <4>2. off # 0 => TestLb(off + 16384).holds
        BY <4>1, OnlyMeans
      <4>3. off # 0 => NeedOp(m.t + 2).holds
        BY <4>1, OnlyMeans
      <4>4. QED
        BY <2>4, <4>2, <4>3, TestsMean
    <3>2. got' = P!CopyMatch(off + 16384, m.t + 2) /\ P!AfterMatch(m.ip + 2)
      BY <1>3, <2>4 DEF P!FarMatch
    <3>3. off \in Nat
      <4>1. \A t \in 16..31 : (t \div 8) % 2 \in {0, 1}
        OBVIOUS
      <4>2. \A b \in {0, 1}, o \in Nat : 16384 * b + o \in Nat
        OBVIOUS
      <4>3. (dec.t \div 8) % 2 \in {0, 1}
        BY <1>1, <4>1
      <4> DEFINE bit == (dec.t \div 8) % 2
                 low == P!OffsetAt(m.ip)
      <4>4. 16384 * bit + low \in Nat
        <5> HIDE DEF bit, low
        <5>1. bit \in {0, 1} /\ low \in Nat
          BY <2>2, <4>3 DEF bit, low
        <5>2. QED
          BY <4>2, <5>1
      <4>5. QED
        BY <4>4
    <3> HIDE DEF m
    <3> HIDE DEF off
    <3>4. off + 16384 \in Nat \ {0} /\ m.t + 2 \in Nat
      <4>1. \A a, b \in Nat : a + 16384 \in Nat \ {0} /\ b + 2 \in Nat
        OBVIOUS
      <4>2. QED
        BY <2>2, <3>3, <4>1
    <3>5. QED
      BY <1>3, <2>2, <3>1, <3>2, <3>4, CopyKeeps
  <2>5. QED
    BY <2>3, <2>4
<1>4. QED
  BY <1>2, <1>3 DEF SafeFarMatch, Guarded
-----------------------------------------------------------------------------
(* Every byte that is read, copied or written is where it should be: IInv  *)
(* is inductive.                                                           *)
LEMMA StartsInside == ASSUME SafeInit PROVE IInv
<1>1. received \in Received /\ dec = [pc |-> "start", ip |-> 0, t |-> 0] /\ got = <<>>
  BY DEF SafeInit
<1>2. got \in Seq(Bytes) /\ Len(got) = 0
  BY <1>1
<1>3. QED
  BY <1>1, <1>2, StreamType DEF IInv, Within, Registers

LEMMA StaysInside == ASSUME IInv, [SafeNext]_safeVars PROVE IInv'
<1>1. CASE UNCHANGED safeVars
  BY <1>1 DEF safeVars, IInv, Within, Registers
<1>2. CASE SafeNext
  BY <1>2, StartKeeps, RunKeeps, AfterRunKeeps, FewLiteralsKeeps, NearMatchKeeps,
     MiddleMatchKeeps, FarMatchKeeps, ShortMatchKeeps DEF SafeNext
<1>3. QED
  BY <1>1, <1>2

THEOREM Contained == SafeSpec => []IInv
  BY StartsInside, StaysInside, PTL DEF SafeSpec

(* lzo1x_decompress_safe, whatever it is given, writes nothing behind the  *)
(* room there is, copies nothing from outside of what it wrote, and reads  *)
(* no byte behind the stream.                                              *)
THEOREM SafeStaysInside == SafeSpec => []NothingOutside
<1>1. IInv => NothingOutside
  <2> SUFFICES ASSUME IInv PROVE NothingOutside
    OBVIOUS
  <2>1. \A n \in DOMAIN got : got[n] # P!Stray
    <3>1. \A n \in DOMAIN got : got[n] \in Bytes
      BY DEF IInv, Within
    <3>2. P!Stray \notin Bytes
      BY DEF P!Stray, Bytes
    <3>3. QED
      BY <3>1, <3>2
  <2>2. dec.ip <= Len(received.stream)
    BY Numbers DEF IInv, Within
  <2>3. QED
    BY <2>1, <2>2 DEF IInv, Within, NothingOutside, Now
<1>2. QED
  BY <1>1, Contained, PTL

-----------------------------------------------------------------------------
(* What a stream that was cut short, perhaps by nothing, is decompressed   *)
(* to.  T is lzo1x_decompress with the whole stream, S with what has come  *)
(* of it: the theorems of LzoProofs are about either.                      *)
T == INSTANCE LzoProofs WITH
        Sources <- {}, Foreign <- {}, source <- received.source, out <- received.whole,
        packer <- [pc |-> "done"], reach <- 0, unpacker <- dec, dst <- got
S == INSTANCE LzoProofs WITH
        Sources <- {}, Foreign <- {}, source <- received.source, out <- received.stream,
        packer <- [pc |-> "done"], reach <- 0, unpacker <- dec, dst <- got

(* What is received comes of a stream that stands for its source, by the   *)
(* format of LZO1X.                                                        *)
ReceivedStands ==
    \A r \in Received : /\ r.whole \in Seq(Bytes) /\ r.source \in Seq(Bytes)
                        /\ T!StandsFor(r.whole, r.source)

(* Until the stream ends, all is as with the whole stream; no more than    *)
(* the end of what came or the room stops it.                              *)
Short == received.stream # received.whole
Tight == received.room < Len(received.source)
Judging ==
    Cut => \/ (\E M : T!Decodes(M)) /\ (dec.pc = "ok" => ~Short)
           \/ dec.pc = "input overrun" /\ Short
           \/ dec.pc = "output overrun" /\ Tight

LEMMA CutFacts ==
    ASSUME received \in Received, ReceivedStands, Cut
    PROVE  /\ received.stream \in Seq(Bytes) /\ received.whole \in Seq(Bytes)
           /\ received.source \in Seq(Bytes)
           /\ Len(received.stream) \in Nat /\ Len(received.whole) \in Nat
           /\ Len(received.source) \in Nat /\ received.room \in Nat
           /\ Len(received.stream) <= Len(received.whole)
           /\ \A i \in 1 .. Len(received.stream) : received.stream[i] = received.whole[i]
           /\ Len(received.stream) = Len(received.whole) => ~Short
<1>1. /\ received.stream \in Seq(Bytes) /\ received.whole \in Seq(Bytes)
      /\ received.source \in Seq(Bytes)
      /\ Len(received.stream) \in Nat /\ Len(received.whole) \in Nat
      /\ Len(received.source) \in Nat /\ received.room \in Nat
  BY StreamType, LenProperties DEF ReceivedStands
<1> DEFINE s == received.stream
           w == received.whole
           n == Len(s)
<1>2. n <= Len(w) /\ s = SubSeq(w, 1, n)
  BY DEF Cut
<1> HIDE DEF s, w
<1>3. s \in Seq(Bytes) /\ w \in Seq(Bytes) /\ n \in Nat /\ Len(w) \in Nat
  BY <1>1 DEF s, w
<1>4. \A i \in 1..n : s[i] = w[i]
  <2>1. \A i \in 1..n : SubSeq(w, 1, n)[i] = w[1 + i - 1]
    BY <1>2, <1>3, SubSeqProperties
  <2>2. \A i \in 1..n : 1 + i - 1 = i
    BY <1>3
  <2>3. QED
    BY <1>2, <2>1, <2>2
<1>5. n = Len(w) => s = w
  BY <1>3, <1>4, SeqEqual
<1>6. QED
  BY <1>1, <1>2, <1>4, <1>5 DEF s, w, Short

LEMMA SameIn ==
    ASSUME received \in Received, ReceivedStands, Cut,
           NEW i \in Nat, i < Len(received.stream)
    PROVE  P!In(i) = T!In(i)
<1>1. /\ Len(received.stream) \in Nat /\ Len(received.whole) \in Nat
      /\ Len(received.stream) <= Len(received.whole)
      /\ \A k \in 1 .. Len(received.stream) : received.stream[k] = received.whole[k]
      /\ DOMAIN received.stream = 1 .. Len(received.stream)
      /\ DOMAIN received.whole = 1 .. Len(received.whole)
  BY CutFacts, LenProperties
<1>2. i + 1 \in 1 .. Len(received.stream) /\ i + 1 \in 1 .. Len(received.whole)
  BY <1>1
<1>3. P!In(i) = received.stream[i + 1] /\ T!In(i) = received.whole[i + 1]
  BY <1>1, <1>2 DEF P!In, T!In
<1>4. QED
  BY <1>1, <1>2, <1>3

LEMMA SameLiterals ==
    ASSUME received \in Received, ReceivedStands, Cut,
           NEW ip \in Nat, NEW t \in Nat, ip + t <= Len(received.stream)
    PROVE  P!CopyLiterals(ip, t) = T!CopyLiterals(ip, t)
<1>1. ASSUME NEW i \in 1..t PROVE P!In(ip + i - 1) = T!In(ip + i - 1)
  <2>1. ip + i - 1 \in Nat /\ ip + i - 1 < Len(received.stream)
    BY CutFacts
  <2>2. QED
    BY <2>1, SameIn
<1>2. [i \in 1..t |-> P!In(ip + i - 1)] = [i \in 1..t |-> T!In(ip + i - 1)]
  BY <1>1
<1>3. QED
  BY <1>2 DEF P!CopyLiterals, T!CopyLiterals

LEMMA SameMatch ==
    ASSUME NEW off, NEW t
    PROVE  P!CopyMatch(off, t) = T!CopyMatch(off, t)
  BY DEF P!CopyMatch, T!CopyMatch, P!Stray, T!Stray

LEMMA SameOffset ==
    ASSUME received \in Received, ReceivedStands, Cut,
           NEW ip \in Nat, ip + 2 <= Len(received.stream)
    PROVE  P!OffsetAt(ip) = T!OffsetAt(ip)
<1>1. ip < Len(received.stream) /\ ip + 1 < Len(received.stream) /\ ip + 1 \in Nat
  BY CutFacts
<1>2. P!In(ip) = T!In(ip) /\ P!In(ip + 1) = T!In(ip + 1)
  BY <1>1, SameIn
<1>3. QED
  BY <1>2 DEF P!OffsetAt, T!OffsetAt

LEMMA SameAfter ==
    ASSUME received \in Received, ReceivedStands, Cut,
           NEW ip \in Nat, 2 <= ip, ip <= Len(received.stream), P!AfterMatch(ip)
    PROVE  T!AfterMatch(ip) /\ dec'.pc # "ok"
<1>1. ip - 2 \in Nat /\ ip - 2 < Len(received.stream)
  BY CutFacts
<1>2. P!In(ip - 2) = T!In(ip - 2)
  BY <1>1, SameIn
<1>3. QED
  BY <1>2 DEF P!AfterMatch, T!AfterMatch

(* A long length whose zero bytes end is what it is in the whole stream.   *)
LEMMA SameLong ==
    ASSUME received \in Received, ReceivedStands, Cut,
           NEW ip \in Nat, 1 <= ip, NEW base \in Nat, ZerosEnd(ip).holds
    PROVE  P!Long(ip, base) = T!Long(ip, base)
<1> DEFINE s == received.stream
           w == received.whole
           Q == {j \in Nat : ip + 1 <= j /\ j <= Len(s) /\ s[j] # 0}
<1>1. /\ s \in Seq(Bytes) /\ w \in Seq(Bytes) /\ Len(s) \in Nat /\ Len(w) \in Nat
      /\ Len(s) <= Len(w) /\ \A i \in 1 .. Len(s) : s[i] = w[i]
  BY CutFacts
<1>2. Q # {}
  <2>1. PICK j \in ip + 1 .. Len(s) : s[j] # 0
    BY DEF ZerosEnd, Test
  <2>2. j \in Nat /\ ip + 1 <= j /\ j <= Len(s)
    BY <1>1, <2>1
  <2>3. QED
    BY <2>1, <2>2
<1>3. PICK at \in Q : \A j \in Q : at <= j
  BY <1>2, LeastExists
<1>4. /\ at \in Nat /\ ip < at /\ at <= Len(s) /\ s[at] # 0
      /\ \A j \in Nat : ip < j /\ j < at => s[j] = 0
  <2>1. at \in Nat /\ ip + 1 <= at /\ at <= Len(s) /\ s[at] # 0
    BY <1>3
  <2>2. ASSUME NEW j \in Nat, ip < j, j < at PROVE s[j] = 0
    <3>1. j \notin Q
      BY <1>3, <2>1, <2>2
    <3>2. ip + 1 <= j /\ j <= Len(s)
      BY <1>1, <2>1, <2>2
    <3>3. QED
      BY <3>1, <3>2
  <2>3. QED
    BY <2>1, <2>2
<1> HIDE DEF Q
<1>5. w[at] = s[at] /\ at <= Len(w) /\ \A j \in Nat : ip < j /\ j < at => w[j] = 0
  <2>1. at \in 1 .. Len(s) /\ at <= Len(w)
    BY <1>1, <1>4
  <2>2. ASSUME NEW j \in Nat, ip < j, j < at PROVE w[j] = 0
    <3>1. j \in 1 .. Len(s)
      BY <1>1, <1>4, <2>2
    <3>2. QED
      BY <1>1, <1>4, <2>2, <3>1
  <2>3. QED
    BY <1>1, <2>1, <2>2
<1> DEFINE k == 255 * (at - ip - 1) + s[at]
<1>6. S!AddedUp(s, ip, k, at) /\ T!AddedUp(w, ip, k, at)
  BY <1>4, <1>5 DEF S!AddedUp, T!AddedUp
<1>7. k \in Nat
  <2>1. at - ip - 1 \in Nat
    BY <1>4
  <2>2. s[at] \in Nat
    <3>1. at \in 1 .. Len(s)
      BY <1>1, <1>4
    <3>2. s[at] \in Bytes
      BY <1>1, <3>1, ElementOfSeq
    <3>3. \A x \in Bytes : x \in Nat
      BY DEF Bytes
    <3>4. QED
      BY <3>2, <3>3
  <2>3. \A x, y \in Nat : 255 * x + y \in Nat
    OBVIOUS
  <2>4. QED
    BY <2>1, <2>2, <2>3
<1> HIDE DEF k
<1>8. s \in Seq(S!Bytes) /\ w \in Seq(T!Bytes)
  BY <1>1 DEF S!Bytes, T!Bytes, Bytes
<1>9. S!Long(ip, base) = [t |-> base + k, ip |-> at]
  BY <1>6, <1>7, <1>8, S!LongRead
<1>10. T!Long(ip, base) = [t |-> base + k, ip |-> at]
  BY <1>6, <1>7, <1>8, T!LongRead
<1>11. P!Long(ip, base) = S!Long(ip, base)
  BY DEF P!Long, S!Long, P!In, S!In, P!Stray, S!Stray
<1>12. QED
  BY <1>9, <1>10, <1>11

LEMMA SameLength ==
    ASSUME received \in Received, ReceivedStands, Cut,
           NEW ip \in Nat, 1 <= ip, NEW x, NEW mask \in Nat,
           x % (mask + 1) = 0 => ZerosEnd(ip).holds
    PROVE  P!LengthOf(x, mask, ip) = T!LengthOf(x, mask, ip)
<1>1. CASE x % (mask + 1) # 0
  BY <1>1 DEF P!LengthOf, T!LengthOf
<1>2. CASE x % (mask + 1) = 0
  BY <1>2, SameLong DEF P!LengthOf, T!LengthOf
<1>3. QED
  BY <1>1, <1>2

(* A test is fair when it only fails of what came, or of the room.         *)
Fair(test) ==
    \/ test.holds
    \/ test.error = "input overrun" /\ Short
    \/ test.error = "output overrun" /\ Tight

LEMMA NeedIpFair ==
    ASSUME received \in Received, ReceivedStands, Cut,
           NEW ip \in Nat, NEW n \in Nat, ip + n <= Len(received.whole)
    PROVE  Fair(NeedIp(ip, n))
<1>1. ASSUME ~Short PROVE Len(received.stream) - ip >= n
  <2>1. received.stream = received.whole
    BY <1>1 DEF Short
  <2>2. Len(received.whole) \in Nat
    BY CutFacts
  <2>3. Len(received.whole) - ip >= n
    BY <2>2
  <2>4. QED
    BY <2>1, <2>3
<1>2. QED
  BY <1>1 DEF Fair, NeedIp, Test

LEMMA NeedOpFair ==
    ASSUME received \in Received, ReceivedStands, Cut, Len(got) \in Nat,
           NEW n \in Nat, Len(got) + n <= Len(received.source)
    PROVE  Fair(NeedOp(n))
<1>1. received.room \in Nat /\ Len(received.source) \in Nat
  BY CutFacts
<1>2. ASSUME ~Tight PROVE received.room - Len(got) >= n
  BY <1>1, <1>2 DEF Tight
<1>3. QED
  BY <1>2 DEF Fair, NeedOp, Test

LEMMA TestLbFair ==
    ASSUME NEW off, off <= Len(got)
    PROVE  Fair(TestLb(off))
  BY DEF Fair, TestLb, Test

LEMMA ZerosEndFair ==
    ASSUME NEW ip, \E j \in ip + 1 .. Len(received.whole) : received.whole[j] # 0
    PROVE  Fair(ZerosEnd(ip))
<1>1. ASSUME ~Short PROVE \E j \in ip + 1 .. Len(received.stream) : received.stream[j] # 0
  <2>1. received.stream = received.whole
    BY <1>1 DEF Short
  <2>2. QED
    BY <2>1
<1>2. QED
  BY <1>1 DEF Fair, ZerosEnd, Test

LEMMA OnlyFair ==
    ASSUME NEW c, NEW test, c => Fair(test)
    PROVE  Fair(Only(c, test))
<1>1. CASE ~c
  BY <1>1 DEF Fair, Only, Test
<1>2. CASE c
  BY <1>2 DEF Fair, Only, Test
<1>3. QED
  BY <1>1, <1>2

(* Fair tests end what they end rightly.                                   *)
LEMMA StoppedJudged ==
    ASSUME IInv, NEW tests, Stopped(tests),
           \A n \in DOMAIN tests : (\A k \in DOMAIN tests : n <= k \/ tests[k].holds) => Fair(tests[n])
    PROVE  Judging'
<1>1. PICK n \in DOMAIN tests :
         /\ ~tests[n].holds
         /\ \A k \in DOMAIN tests : tests[k].holds \/ n <= k
         /\ dec' = [dec EXCEPT !.pc = tests[n].error]
         /\ UNCHANGED <<received, got>>
  BY DEF Stopped, Failing
<1>2. dec'.pc = tests[n].error
  BY <1>1 DEF IInv, Registers
<1>3. Fair(tests[n])
  BY <1>1
<1>4. \/ tests[n].error = "input overrun" /\ Short
      \/ tests[n].error = "output overrun" /\ Tight
  BY <1>1, <1>3 DEF Fair
<1>5. received' = received
  BY <1>1
<1>6. (dec'.pc = "input overrun" /\ Short') \/ (dec'.pc = "output overrun" /\ Tight')
  BY <1>2, <1>4, <1>5 DEF Short, Tight
<1>7. QED
  BY <1>6 DEF Judging

LEMMA TwoStopped ==
    ASSUME IInv, NEW a, NEW b, Stopped(<<a, b>>), Fair(a), a.holds => Fair(b)
    PROVE  Judging'
<1> DEFINE tests == <<a, b>>
<1>1. DOMAIN tests = 1..2 /\ tests[1] = a /\ tests[2] = b
  OBVIOUS
<1> HIDE DEF tests
<1>2. ASSUME NEW n \in DOMAIN tests, \A k \in DOMAIN tests : n <= k \/ tests[k].holds
      PROVE  Fair(tests[n])
  <2>1. CASE n = 1
    BY <1>1, <2>1
  <2>2. CASE n = 2
    <3>1. 1 \in DOMAIN tests /\ ~(2 <= 1)
      BY <1>1
    <3>2. tests[1].holds
      BY <1>2, <2>2, <3>1
    <3>3. QED
      BY <1>1, <2>2, <3>2
  <2>3. QED
    BY <1>1, <2>1, <2>2
<1>3. Stopped(tests)
  BY DEF tests
<1>4. QED
  BY <1>2, <1>3, StoppedJudged

LEMMA ThreeStopped ==
    ASSUME IInv, NEW a, NEW b, NEW c, Stopped(<<a, b, c>>),
           Fair(a), a.holds => Fair(b), a.holds /\ b.holds => Fair(c)
    PROVE  Judging'
<1> DEFINE tests == <<a, b, c>>
<1>1. DOMAIN tests = 1..3 /\ tests[1] = a /\ tests[2] = b /\ tests[3] = c
  OBVIOUS
<1> HIDE DEF tests
<1>2. ASSUME NEW n \in DOMAIN tests, \A k \in DOMAIN tests : n <= k \/ tests[k].holds
      PROVE  Fair(tests[n])
  <2>1. CASE n = 1
    BY <1>1, <2>1
  <2>2. CASE n = 2
    <3>1. 1 \in DOMAIN tests /\ ~(2 <= 1)
      BY <1>1
    <3>2. tests[1].holds
      BY <1>2, <2>2, <3>1
    <3>3. QED
      BY <1>1, <2>2, <3>2
  <2>3. CASE n = 3
    <3>1. 1 \in DOMAIN tests /\ 2 \in DOMAIN tests /\ ~(3 <= 1) /\ ~(3 <= 2)
      BY <1>1
    <3>2. tests[1].holds /\ tests[2].holds
      BY <1>2, <2>3, <3>1
    <3>3. QED
      BY <1>1, <2>3, <3>2
  <2>4. QED
    BY <1>1, <2>1, <2>2, <2>3
<1>3. Stopped(tests)
  BY DEF tests
<1>4. QED
  BY <1>2, <1>3, StoppedJudged

LEMMA FourStopped ==
    ASSUME IInv, NEW a, NEW b, NEW c, NEW d, Stopped(<<a, b, c, d>>),
           Fair(a), a.holds => Fair(b), a.holds /\ b.holds => Fair(c),
           a.holds /\ b.holds => Fair(d)
    PROVE  Judging'
<1> DEFINE tests == <<a, b, c, d>>
<1>1. DOMAIN tests = 1..4 /\ tests[1] = a /\ tests[2] = b /\ tests[3] = c /\ tests[4] = d
  OBVIOUS
<1> HIDE DEF tests
<1>2. ASSUME NEW n \in DOMAIN tests, \A k \in DOMAIN tests : n <= k \/ tests[k].holds
      PROVE  Fair(tests[n])
  <2>1. CASE n = 1
    BY <1>1, <2>1
  <2>2. CASE n = 2
    <3>1. 1 \in DOMAIN tests /\ ~(2 <= 1)
      BY <1>1
    <3>2. tests[1].holds
      BY <1>2, <2>2, <3>1
    <3>3. QED
      BY <1>1, <2>2, <3>2
  <2>3. CASE n \in 3..4
    <3>1. 1 \in DOMAIN tests /\ 2 \in DOMAIN tests /\ ~(n <= 1) /\ ~(n <= 2)
      BY <1>1, <2>3
    <3>2. tests[1].holds /\ tests[2].holds
      BY <1>2, <3>1
    <3>3. n = 3 \/ n = 4
      BY <2>3
    <3>4. QED
      BY <1>1, <3>2, <3>3
  <2>4. QED
    BY <1>1, <2>1, <2>2, <2>3
<1>3. Stopped(tests)
  BY DEF tests
<1>4. QED
  BY <1>2, <1>3, StoppedJudged

(* A step that is one with the whole stream as well.                       *)
LEMMA StepJudged ==
    ASSUME received' = received, NEW M, T!Decodes(M), T!Decoded(M, dec', got'),
           dec'.pc = "ok" => ~Short
    PROVE  Judging'
<1>1. T!Decodes(M)'
  <2>1. received.source' = received.source /\ received.whole' = received.whole
    OBVIOUS
  <2>2. QED
    BY <2>1, T!StreamKept
<1>2. (\E N : T!Decodes(N))'
  BY <1>1
<1>3. (dec.pc = "ok" => ~Short)'
  BY DEF Short
<1>4. QED
  BY <1>2, <1>3 DEF Judging

LEMMA StartJudged ==
    ASSUME IInv, ReceivedStands, Cut, NEW M, T!Decodes(M), SafeStart
    PROVE  Judging'
<1> DEFINE t == P!In(0) - 17
           a == NeedIp(0, 1)
           b == Only(t >= 4, NeedOp(t))
           c == Only(t >= 4, NeedIp(1, t + 3))
<1>1. received \in Received /\ Len(got) \in Nat /\ Len(received.stream) \in Nat
  BY Numbers DEF IInv, Within
<1>2. dec.pc = "start" /\ Guarded(<<a, b, c>>, P!Start)
  BY DEF SafeStart, Now
<1>3. /\ 1 <= Len(received.whole)
      /\ T!In(0) - 17 > 0 => /\ 1 + (T!In(0) - 17) + 3 <= Len(received.whole)
                             /\ Len(got) + (T!In(0) - 17) <= Len(received.source)
  BY <1>2, T!StartHas
<1>4. ASSUME a.holds PROVE P!In(0) = T!In(0) /\ t \in Int
  <2>1. 0 < Len(received.stream) /\ 0 \in Nat
    <3>1. Len(received.stream) - 0 >= 1
      BY <1>4 DEF NeedIp, Test
    <3>2. QED
      BY <1>1, <3>1
  <2>2. P!In(0) \in 0..256
    <3>1. 0 \in Int
      OBVIOUS
    <3>2. QED
      BY <1>1, <3>1, InFacts
  <2>3. P!In(0) = T!In(0)
    BY <1>1, <2>1, SameIn
  <2>4. t \in Int
    <3>1. \A x \in 0..256 : x - 17 \in Int
      OBVIOUS
    <3>2. QED
      BY <2>2, <3>1
  <2>5. QED
    BY <2>3, <2>4
<1>5. Fair(a)
  <2>1. 0 + 1 <= Len(received.whole) /\ 0 \in Nat /\ 1 \in Nat
    BY <1>3
  <2>2. QED
    BY <1>1, <2>1, NeedIpFair
<1>6. ASSUME a.holds, t >= 4
      PROVE  t \in Nat /\ Len(got) + t <= Len(received.source) /\ 1 + (t + 3) <= Len(received.whole)
  <2>1. t = T!In(0) - 17 /\ t \in Int
    BY <1>4, <1>6
  <2> HIDE DEF t
  <2>2. t > 0 /\ t \in Nat
    BY <1>6, <2>1
  <2>3. 1 + t + 3 <= Len(received.whole) /\ Len(got) + t <= Len(received.source)
    BY <1>3, <2>1, <2>2
  <2>4. QED
    BY <2>2, <2>3
<1>7. a.holds => Fair(b)
  <2> HIDE DEF a, t
  <2>1. ASSUME a.holds, t >= 4 PROVE Fair(NeedOp(t))
    BY <1>1, <1>6, <2>1, NeedOpFair
  <2>2. a.holds => (t >= 4 => Fair(NeedOp(t)))
    BY <2>1
  <2>3. QED
    BY <2>2, OnlyFair
<1>8. a.holds => Fair(c)
  <2> HIDE DEF a, t
  <2>1. ASSUME a.holds, t >= 4 PROVE Fair(NeedIp(1, t + 3))
    <3> DEFINE n == t + 3
    <3>1. n \in Nat /\ 1 \in Nat /\ 1 + n <= Len(received.whole)
      BY <1>6, <2>1
    <3> HIDE DEF n
    <3>2. Fair(NeedIp(1, n))
      BY <1>1, <3>1, NeedIpFair
    <3>3. QED
      BY <3>2 DEF n
  <2>2. a.holds => (t >= 4 => Fair(NeedIp(1, t + 3)))
    BY <2>1
  <2>3. QED
    BY <2>2, OnlyFair
<1>9. CASE Stopped(<<a, b, c>>)
  <2> HIDE DEF a, b, c
  <2>1. QED
    BY <1>5, <1>7, <1>8, <1>9, ThreeStopped
<1>10. CASE Failing(<<a, b, c>>) = {} /\ received' = received /\ P!Start
  <2>1. a.holds /\ b.holds /\ c.holds
    <3> HIDE DEF a, b, c
    <3> QED
      BY <1>10, ThreeTests
  <2>2. P!In(0) = T!In(0) /\ t \in Int /\ t = T!In(0) - 17
    BY <1>4, <2>1
  <2>3. t >= 4 => P!CopyLiterals(1, t) = T!CopyLiterals(1, t)
    <3>1. ASSUME t >= 4 PROVE P!CopyLiterals(1, t) = T!CopyLiterals(1, t)
      <4>1. Len(received.stream) - 1 >= t + 3
        BY <2>1, <3>1 DEF Only, NeedIp, Test
      <4>2. t \in Nat /\ 1 \in Nat /\ 1 + t <= Len(received.stream)
        <5> HIDE DEF t
        <5>1. QED
          BY <1>1, <2>2, <3>1, <4>1
      <4> HIDE DEF t
      <4>3. QED
        BY <1>1, <4>2, SameLiterals
    <3>2. QED
      BY <3>1
  <2>4. /\ dec.pc = "start"
        /\ IF t <= 0
           THEN dec' = [dec EXCEPT !.pc = "run"] /\ got' = got
           ELSE IF t < 4
           THEN dec' = [pc |-> "few", ip |-> 1, t |-> t] /\ got' = got
           ELSE got' = P!CopyLiterals(1, t) /\ dec' = [pc |-> "first", ip |-> 1 + t, t |-> 0]
    BY <1>10 DEF P!Start, P!Running
  <2>5. T!Start
    <3>1. IF T!In(0) - 17 <= 0
          THEN dec' = [dec EXCEPT !.pc = "run"] /\ got' = got
          ELSE IF T!In(0) - 17 < 4
          THEN dec' = [pc |-> "few", ip |-> 1, t |-> T!In(0) - 17] /\ got' = got
          ELSE /\ got' = T!CopyLiterals(1, T!In(0) - 17)
               /\ dec' = [pc |-> "first", ip |-> 1 + (T!In(0) - 17), t |-> 0]
      <4>1. ~(t <= 0) /\ ~(t < 4) => t >= 4
        BY <2>2
      <4> DEFINE t2 == T!In(0) - 17
      <4>2. t2 = t
        BY <2>2
      <4> HIDE DEF t, t2
      <4>3. IF t2 <= 0
            THEN dec' = [dec EXCEPT !.pc = "run"] /\ got' = got
            ELSE IF t2 < 4
            THEN dec' = [pc |-> "few", ip |-> 1, t |-> t2] /\ got' = got
            ELSE /\ got' = T!CopyLiterals(1, t2)
                 /\ dec' = [pc |-> "first", ip |-> 1 + t2, t |-> 0]
        BY <2>3, <2>4, <4>1, <4>2
      <4>4. QED
        BY <4>3 DEF t2
    <3>2. QED
      BY <1>10, <2>4, <3>1 DEF T!Start, T!Running
  <2>6. T!Decoded(M, dec', got')
    BY <2>5, T!StartDecodes
  <2>7. dec'.pc # "ok"
    BY <2>4 DEF IInv, Registers
  <2>8. QED
    BY <1>10, <2>6, <2>7, StepJudged
<1>11. QED
  BY <1>2, <1>9, <1>10 DEF Guarded

(* The instruction of a match is behind the first byte.                    *)
LEMMA InMatch ==
    ASSUME NEW M, T!Decodes(M), dec.pc = "match"
    PROVE  dec.ip \in Nat /\ 2 <= dec.ip + 1
<1>1. PICK d \in Nat : dec.ip = d + 1
  BY T!AtMatchFacts
<1>2. QED
  BY <1>1

LEMMA AfterRunJudged ==
    ASSUME IInv, ReceivedStands, Cut, NEW M, T!Decodes(M), SafeAfterRun
    PROVE  Judging'
<1> DEFINE ip == dec.ip
           b == P!In(ip)
           off == 1 + P!M2MaxOffset + b \div 4 + P!In(ip + 1) * 4
           t1 == Only(b < 16, TestLb(off))
           t2 == Only(b < 16, NeedOp(3))
<1>1. /\ received \in Received /\ Len(got) \in Nat /\ Len(received.stream) \in Nat
      /\ ip \in Nat /\ dec.pc = "first" /\ ip + 3 <= Len(received.stream)
  BY Numbers DEF SafeAfterRun, Now, IInv, Within
<1>2. Guarded(<<t1, t2>>, P!AfterRun)
  BY DEF SafeAfterRun
<1>3. ip + 1 \in Nat /\ ip + 2 \in Nat /\ ip < Len(received.stream)
      /\ ip + 1 < Len(received.stream) /\ ip + 2 <= Len(received.stream) /\ 2 <= ip + 2
  <2> HIDE DEF ip
  <2>1. QED
    BY <1>1
<1>4. P!In(ip) = T!In(ip) /\ P!In(ip + 1) = T!In(ip + 1)
  BY <1>1, <1>3, SameIn
<1>5. off = 1 + T!M2MaxOffset + T!In(ip) \div 4 + T!In(ip + 1) * 4
  BY <1>4 DEF P!M2MaxOffset, T!M2MaxOffset
<1>6. b < 16 => off <= Len(got) /\ Len(got) + 3 <= Len(received.source)
  BY <1>1, <1>4, <1>5, T!AfterRunHas
<1>7. Fair(t1)
  <2>1. b < 16 => Fair(TestLb(off))
    BY <1>6, TestLbFair
  <2> HIDE DEF off, b
  <2>2. QED
    BY <2>1, OnlyFair
<1>8. Fair(t2)
  <2>1. 3 \in Nat
    OBVIOUS
  <2> HIDE DEF off, b
  <2>2. b < 16 => Fair(NeedOp(3))
    BY <1>1, <1>6, <2>1, NeedOpFair
  <2>3. QED
    BY <2>2, OnlyFair
<1>9. CASE Stopped(<<t1, t2>>)
  <2> HIDE DEF t1, t2
  <2>1. QED
    BY <1>7, <1>8, <1>9, TwoStopped
<1>10. CASE Failing(<<t1, t2>>) = {} /\ received' = received /\ P!AfterRun
  <2>1. IF b >= 16
        THEN dec' = [pc |-> "match", ip |-> ip + 1, t |-> b] /\ got' = got
        ELSE got' = P!CopyMatch(off, 3) /\ P!AfterMatch(ip + 2)
    BY <1>10 DEF P!AfterRun
  <2>2. /\ IF b >= 16
           THEN dec' = [pc |-> "match", ip |-> ip + 1, t |-> b] /\ got' = got
           ELSE got' = T!CopyMatch(off, 3) /\ T!AfterMatch(ip + 2)
        /\ dec'.pc # "ok"
    <3> HIDE DEF b, off
    <3>1. CASE b >= 16
      <4>1. dec' = [pc |-> "match", ip |-> ip + 1, t |-> b] /\ got' = got
        BY <2>1, <3>1
      <4>2. dec'.pc # "ok"
        BY <4>1
      <4>3. QED
        BY <3>1, <4>1, <4>2
    <3>2. CASE ~(b >= 16)
      <4> DEFINE i == ip + 2
      <4>1. P!AfterMatch(i) /\ i \in Nat /\ 2 <= i /\ i <= Len(received.stream)
        BY <1>3, <2>1, <3>2
      <4> HIDE DEF i
      <4>2. T!AfterMatch(i) /\ dec'.pc # "ok"
        BY <1>1, <4>1, SameAfter
      <4>3. got' = T!CopyMatch(off, 3)
        BY <2>1, <3>2, SameMatch
      <4>4. QED
        BY <3>2, <4>2, <4>3 DEF i
    <3>3. QED
      BY <3>1, <3>2
  <2>3. T!AfterRun
    <3>1. IF T!In(ip) >= 16
          THEN dec' = [pc |-> "match", ip |-> ip + 1, t |-> T!In(ip)] /\ got' = got
          ELSE /\ got' = T!CopyMatch(1 + T!M2MaxOffset + T!In(ip) \div 4 + T!In(ip + 1) * 4, 3)
               /\ T!AfterMatch(ip + 2)
      <4> HIDE DEF off
      <4>1. QED
        BY <1>4, <1>5, <2>2
    <3>2. QED
      BY <1>1, <1>10, <3>1 DEF T!AfterRun, T!Running
  <2>4. T!Decoded(M, dec', got')
    BY <2>3, T!AfterRunDecodes
  <2>5. QED
    BY <1>10, <2>2, <2>4, StepJudged
<1>11. QED
  BY <1>2, <1>9, <1>10 DEF Guarded

LEMMA FewLiteralsJudged ==
    ASSUME IInv, ReceivedStands, Cut, NEW M, T!Decodes(M), SafeFewLiterals
    PROVE  Judging'
<1> DEFINE ip == dec.ip
           t == dec.t
           t1 == NeedOp(t)
           t2 == NeedIp(ip, t + 3)
<1>1. /\ received \in Received /\ Len(got) \in Nat /\ Len(received.stream) \in Nat
      /\ ip \in Nat /\ dec.pc = "few" /\ t \in 1..3
  BY Numbers DEF SafeFewLiterals, Now, IInv, Within
<1>2. Guarded(<<t1, t2>>, P!FewLiterals)
  BY DEF SafeFewLiterals
<1>3. ip + t + 3 <= Len(received.whole) /\ Len(got) + t <= Len(received.source)
  BY <1>1, T!FewHas
<1> HIDE DEF ip, t
<1>4. t \in Nat /\ t + 3 \in Nat /\ ip + (t + 3) <= Len(received.whole)
  BY <1>1, <1>3
<1>5. Fair(t1)
  BY <1>1, <1>3, <1>4, NeedOpFair
<1>6. Fair(t2)
  <2> DEFINE n == t + 3
  <2>1. n \in Nat /\ ip + n <= Len(received.whole)
    BY <1>4
  <2> HIDE DEF n
  <2>2. Fair(NeedIp(ip, n))
    BY <1>1, <2>1, NeedIpFair
  <2>3. QED
    BY <2>2 DEF n
<1>7. CASE Stopped(<<t1, t2>>)
  <2> HIDE DEF t1, t2
  <2>1. QED
    BY <1>5, <1>6, <1>7, TwoStopped
<1>8. CASE Failing(<<t1, t2>>) = {} /\ received' = received /\ P!FewLiterals
  <2>1. t2.holds
    <3> HIDE DEF t1, t2
    <3> QED
      BY <1>8, TwoTests
  <2>2. Len(received.stream) - ip >= t + 3
    BY <2>1 DEF NeedIp, Test
  <2>3. ip + t \in Nat /\ ip + t < Len(received.stream) /\ ip + t <= Len(received.stream)
    BY <1>1, <1>4, <2>2
  <2>4. /\ got' = P!CopyLiterals(ip, t)
        /\ dec' = [pc |-> "match", ip |-> ip + t + 1, t |-> P!In(ip + t)]
    BY <1>8 DEF P!FewLiterals, ip, t
  <2>5. P!In(ip + t) = T!In(ip + t) /\ P!CopyLiterals(ip, t) = T!CopyLiterals(ip, t)
    <3>1. P!CopyLiterals(ip, t) = T!CopyLiterals(ip, t)
      BY <1>1, <1>4, <2>3, SameLiterals
    <3> DEFINE i == ip + t
    <3>2. i \in Nat /\ i < Len(received.stream)
      BY <2>3
    <3> HIDE DEF i
    <3>3. P!In(i) = T!In(i)
      BY <1>1, <3>2, SameIn
    <3>4. QED
      BY <3>1, <3>3 DEF i
  <2>6. T!FewLiterals
    BY <1>1, <1>8, <2>4, <2>5 DEF T!FewLiterals, T!Running, ip, t
  <2>7. T!Decoded(M, dec', got')
    BY <2>6, T!FewLiteralsDecodes
  <2>8. dec'.pc # "ok"
    BY <2>4
  <2>9. QED
    BY <1>8, <2>7, <2>8, StepJudged
<1>9. QED
  BY <1>2, <1>7, <1>8 DEF Guarded

LEMMA NearMatchJudged ==
    ASSUME IInv, ReceivedStands, Cut, NEW M, T!Decodes(M), SafeNearMatch
    PROVE  Judging'
<1> DEFINE ip == dec.ip
           t == dec.t
           off == 1 + ((t \div 4) % 8) + P!In(ip) * 8
           n == t \div 32 + 1
           t1 == TestLb(off)
           t2 == NeedOp(n)
<1>1. /\ received \in Received /\ Len(got) \in Nat /\ Len(received.stream) \in Nat
      /\ ip \in Nat /\ dec.pc = "match" /\ t >= 64 /\ ip + 2 <= Len(received.stream)
  BY Numbers DEF SafeNearMatch, Now, IInv, Within
<1>2. Guarded(<<t1, t2>>, P!NearMatch)
  BY DEF SafeNearMatch
<1>3. ip + 1 \in Nat /\ ip < Len(received.stream) /\ ip + 1 <= Len(received.stream) /\ n \in Nat
  <2>1. t \in Nat
    <3>1. dec.t \in Bytes
      BY <1>1 DEF IInv, Within
    <3>2. \A x \in Bytes : x \in Nat
      BY DEF Bytes
    <3>3. QED
      BY <3>1, <3>2
  <2> HIDE DEF ip, t
  <2>2. QED
    BY <1>1, <2>1
<1>4. P!In(ip) = T!In(ip)
  BY <1>1, <1>3, SameIn
<1>5. off = 1 + ((t \div 4) % 8) + T!In(ip) * 8
  BY <1>4
<1>6. off <= Len(got) /\ Len(got) + n <= Len(received.source)
  BY <1>1, <1>5, T!NearHas
<1>7. Fair(t1)
  BY <1>6, TestLbFair
<1>8. Fair(t2)
  <2> HIDE DEF n
  <2>1. QED
    BY <1>1, <1>3, <1>6, NeedOpFair
<1>9. CASE Stopped(<<t1, t2>>)
  <2> HIDE DEF t1, t2
  <2>1. QED
    BY <1>7, <1>8, <1>9, TwoStopped
<1>10. CASE Failing(<<t1, t2>>) = {} /\ received' = received /\ P!NearMatch
  <2>1. got' = P!CopyMatch(off, n) /\ P!AfterMatch(ip + 1)
    BY <1>10 DEF P!NearMatch
  <2>2. got' = T!CopyMatch(off, n)
    <3> HIDE DEF off, n
    <3>1. QED
      BY <2>1, SameMatch
  <2>3. T!AfterMatch(ip + 1) /\ dec'.pc # "ok"
    <3> DEFINE i == ip + 1
    <3>1. P!AfterMatch(i) /\ i \in Nat /\ i <= Len(received.stream)
      BY <1>3, <2>1
    <3>2. 2 <= i
      BY <1>1, InMatch
    <3> HIDE DEF i
    <3>3. T!AfterMatch(i) /\ dec'.pc # "ok"
      BY <1>1, <3>1, <3>2, SameAfter
    <3>4. QED
      BY <3>3 DEF i
  <2>4. T!NearMatch
    <3>1. got' = T!CopyMatch(1 + ((t \div 4) % 8) + T!In(ip) * 8, n)
      <4> HIDE DEF off, n
      <4>1. QED
        BY <1>5, <2>2
    <3>2. QED
      BY <1>1, <1>10, <2>3, <3>1 DEF T!NearMatch, T!Running
  <2>5. T!Decoded(M, dec', got')
    BY <2>4, T!NearMatchDecodes
  <2>6. QED
    BY <1>10, <2>3, <2>5, StepJudged
<1>11. QED
  BY <1>2, <1>9, <1>10 DEF Guarded

LEMMA ShortMatchJudged ==
    ASSUME IInv, ReceivedStands, Cut, NEW M, T!Decodes(M), SafeShortMatch
    PROVE  Judging'
<1> DEFINE ip == dec.ip
           t == dec.t
           off == 1 + t \div 4 + P!In(ip) * 4
           t1 == TestLb(off)
           t2 == NeedOp(2)
<1>1. /\ received \in Received /\ Len(got) \in Nat /\ Len(received.stream) \in Nat
      /\ ip \in Nat /\ dec.pc = "match" /\ t < 16 /\ ip + 2 <= Len(received.stream)
  BY Numbers DEF SafeShortMatch, Now, IInv, Within
<1>2. Guarded(<<t1, t2>>, P!ShortMatch)
  BY DEF SafeShortMatch
<1>3. ip + 1 \in Nat /\ ip < Len(received.stream) /\ ip + 1 <= Len(received.stream)
  <2> HIDE DEF ip
  <2>1. QED
    BY <1>1
<1>4. P!In(ip) = T!In(ip)
  BY <1>1, <1>3, SameIn
<1>5. off = 1 + t \div 4 + T!In(ip) * 4
  BY <1>4
<1>6. off <= Len(got) /\ Len(got) + 2 <= Len(received.source)
  BY <1>1, <1>5, T!ShortHas
<1>7. Fair(t1)
  BY <1>6, TestLbFair
<1>8. Fair(t2)
  <2>1. 2 \in Nat
    OBVIOUS
  <2>2. QED
    BY <1>1, <1>6, <2>1, NeedOpFair
<1>9. CASE Stopped(<<t1, t2>>)
  <2> HIDE DEF t1, t2
  <2>1. QED
    BY <1>7, <1>8, <1>9, TwoStopped
<1>10. CASE Failing(<<t1, t2>>) = {} /\ received' = received /\ P!ShortMatch
  <2>1. got' = P!CopyMatch(off, 2) /\ P!AfterMatch(ip + 1)
    BY <1>10 DEF P!ShortMatch
  <2>2. got' = T!CopyMatch(off, 2)
    <3> HIDE DEF off
    <3>1. QED
      BY <2>1, SameMatch
  <2>3. T!AfterMatch(ip + 1) /\ dec'.pc # "ok"
    <3> DEFINE i == ip + 1
    <3>1. P!AfterMatch(i) /\ i \in Nat /\ i <= Len(received.stream)
      BY <1>3, <2>1
    <3>2. 2 <= i
      BY <1>1, InMatch
    <3> HIDE DEF i
    <3>3. T!AfterMatch(i) /\ dec'.pc # "ok"
      BY <1>1, <3>1, <3>2, SameAfter
    <3>4. QED
      BY <3>3 DEF i
  <2>4. T!ShortMatch
    <3>1. got' = T!CopyMatch(1 + t \div 4 + T!In(ip) * 4, 2)
      <4> HIDE DEF off
      <4>1. QED
        BY <1>5, <2>2
    <3>2. QED
      BY <1>1, <1>10, <2>3, <3>1 DEF T!ShortMatch, T!Running
  <2>5. T!Decoded(M, dec', got')
    BY <2>4, T!ShortMatchDecodes
  <2>6. QED
    BY <1>10, <2>3, <2>5, StepJudged
<1>11. QED
  BY <1>2, <1>9, <1>10 DEF Guarded

LEMMA RunJudged ==
    ASSUME IInv, ReceivedStands, Cut, NEW M, T!Decodes(M), SafeRun
    PROVE  Judging'
<1> DEFINE ip == dec.ip
           b == P!In(ip)
           run == P!LengthOf(b, 15, ip + 1)
           t1 == NeedIp(ip, 3)
           t2 == Only(b = 0, ZerosEnd(ip + 1))
           t3 == Only(b < 16, NeedOp(run.t + 3))
           t4 == Only(b < 16, NeedIp(run.ip, run.t + 6))
           whole == T!LengthOf(T!In(ip), 15, ip + 1)
<1>1. /\ received \in Received /\ Len(got) \in Nat /\ Len(received.stream) \in Nat
      /\ ip \in Nat /\ dec.pc = "run"
  BY Numbers DEF SafeRun, Now, IInv, Within
<1>2. Guarded(<<t1, t2, t3, t4>>, P!Run)
  BY DEF SafeRun
<1>3. /\ ip + 3 <= Len(received.whole)
      /\ T!In(ip) = 0 => \E j \in ip + 2 .. Len(received.whole) : received.whole[j] # 0
      /\ T!In(ip) < 16 => /\ whole.t \in Nat /\ whole.ip \in Nat
                          /\ whole.ip + (whole.t + 6) <= Len(received.whole)
                          /\ Len(got) + (whole.t + 3) <= Len(received.source)
  BY <1>1, T!RunHas
<1>4. ASSUME t1.holds PROVE b = T!In(ip) /\ b \in Bytes /\ b \in Nat /\ ip + 1 \in Nat /\ 1 <= ip + 1
  <2>1. Len(received.stream) - ip >= 3
    BY <1>4 DEF NeedIp, Test
  <2>2. ip < Len(received.stream) /\ ip \in 0 .. Len(received.stream) - 1 /\ ip \in Int
    <3> HIDE DEF ip
    <3>1. QED
      BY <1>1, <2>1
  <2>3. b = T!In(ip)
    BY <1>1, <2>2, SameIn
  <2>4. b \in Bytes
    BY <1>1, <2>2, InFacts
  <2>5. b \in Nat
    BY <2>4 DEF Bytes
  <2>6. QED
    BY <1>1, <2>3, <2>4, <2>5
<1>5. ASSUME t1.holds, t2.holds, b < 16 PROVE run = whole
  <2>1. b = T!In(ip) /\ b \in Nat /\ ip + 1 \in Nat /\ 1 <= ip + 1
    BY <1>4, <1>5
  <2>2. b = 0 => ZerosEnd(ip + 1).holds
    BY <1>5 DEF Only, Test
  <2>3. P!LengthOf(b, 15, ip + 1) = T!LengthOf(b, 15, ip + 1)
    <3> HIDE DEF b
    <3> DEFINE i == ip + 1
    <3>1. b % 16 = b
      BY <1>5, <2>1
    <3>2. b % (15 + 1) = 0 => ZerosEnd(i).holds
      BY <2>2, <3>1
    <3>3. i \in Nat /\ 1 <= i /\ 15 \in Nat
      BY <2>1
    <3> HIDE DEF i
    <3>4. P!LengthOf(b, 15, i) = T!LengthOf(b, 15, i)
      BY <1>1, <3>2, <3>3, SameLength
    <3>5. QED
      BY <3>4 DEF i
  <2>4. QED
    BY <2>1, <2>3
<1>6. Fair(t1)
  <2>1. 3 \in Nat
    OBVIOUS
  <2> HIDE DEF ip
  <2>2. QED
    BY <1>1, <1>3, <2>1, NeedIpFair
<1>7. t1.holds => Fair(t2)
  <2> HIDE DEF t1
  <2>1. ASSUME t1.holds, b = 0 PROVE Fair(ZerosEnd(ip + 1))
    <3>1. T!In(ip) = 0
      BY <1>4, <2>1
    <3>2. PICK j \in ip + 2 .. Len(received.whole) : received.whole[j] # 0
      BY <1>3, <3>1
    <3>3. ip + 2 = (ip + 1) + 1
      BY <1>1
    <3> DEFINE i == ip + 1
    <3>4. \E k \in i + 1 .. Len(received.whole) : received.whole[k] # 0
      BY <3>2, <3>3
    <3> HIDE DEF i
    <3>5. Fair(ZerosEnd(i))
      BY <3>4, ZerosEndFair
    <3>6. QED
      BY <3>5 DEF i
  <2>2. t1.holds => (b = 0 => Fair(ZerosEnd(ip + 1)))
    BY <2>1
  <2> HIDE DEF b, ip
  <2>3. QED
    BY <2>2, OnlyFair
<1>8. ASSUME t1.holds, t2.holds, b < 16
      PROVE  /\ run.t \in Nat /\ run.ip \in Nat
             /\ run.ip + (run.t + 6) <= Len(received.whole)
             /\ Len(got) + (run.t + 3) <= Len(received.source)
  <2>1. run = whole /\ T!In(ip) < 16
    BY <1>4, <1>5, <1>8
  <2> HIDE DEF run, whole
  <2>2. QED
    BY <1>3, <2>1
<1>9. t1.holds /\ t2.holds => Fair(t3)
  <2> HIDE DEF t1, t2
  <2>1. ASSUME t1.holds, t2.holds, b < 16 PROVE Fair(NeedOp(run.t + 3))
    <3> DEFINE rt == run.t
               n == rt + 3
    <3>1. rt \in Nat /\ Len(got) + n <= Len(received.source)
      BY <1>8, <2>1
    <3> HIDE DEF rt
    <3>2. n \in Nat
      BY <3>1
    <3> HIDE DEF n
    <3>3. Fair(NeedOp(n))
      BY <1>1, <3>1, <3>2, NeedOpFair
    <3>4. QED
      BY <3>3 DEF n, rt
  <2>2. t1.holds /\ t2.holds => (b < 16 => Fair(NeedOp(run.t + 3)))
    BY <2>1
  <2> HIDE DEF b, run
  <2>3. QED
    BY <2>2, OnlyFair
<1>10. t1.holds /\ t2.holds => Fair(t4)
  <2> HIDE DEF t1, t2
  <2>1. ASSUME t1.holds, t2.holds, b < 16 PROVE Fair(NeedIp(run.ip, run.t + 6))
    <3> DEFINE rt == run.t
               rip == run.ip
               n == rt + 6
    <3>1. rt \in Nat /\ rip \in Nat /\ rip + n <= Len(received.whole)
      BY <1>8, <2>1
    <3> HIDE DEF rt, rip
    <3>2. n \in Nat
      BY <3>1
    <3> HIDE DEF n
    <3>3. Fair(NeedIp(rip, n))
      BY <1>1, <3>1, <3>2, NeedIpFair
    <3>4. QED
      BY <3>3 DEF n, rt, rip
  <2>2. t1.holds /\ t2.holds => (b < 16 => Fair(NeedIp(run.ip, run.t + 6)))
    BY <2>1
  <2> HIDE DEF b, run
  <2>3. QED
    BY <2>2, OnlyFair
<1>11. CASE Stopped(<<t1, t2, t3, t4>>)
  <2> HIDE DEF t1, t2, t3, t4
  <2>1. QED
    BY <1>6, <1>7, <1>9, <1>10, <1>11, FourStopped
<1>12. CASE Failing(<<t1, t2, t3, t4>>) = {} /\ received' = received /\ P!Run
  <2>1. t1.holds /\ t2.holds /\ t3.holds /\ t4.holds
    <3> HIDE DEF t1, t2, t3, t4
    <3> QED
      BY <1>12, FourTests
  <2>2. b = T!In(ip) /\ b \in Nat
    BY <1>4, <2>1
  <2>3. IF b >= 16
        THEN dec' = [pc |-> "match", ip |-> ip + 1, t |-> b] /\ got' = got
        ELSE /\ got' = P!CopyLiterals(run.ip, run.t + 3)
             /\ dec' = [pc |-> "first", ip |-> run.ip + run.t + 3, t |-> 0]
    BY <1>12 DEF P!Run
  <2>4. b < 16 => P!CopyLiterals(run.ip, run.t + 3) = T!CopyLiterals(run.ip, run.t + 3)
    <3>1. ASSUME b < 16
          PROVE  P!CopyLiterals(run.ip, run.t + 3) = T!CopyLiterals(run.ip, run.t + 3)
      <4>1. run.t \in Nat /\ run.ip \in Nat
        BY <1>8, <2>1, <3>1
      <4>2. Len(received.stream) - run.ip >= run.t + 6
        BY <2>1, <3>1 DEF Only, NeedIp, Test
      <4> DEFINE rt == run.t
                 rip == run.ip
                 n == rt + 3
      <4> HIDE DEF rt, rip
      <4>3. rt \in Nat /\ rip \in Nat /\ Len(received.stream) - rip >= rt + 6
        BY <4>1, <4>2 DEF rt, rip
      <4>4. n \in Nat /\ rip + n <= Len(received.stream)
        BY <1>1, <4>3
      <4> HIDE DEF n
      <4>5. P!CopyLiterals(rip, n) = T!CopyLiterals(rip, n)
        BY <1>1, <4>3, <4>4, SameLiterals
      <4>6. QED
        BY <4>5 DEF n, rip, rt
    <3>2. QED
      BY <3>1
  <2>5. b < 16 => run = whole
    BY <1>5, <2>1
  <2>6. b < 16 \/ b >= 16
    <3> HIDE DEF b
    <3>1. QED
      BY <2>2
  <2>7. IF T!In(ip) >= 16
        THEN dec' = [pc |-> "match", ip |-> ip + 1, t |-> T!In(ip)] /\ got' = got
        ELSE /\ got' = T!CopyLiterals(whole.ip, whole.t + 3)
             /\ dec' = [pc |-> "first", ip |-> whole.ip + whole.t + 3, t |-> 0]
    <3>1. CASE b >= 16
      <4> HIDE DEF b, run, whole
      <4>1. QED
        BY <2>2, <2>3, <3>1
    <3>2. CASE ~(b >= 16)
      <4>1. b < 16
        BY <2>6, <3>2
      <4> HIDE DEF b, run, whole
      <4>2. QED
        BY <2>2, <2>3, <2>4, <2>5, <3>2, <4>1
    <3>3. QED
      BY <3>1, <3>2
  <2>8. T!Run
    BY <1>1, <1>12, <2>7 DEF T!Run, T!Running
  <2>9. T!Decoded(M, dec', got')
    BY <2>8, T!RunDecodes
  <2>10. dec'.pc # "ok"
    <3> HIDE DEF b, run
    <3>1. QED
      BY <2>3
  <2>11. QED
    BY <1>12, <2>9, <2>10, StepJudged
<1>13. QED
  BY <1>2, <1>11, <1>12 DEF Guarded

(* The two tests of a long length are fair; when they hold, the length and *)
(* the offset are those of the whole stream.                               *)
LEMMA LengthJudged ==
    ASSUME IInv, ReceivedStands, Cut, NEW M, T!Decodes(M), dec.pc = "match",
           NEW mask \in {7, 31}, NEW m, m = P!LengthOf(dec.t, mask, dec.ip),
           NEW whole, whole = T!LengthOf(dec.t, mask, dec.ip),
           dec.t % (mask + 1) = 0 =>
              \E j \in dec.ip + 1 .. Len(received.whole) : received.whole[j] # 0,
           whole.t \in Nat, whole.ip \in Nat, whole.ip + 2 <= Len(received.whole),
           NEW t1, t1 = Only(LongLength(mask), ZerosEnd(dec.ip)),
           NEW t2, t2 = Only(LongLength(mask), NeedIp(m.ip, 2))
    PROVE  /\ Fair(t1) /\ (t1.holds => Fair(t2))
           /\ t1.holds => m = whole
           /\ t1.holds /\ t2.holds => /\ m.ip + 2 <= Len(received.stream)
                                      /\ P!OffsetAt(m.ip) = T!OffsetAt(m.ip)
<1>1. received \in Received /\ Len(received.stream) \in Nat
  BY Numbers DEF IInv, Within
<1>2. dec.ip \in Nat /\ 1 <= dec.ip
  <2>1. dec.ip \in Nat /\ 2 <= dec.ip + 1
    BY InMatch
  <2>2. QED
    BY <2>1
<1>3. Fair(t1)
  <2>1. LongLength(mask) => Fair(ZerosEnd(dec.ip))
    BY ZerosEndFair DEF LongLength
  <2>2. QED
    BY <2>1, OnlyFair
<1>4. ASSUME t1.holds PROVE m = whole
  <2>1. dec.t % (mask + 1) = 0 => ZerosEnd(dec.ip).holds
    BY <1>4 DEF Only, Test, LongLength
  <2>2. mask \in Nat
    OBVIOUS
  <2>3. QED
    BY <1>1, <1>2, <2>1, <2>2, SameLength
<1>5. t1.holds => Fair(t2)
  <2>1. ASSUME t1.holds, LongLength(mask) PROVE Fair(NeedIp(m.ip, 2))
    <3>1. m.ip \in Nat /\ m.ip + 2 <= Len(received.whole) /\ 2 \in Nat
      BY <1>4, <2>1
    <3>2. QED
      BY <1>1, <3>1, NeedIpFair
  <2>2. t1.holds => (LongLength(mask) => Fair(NeedIp(m.ip, 2)))
    BY <2>1
  <2>3. QED
    BY <2>2, OnlyFair
<1>6. ASSUME t1.holds, t2.holds
      PROVE  m.ip + 2 <= Len(received.stream) /\ P!OffsetAt(m.ip) = T!OffsetAt(m.ip)
  <2>1. m.ip \in Nat /\ m.ip + 2 \in 0 .. Len(received.stream)
    <3>1. mask \in {7, 15, 31}
      OBVIOUS
    <3>2. QED
      BY <1>6, <3>1, LengthThere
  <2>2. m.ip + 2 <= Len(received.stream)
    BY <1>1, <2>1
  <2>3. QED
    BY <1>1, <2>1, <2>2, SameOffset
<1>7. QED
  BY <1>3, <1>4, <1>5, <1>6

LEMMA MiddleMatchJudged ==
    ASSUME IInv, ReceivedStands, Cut, NEW M, T!Decodes(M), SafeMiddleMatch
    PROVE  Judging'
<1> DEFINE m == P!LengthOf(dec.t, 31, dec.ip)
           whole == T!LengthOf(dec.t, 31, dec.ip)
           off == 1 + P!OffsetAt(m.ip)
           t1 == Only(LongLength(31), ZerosEnd(dec.ip))
           t2 == Only(LongLength(31), NeedIp(m.ip, 2))
           t3 == TestLb(off)
           t4 == NeedOp(m.t + 2)
<1>1. /\ received \in Received /\ Len(got) \in Nat /\ Len(received.stream) \in Nat
      /\ dec.pc = "match" /\ dec.t \in 32..63
  BY Numbers DEF SafeMiddleMatch, Now, IInv, Within
<1>2. Guarded(<<t1, t2, t3, t4>>, P!MiddleMatch)
  BY DEF SafeMiddleMatch
<1>3. /\ dec.t % 32 = 0 => \E j \in dec.ip + 1 .. Len(received.whole) : received.whole[j] # 0
      /\ whole.t \in Nat /\ whole.ip \in Nat /\ whole.ip + 2 <= Len(received.whole)
      /\ 1 + T!OffsetAt(whole.ip) <= Len(got) /\ Len(got) + (whole.t + 2) <= Len(received.source)
  BY <1>1, T!MiddleHas
<1>4. /\ Fair(t1) /\ (t1.holds => Fair(t2))
      /\ t1.holds => m = whole
      /\ t1.holds /\ t2.holds => /\ m.ip + 2 <= Len(received.stream)
                                 /\ P!OffsetAt(m.ip) = T!OffsetAt(m.ip)
  <2>1. 31 \in {7, 31} /\ 31 + 1 = 32
    OBVIOUS
  <2>2. dec.t % (31 + 1) = 0 =>
           \E j \in dec.ip + 1 .. Len(received.whole) : received.whole[j] # 0
    BY <1>3, <2>1
  <2> HIDE DEF whole, m, t1, t2
  <2>3. /\ m = P!LengthOf(dec.t, 31, dec.ip) /\ whole = T!LengthOf(dec.t, 31, dec.ip)
        /\ t1 = Only(LongLength(31), ZerosEnd(dec.ip))
        /\ t2 = Only(LongLength(31), NeedIp(m.ip, 2))
    BY DEF m, whole, t1, t2
  <2>4. QED
    BY <1>1, <1>3, <2>1, <2>2, <2>3, LengthJudged
<1>5. ASSUME t1.holds, t2.holds
      PROVE  /\ off = 1 + T!OffsetAt(whole.ip) /\ off <= Len(got)
             /\ m.t + 2 \in Nat /\ Len(got) + (m.t + 2) <= Len(received.source)
  <2>1. m = whole /\ P!OffsetAt(m.ip) = T!OffsetAt(m.ip)
    BY <1>4, <1>5
  <2> HIDE DEF m, whole
  <2>2. QED
    BY <1>3, <2>1
<1>6. t1.holds /\ t2.holds => Fair(t3)
  <2> HIDE DEF t1, t2, off
  <2>1. QED
    BY <1>5, TestLbFair
<1>7. t1.holds /\ t2.holds => Fair(t4)
  <2> DEFINE n == m.t + 2
  <2> HIDE DEF t1, t2, m
  <2>1. ASSUME t1.holds, t2.holds PROVE Fair(NeedOp(n))
    <3>1. n \in Nat /\ Len(got) + n <= Len(received.source)
      BY <1>5, <2>1
    <3> HIDE DEF n
    <3>2. QED
      BY <1>1, <3>1, NeedOpFair
  <2>2. QED
    BY <2>1
<1>8. CASE Stopped(<<t1, t2, t3, t4>>)
  <2> HIDE DEF t1, t2, t3, t4
  <2>1. QED
    BY <1>4, <1>6, <1>7, <1>8, FourStopped
<1>9. CASE Failing(<<t1, t2, t3, t4>>) = {} /\ received' = received /\ P!MiddleMatch
  <2>1. t1.holds /\ t2.holds
    <3> HIDE DEF t1, t2, t3, t4
    <3> QED
      BY <1>9, FourTests
  <2>2. got' = P!CopyMatch(off, m.t + 2) /\ P!AfterMatch(m.ip + 2)
    BY <1>9 DEF P!MiddleMatch
  <2>3. m = whole /\ off = 1 + T!OffsetAt(whole.ip)
    BY <1>4, <1>5, <2>1
  <2>4. got' = T!CopyMatch(off, m.t + 2)
    <3> HIDE DEF off, m
    <3>1. QED
      BY <2>2, SameMatch
  <2>5. T!AfterMatch(m.ip + 2) /\ dec'.pc # "ok"
    <3> DEFINE i == m.ip + 2
    <3>1. m.ip \in Nat
      <4> HIDE DEF m, whole
      <4>1. QED
        BY <1>3, <2>3
    <3>2. i \in Nat /\ 2 <= i /\ i <= Len(received.stream) /\ P!AfterMatch(i)
      <4>1. i <= Len(received.stream) /\ P!AfterMatch(i)
        BY <1>4, <2>1, <2>2
      <4> HIDE DEF m
      <4>2. QED
        BY <3>1, <4>1
    <3> HIDE DEF i
    <3>3. T!AfterMatch(i) /\ dec'.pc # "ok"
      BY <1>1, <3>2, SameAfter
    <3>4. QED
      BY <3>3 DEF i
  <2>6. T!MiddleMatch
    <3>1. got' = T!CopyMatch(1 + T!OffsetAt(whole.ip), whole.t + 2) /\ T!AfterMatch(whole.ip + 2)
      <4> HIDE DEF off, m, whole
      <4>1. QED
        BY <2>3, <2>4, <2>5
    <3>2. QED
      BY <1>1, <1>9, <3>1 DEF T!MiddleMatch, T!Running
  <2>7. T!Decoded(M, dec', got')
    BY <2>6, T!MiddleMatchDecodes
  <2>8. QED
    BY <1>9, <2>5, <2>7, StepJudged
<1>10. QED
  BY <1>2, <1>8, <1>9 DEF Guarded

LEMMA FarMatchJudged ==
    ASSUME IInv, ReceivedStands, Cut, NEW M, T!Decodes(M), SafeFarMatch
    PROVE  Judging'
<1> DEFINE m == P!LengthOf(dec.t, 7, dec.ip)
           whole == T!LengthOf(dec.t, 7, dec.ip)
           bit == 16384 * ((dec.t \div 8) % 2)
           off == bit + P!OffsetAt(m.ip)
           low == bit + T!OffsetAt(whole.ip)
           t1 == Only(LongLength(7), ZerosEnd(dec.ip))
           t2 == Only(LongLength(7), NeedIp(m.ip, 2))
           t3 == Only(off # 0, TestLb(off + 16384))
           t4 == Only(off # 0, NeedOp(m.t + 2))
<1>1. /\ received \in Received /\ Len(got) \in Nat /\ Len(received.stream) \in Nat
      /\ dec.pc = "match" /\ dec.t \in 16..31
  BY Numbers DEF SafeFarMatch, Now, IInv, Within
<1>2. Guarded(<<t1, t2, t3, t4>>, P!FarMatch)
  BY DEF SafeFarMatch
<1>3. /\ dec.t % 8 = 0 => \E j \in dec.ip + 1 .. Len(received.whole) : received.whole[j] # 0
      /\ whole.t \in Nat /\ whole.ip \in Nat /\ whole.ip + 2 <= Len(received.whole) /\ low \in Nat
      /\ low = 0 => whole.ip + 2 = Len(received.whole)
      /\ low # 0 => low + 16384 <= Len(got) /\ Len(got) + (whole.t + 2) <= Len(received.source)
  <2>1. T!LowFar = low
    BY DEF T!LowFar
  <2> HIDE DEF low
  <2>2. QED
    BY <1>1, <2>1, T!FarHas
<1>4. /\ Fair(t1) /\ (t1.holds => Fair(t2))
      /\ t1.holds => m = whole
      /\ t1.holds /\ t2.holds => /\ m.ip + 2 <= Len(received.stream)
                                 /\ P!OffsetAt(m.ip) = T!OffsetAt(m.ip)
  <2>1. 7 \in {7, 31} /\ 7 + 1 = 8
    OBVIOUS
  <2>2. dec.t % (7 + 1) = 0 =>
           \E j \in dec.ip + 1 .. Len(received.whole) : received.whole[j] # 0
    BY <1>3, <2>1
  <2> HIDE DEF whole, m, t1, t2
  <2>3. /\ m = P!LengthOf(dec.t, 7, dec.ip) /\ whole = T!LengthOf(dec.t, 7, dec.ip)
        /\ t1 = Only(LongLength(7), ZerosEnd(dec.ip))
        /\ t2 = Only(LongLength(7), NeedIp(m.ip, 2))
    BY DEF m, whole, t1, t2
  <2>4. QED
    BY <1>1, <1>3, <2>1, <2>2, <2>3, LengthJudged
<1>5. t1.holds /\ t2.holds => m = whole /\ off = low
  <2> HIDE DEF t1, t2, bit, m, whole
  <2>1. QED
    BY <1>4
<1>6. ASSUME t1.holds, t2.holds, off # 0
      PROVE  /\ off + 16384 <= Len(got)
             /\ m.t + 2 \in Nat /\ Len(got) + (m.t + 2) <= Len(received.source)
  <2>1. m = whole /\ off = low
    BY <1>5, <1>6
  <2> HIDE DEF m, whole, off, low
  <2>2. QED
    BY <1>3, <1>6, <2>1
<1>7. t1.holds /\ t2.holds => Fair(t3)
  <2> DEFINE far == off + 16384
             matches == off # 0
  <2> HIDE DEF t1, t2, off
  <2>1. ASSUME t1.holds, t2.holds, off # 0 PROVE Fair(TestLb(far))
    BY <1>6, <2>1, TestLbFair
  <2>2. t1.holds /\ t2.holds => (matches => Fair(TestLb(far)))
    BY <2>1
  <2>3. t3 = Only(matches, TestLb(far))
    OBVIOUS
  <2> HIDE DEF t3, matches, far
  <2>4. QED
    BY <2>2, <2>3, OnlyFair
<1>8. t1.holds /\ t2.holds => Fair(t4)
  <2> DEFINE n == m.t + 2
  <2> HIDE DEF t1, t2, m, off
  <2>1. ASSUME t1.holds, t2.holds, off # 0 PROVE Fair(NeedOp(n))
    <3>1. n \in Nat /\ Len(got) + n <= Len(received.source)
      BY <1>6, <2>1
    <3> HIDE DEF n
    <3>2. QED
      BY <1>1, <3>1, NeedOpFair
  <2>2. t1.holds /\ t2.holds => (off # 0 => Fair(NeedOp(n)))
    BY <2>1
  <2>3. QED
    BY <2>2, OnlyFair
<1>9. CASE Stopped(<<t1, t2, t3, t4>>)
  <2> HIDE DEF t1, t2, t3, t4
  <2>1. QED
    BY <1>4, <1>7, <1>8, <1>9, FourStopped
<1>10. CASE Failing(<<t1, t2, t3, t4>>) = {} /\ received' = received /\ P!FarMatch
  <2>1. t1.holds /\ t2.holds
    <3> HIDE DEF t1, t2, t3, t4
    <3> QED
      BY <1>10, FourTests
  <2>2. m = whole /\ off = low /\ m.ip + 2 <= Len(received.stream)
    BY <1>4, <1>5, <2>1
  <2>3. m.ip \in Nat
    <3> HIDE DEF m, whole
    <3>1. QED
      BY <1>3, <2>2
  <2>4. IF off = 0
        THEN /\ dec' = [pc |-> IF m.ip + 2 = Len(received.stream) THEN "ok" ELSE "error",
                        ip |-> m.ip + 2, t |-> 0]
             /\ got' = got
        ELSE got' = P!CopyMatch(off + 16384, m.t + 2) /\ P!AfterMatch(m.ip + 2)
    BY <1>10 DEF P!FarMatch
  <2>5. off = 0 => Len(received.stream) = Len(received.whole) /\ ~Short
    <3>1. ASSUME off = 0 PROVE Len(received.stream) = Len(received.whole)
      <4>1. m.ip + 2 = Len(received.whole)
        <5> HIDE DEF m, whole, off, low
        <5>1. QED
          BY <1>3, <2>2, <3>1
      <4>2. Len(received.stream) <= Len(received.whole) /\ Len(received.whole) \in Nat
        BY <1>1, CutFacts
      <4> HIDE DEF m
      <4>3. QED
        BY <1>1, <2>2, <4>1, <4>2
    <3>2. QED
      BY <1>1, <3>1, CutFacts
  <2>6. off # 0 => T!AfterMatch(m.ip + 2) /\ dec'.pc # "ok"
    <3>1. ASSUME off # 0 PROVE T!AfterMatch(m.ip + 2) /\ dec'.pc # "ok"
      <4> DEFINE i == m.ip + 2
      <4>1. i <= Len(received.stream) /\ P!AfterMatch(i)
        BY <2>2, <2>4, <3>1
      <4> HIDE DEF m
      <4>2. i \in Nat /\ 2 <= i
        BY <2>3
      <4> HIDE DEF i
      <4>3. T!AfterMatch(i) /\ dec'.pc # "ok"
        BY <1>1, <4>1, <4>2, SameAfter
      <4>4. QED
        BY <4>3 DEF i
    <3>2. QED
      BY <3>1
  <2>7. IF low = 0
        THEN /\ dec' = [pc |-> IF whole.ip + 2 = Len(received.whole) THEN "ok" ELSE "error",
                        ip |-> whole.ip + 2, t |-> 0]
             /\ got' = got
        ELSE got' = T!CopyMatch(low + 16384, whole.t + 2) /\ T!AfterMatch(whole.ip + 2)
    <3> HIDE DEF off, low, m, whole
    <3>1. CASE off = 0
      BY <2>2, <2>4, <2>5, <3>1
    <3>2. CASE off # 0
      <4>1. got' = T!CopyMatch(off + 16384, m.t + 2)
        BY <2>4, <3>2, SameMatch
      <4>2. QED
        BY <2>2, <2>6, <3>2, <4>1
    <3>3. QED
      BY <3>1, <3>2
  <2>8. T!FarMatch
    BY <1>1, <1>10, <2>7 DEF T!FarMatch, T!Running
  <2>9. T!Decoded(M, dec', got')
    BY <2>8, T!FarMatchDecodes
  <2>10. dec'.pc = "ok" => ~Short
    <3> HIDE DEF off
    <3>1. QED
      BY <2>5, <2>6
  <2>11. QED
    BY <1>10, <2>9, <2>10, StepJudged
<1>11. QED
  BY <1>2, <1>9, <1>10 DEF Guarded

(* What was received stands for its source for good.                       *)
LEMMA ReceivedStandsOn == ASSUME ReceivedStands PROVE ReceivedStands'
  BY DEF ReceivedStands, T!StandsFor, T!Tells, Bytes

JudgeInv == IInv /\ ReceivedStands /\ Judging

(* It begins as lzo1x_decompress does.                                     *)
LEMMA InitJudged == ASSUME ReceivedStands, SafeInit PROVE Judging
<1>1. /\ received \in Received /\ dec = [pc |-> "start", ip |-> 0, t |-> 0] /\ got = <<>>
  BY DEF SafeInit
<1>2. /\ received.whole \in Seq(Bytes) /\ received.source \in Seq(Bytes)
      /\ T!StandsFor(received.whole, received.source)
  BY <1>1 DEF ReceivedStands
<1>3. PICK M : M \subseteq Nat \X Nat /\ T!Tells(received.whole, received.source, M)
  BY <1>2 DEF T!StandsFor
<1>4. T!Prefix(got, 0)
  <2>1. got \in Seq(Bytes) /\ Len(got) = 0
    BY <1>1
  <2>2. Len(received.source) \in Nat
    BY <1>2, LenProperties
  <2>3. QED
    BY <2>1, <2>2 DEF T!Prefix, T!Bytes, Bytes
<1>5. T!Decoded(M, dec, got)
  BY <1>1, <1>4 DEF T!Decoded, T!AtStart
<1>6. T!Decodes(M)
  BY <1>2, <1>3, <1>5 DEF T!Decodes, T!Bytes, Bytes
<1>7. dec.pc # "ok"
  BY <1>1
<1>8. QED
  BY <1>6, <1>7 DEF Judging

(* The steps leave what was received alone.                                *)
LEMMA ReceivedKept == ASSUME [SafeNext]_safeVars PROVE received' = received
<1>1. CASE UNCHANGED safeVars
  BY <1>1 DEF safeVars
<1>2. CASE SafeStart
  BY <1>2 DEF SafeStart, Guarded, Stopped
<1>3. CASE SafeRun
  BY <1>3 DEF SafeRun, Guarded, Stopped
<1>4. CASE SafeAfterRun
  BY <1>4 DEF SafeAfterRun, Guarded, Stopped
<1>5. CASE SafeFewLiterals
  BY <1>5 DEF SafeFewLiterals, Guarded, Stopped
<1>6. CASE SafeNearMatch
  BY <1>6 DEF SafeNearMatch, Guarded, Stopped
<1>7. CASE SafeShortMatch
  BY <1>7 DEF SafeShortMatch, Guarded, Stopped
<1>8. CASE SafeMiddleMatch
  BY <1>8 DEF SafeMiddleMatch, Guarded, Stopped
<1>9. CASE SafeFarMatch
  BY <1>9 DEF SafeFarMatch, Guarded, Stopped
<1>10. QED
  BY <1>1, <1>2, <1>3, <1>4, <1>5, <1>6, <1>7, <1>8, <1>9 DEF SafeNext

LEMMA NextJudged == ASSUME JudgeInv, [SafeNext]_safeVars PROVE Judging'
<1>1. IInv /\ ReceivedStands /\ received' = received
  BY ReceivedKept DEF JudgeInv
<1>2. CASE ~Cut
  <2>1. ~Cut'
    BY <1>1, <1>2 DEF Cut
  <2>2. QED
    BY <2>1 DEF Judging
<1>3. CASE Cut /\ SafeNext
  <2>1. dec.pc \in {"start", "run", "first", "few", "match"}
    BY <1>3 DEF SafeNext, SafeStart, SafeRun, SafeAfterRun, SafeFewLiterals,
       SafeNearMatch, SafeMiddleMatch, SafeFarMatch, SafeShortMatch, Now
  <2>2. \E M : T!Decodes(M)
    BY <1>3, <2>1 DEF JudgeInv, Judging
  <2>3. PICK M : T!Decodes(M)
    BY <2>2
  <2>4. QED
    BY <1>1, <1>3, <2>3, StartJudged, RunJudged, AfterRunJudged, FewLiteralsJudged,
       NearMatchJudged, MiddleMatchJudged, FarMatchJudged, ShortMatchJudged DEF SafeNext
<1>4. CASE Cut /\ UNCHANGED safeVars
  <2>1. dec' = dec /\ got' = got
    BY <1>4 DEF safeVars
  <2>2. Short' = Short /\ Tight' = Tight
    BY <1>1 DEF Short, Tight
  <2>3. CASE (\E M : T!Decodes(M)) /\ (dec.pc = "ok" => ~Short)
    <3>1. PICK M : T!Decodes(M)
      BY <2>3
    <3>2. T!Decoded(M, dec', got')
      BY <2>1, <3>1 DEF T!Decodes
    <3>3. dec'.pc = "ok" => ~Short
      BY <2>1, <2>3
    <3>4. QED
      BY <1>1, <3>1, <3>2, <3>3, StepJudged
  <2>4. CASE (dec.pc = "input overrun" /\ Short) \/ (dec.pc = "output overrun" /\ Tight)
    BY <2>1, <2>2, <2>4 DEF Judging
  <2>5. QED
    BY <1>4, <2>3, <2>4 DEF JudgeInv, Judging
<1>5. QED
  BY <1>2, <1>3, <1>4

THEOREM KeepsJudging == ReceivedStands /\ SafeSpec => []JudgeInv
<1>1. ReceivedStands /\ SafeInit => JudgeInv
  BY InitJudged, StartsInside DEF JudgeInv
<1>2. JudgeInv /\ [SafeNext]_safeVars => JudgeInv'
  BY NextJudged, ReceivedStandsOn, StaysInside DEF JudgeInv
<1>3. QED
  BY <1>1, <1>2, PTL DEF SafeSpec

(* What the invariant says of the answers.                                 *)
LEMMA JudgingTells ==
    ASSUME JudgeInv, Cut
    PROVE  /\ dec.pc = "ok" => received.stream = received.whole /\ got = received.source
           /\ dec.pc \in {"input overrun", "lookbehind overrun"} =>
                 received.stream # received.whole
           /\ dec.pc = "output overrun" => received.room < Len(received.source)
<1>1. CASE (\E M : T!Decodes(M)) /\ (dec.pc = "ok" => ~Short)
  <2>1. PICK M : T!Decodes(M)
    BY <1>1
  <2>2. /\ received.source \in Seq(T!Bytes)
        /\ dec.pc \in {"start", "run", "few", "first", "match", "ok"}
        /\ dec.pc = "ok" => T!Prefix(got, Len(received.source))
    BY <2>1 DEF T!Decodes, T!Decoded, T!AtStart, T!AtRun, T!AtFew, T!AtFirst, T!AtMatch, T!AtEnd
  <2>3. dec.pc = "ok" => got = received.source
    BY <2>2, T!PrefixIs
  <2>4. QED
    BY <1>1, <2>2, <2>3 DEF Short
<1>2. CASE dec.pc = "input overrun" /\ Short
  BY <1>2 DEF Short
<1>3. CASE dec.pc = "output overrun" /\ Tight
  BY <1>3 DEF Tight
<1>4. QED
  BY <1>1, <1>2, <1>3 DEF JudgeInv, Judging

(* lzo1x_decompress_safe gives the right answer for whatever it is given   *)
(* of a stream: all of it with room enough, and the source comes back and  *)
(* it says so; a part of it, and it never says so; and it never stops for  *)
(* want of anything that is not wanting.                                   *)
THEOREM AnswersRightly == ReceivedStands /\ SafeSpec => []Judged
<1>1. JudgeInv /\ NothingOutside => Judged
  BY JudgingTells DEF Judged, Now
<1>2. QED
  BY <1>1, KeepsJudging, SafeStaysInside, PTL
=============================================================================
