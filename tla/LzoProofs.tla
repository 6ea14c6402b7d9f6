------------------------------ MODULE LzoProofs ------------------------------
(***************************************************************************)
(* Proofs about Lzo, for every set of sources, of whatever length: that    *)
(* lzo1x_1_compress stays within its buffers, and that lzo1x_decompress    *)
(* gives back what was compressed.                                         *)
(*                                                                         *)
(* The second goes by what a stream says, instruction by instruction       *)
(* (StandsFor).  It is shown of the stream while it grows, where the next  *)
(* instruction may still set the two low bits of the last one, and is all  *)
(* that is needed of it while it is decompressed.                          *)
(***************************************************************************)
EXTENDS Lzo, WellFoundedInduction, SequenceTheorems, TLAPS

Bytes == 0..255

(* How much of the source is in the stream.                                *)
Packed == (IF packer.pc = "probe" THEN packer.ii ELSE packer.end) - packer.ti

PackerType ==
    /\ packer = [pc |-> packer.pc, block |-> packer.block, end |-> packer.end, ip |-> packer.ip,
                 ii |-> packer.ii, ti |-> packer.ti, dict |-> packer.dict]
    /\ packer.pc \in {"block", "probe", "done"}
    /\ packer.block \in Nat /\ packer.end \in Nat /\ packer.ip \in Nat
    /\ packer.ii \in Nat /\ packer.ti \in Nat

(* The block ends within the source, no position is behind the next probe, *)
(* and what is in the dictionary is of this block and before the probe.    *)
InBlock ==
    /\ packer.end <= Len(source)
    /\ packer.pc = "block" => packer.ti <= packer.end
    /\ packer.pc = "probe" =>
          /\ packer.end - packer.block <= BlockMax
          /\ packer.block <= packer.ii /\ packer.ii <= packer.end /\ packer.ii <= packer.ip
          /\ packer.block < packer.ip
          /\ packer.ti <= packer.ii
          /\ \A slot \in DOMAIN packer.dict :
                packer.dict[slot] \in Nat /\ packer.dict[slot] < packer.ip - packer.block

(* The stream is at most a sixteenth longer than what is in it.  It ends   *)
(* with the two low bits free, or else four literals at least come first.  *)
OfPacked ==
    /\ 16 * Len(out) <= 17 * Packed
    /\ out = <<>> => Packed = 0
    /\ out # <<>> => Len(out) >= 2 /\ out[Len(out) - 1] % 4 = 0
    /\ packer.pc = "probe" => packer.ip >= Packed + 4 \/ (packer.ti = 0 /\ out # <<>>)

PackInv ==
    /\ source \in Seq(Bytes) /\ out \in Seq(Bytes)
    /\ reach = [read |-> reach.read, written |-> reach.written]
    /\ reach.read \in Nat /\ reach.written \in Nat
    /\ PackerType
    /\ packer.pc # "done" => InBlock /\ OfPacked
    /\ WithinBuffers

LEMMA LeastExists ==
    ASSUME NEW S, S \subseteq Nat, S # {}
    PROVE  \E k \in S : \A j \in S : k <= j
<1>1. PICK k \in S : \A j \in S : <<j, k>> \notin OpToRel(<, Nat)
  BY NatLessThanWellFounded, WFMin
<1>2. \A j \in S : ~(j < k)
  BY <1>1 DEF OpToRel
<1>3. QED
  BY <1>2

-----------------------------------------------------------------------------
(* What the compressor puts together: how long it is, and of which bytes.  *)

(* The bytes an instruction for t literals takes, and one for a match.     *)
ExtendedSize(n) == (n - 1) \div 255 + 1
RunSize(t) == IF t <= 3 THEN 0 ELSE IF t <= 18 THEN 1 ELSE 1 + ExtendedSize(t - 18)

(* What a match is written as: two bytes, or a marker with its length and  *)
(* two bytes for the offset.                                               *)
Near(len, off) == len <= M2MaxLen /\ off <= M2MaxOffset
Marker(off) ==
    IF off <= M3MaxOffset THEN M3Marker ELSE M4Marker + 8 * (((off - 16384) \div 16384) % 2)
Most(off) == IF off <= M3MaxOffset THEN M3MaxLen ELSE M4MaxLen
Rest(off) == IF off <= M3MaxOffset THEN off - 1 ELSE off - 16384
LengthSize(len, off) == IF len <= Most(off) THEN 1 ELSE 1 + ExtendedSize(len - Most(off))
MatchSize(len, off) == IF Near(len, off) THEN 2 ELSE LengthSize(len, off) + 2

(* The offsets there are in a block.                                       *)
Offsets == {n \in Nat : 1 <= n /\ n <= 49151}

LEMMA Joined ==
    ASSUME NEW s1 \in Seq(Bytes), NEW s2 \in Seq(Bytes)
    PROVE  /\ s1 \o s2 \in Seq(Bytes)
           /\ Len(s1 \o s2) = Len(s1) + Len(s2)
           /\ \A i \in 1 .. Len(s1) : (s1 \o s2)[i] = s1[i]
           /\ \A i \in 1 .. Len(s2) : (s1 \o s2)[Len(s1) + i] = s2[i]
<1>1. Len(s1) \in Nat /\ Len(s2) \in Nat
  BY LenProperties
<1>2. /\ s1 \o s2 \in Seq(Bytes)
      /\ Len(s1 \o s2) = Len(s1) + Len(s2)
      /\ \A i \in 1 .. Len(s1) + Len(s2) :
            (s1 \o s2)[i] = IF i <= Len(s1) THEN s1[i] ELSE s2[i - Len(s1)]
  BY ConcatProperties
<1>3. ASSUME NEW i \in 1 .. Len(s1) PROVE (s1 \o s2)[i] = s1[i]
  BY <1>1, <1>2
<1>4. ASSUME NEW i \in 1 .. Len(s2) PROVE (s1 \o s2)[Len(s1) + i] = s2[i]
  <2>1. Len(s1) + i \in 1 .. Len(s1) + Len(s2) /\ ~(Len(s1) + i <= Len(s1)) /\ Len(s1) + i - Len(s1) = i
    BY <1>1
  <2>2. QED
    BY <1>2, <2>1
<1>5. QED
  BY <1>2, <1>3, <1>4

LEMMA OneByte ==
    ASSUME NEW b \in Bytes
    PROVE  <<b>> \in Seq(Bytes) /\ Len(<<b>>) = 1 /\ <<b>>[1] = b
  OBVIOUS

LEMMA TwoBytes ==
    ASSUME NEW b \in Bytes, NEW c \in Bytes
    PROVE  /\ <<b, c>> \in Seq(Bytes) /\ Len(<<b, c>>) = 2
           /\ <<b, c>>[1] = b /\ <<b, c>>[2] = c
  OBVIOUS

(* A length that is added up of bytes: zeros and then one that is none.    *)
LEMMA ExtendedFacts ==
    ASSUME NEW n \in Nat \ {0}
    PROVE  /\ Extended(n) \in Seq(Bytes)
           /\ ExtendedSize(n) \in Nat \ {0}
           /\ Len(Extended(n)) = ExtendedSize(n)
           /\ \A i \in 1 .. ExtendedSize(n) - 1 : Extended(n)[i] = 0
           /\ Extended(n)[ExtendedSize(n)] = n - 255 * (ExtendedSize(n) - 1)
           /\ Extended(n)[ExtendedSize(n)] \in 1..255
<1> DEFINE k == (n - 1) \div 255
           zeros == [i \in 1..k |-> 0]
           last == <<n - 255 * k>>
<1>1. k \in Nat /\ n - 255 * k \in 1..255
  OBVIOUS
<1> HIDE DEF k
<1>2. zeros \in Seq(Bytes) /\ Len(zeros) = k /\ \A i \in 1..k : zeros[i] = 0
  <2>1. zeros \in [1..k -> Bytes]
    BY DEF Bytes
  <2>2. QED
    BY <1>1, <2>1
<1>3. last \in Seq(Bytes) /\ Len(last) = 1 /\ last[1] = n - 255 * k
  <2>1. n - 255 * k \in Bytes
    BY <1>1 DEF Bytes
  <2>2. QED
    BY <2>1, OneByte
<1>4. Extended(n) = zeros \o last
  BY DEF Extended, k
<1>5. ExtendedSize(n) = k + 1
  BY DEF ExtendedSize, k
<1> HIDE DEF zeros, last
<1>6. /\ zeros \o last \in Seq(Bytes)
      /\ Len(zeros \o last) = k + 1
      /\ \A i \in 1..k : (zeros \o last)[i] = zeros[i]
      /\ (zeros \o last)[k + 1] = last[1]
  <2>1. zeros \in Seq(Bytes) /\ last \in Seq(Bytes)
    BY <1>2, <1>3
  <2>2. zeros \o last \in Seq(Bytes)
    BY <2>1, Joined
  <2>3. Len(zeros \o last) = Len(zeros) + Len(last)
    BY <2>1, Joined
  <2>4. \A i \in 1 .. Len(zeros) : (zeros \o last)[i] = zeros[i]
    BY <2>1, Joined
  <2>5. \A i \in 1 .. Len(last) : (zeros \o last)[Len(zeros) + i] = last[i]
    BY <2>1, Joined
  <2>6. QED
    BY <1>1, <1>2, <1>3, <2>2, <2>3, <2>4, <2>5
<1>7. \A i \in 1..k : (zeros \o last)[i] = 0
  BY <1>1, <1>2, <1>6
<1>8. (zeros \o last)[k + 1] = n - 255 * k
  BY <1>1, <1>3, <1>6
<1>9. QED
  BY <1>1, <1>4, <1>5, <1>6, <1>7, <1>8

LEMMA LowBits ==
    ASSUME NEW b \in Bytes, NEW t \in 0..3
    PROVE  /\ WithLowBits(b, t) \in Bytes
           /\ WithLowBits(b, t) \div 4 = b \div 4
           /\ b % 4 = 0 => WithLowBits(b, t) % 4 = t
<1> DEFINE Bit(v, n) == (v \div n) % 2 = 1
           two == IF Bit(b, 2) \/ Bit(t, 2) THEN 2 ELSE 0
           one == IF Bit(b, 1) \/ Bit(t, 1) THEN 1 ELSE 0
<1>1. WithLowBits(b, t) = 4 * (b \div 4) + two + one
  BY DEF WithLowBits
<1>2. two \in {0, 2} /\ one \in {0, 1}
  OBVIOUS
<1>3. b \div 4 \in 0..63 /\ b = 4 * (b \div 4) + (b % 4) /\ b % 4 \in 0..3
  BY DEF Bytes
<1>4. ASSUME b % 4 = 0 PROVE two + one = t
  <2>1. b \div 1 = b /\ b % 2 = 0 /\ (b \div 2) % 2 = 0
    <3>1. b \in Nat /\ b % 4 = 0
      BY <1>4 DEF Bytes
    <3>2. QED
      BY <3>1
  <2>2. t \div 1 = t
    OBVIOUS
  <2>3. QED
    BY <2>1, <2>2
<1> HIDE DEF two, one
<1>5. 4 * (b \div 4) + two + one \in Bytes
  BY <1>2, <1>3 DEF Bytes
<1>6. (4 * (b \div 4) + (two + one)) \div 4 = b \div 4 /\ (4 * (b \div 4) + (two + one)) % 4 = two + one
  BY <1>2, <1>3
<1>7. QED
  BY <1>1, <1>2, <1>3, <1>4, <1>5, <1>6

(* The instruction for literals leaves what is there, but for two bits.    *)
LEMMA LiteralRunFacts ==
    ASSUME NEW o \in Seq(Bytes), NEW t \in Nat, t \in 1..3 => Len(o) >= 2
    PROVE  /\ LiteralRun(o, t) \in Seq(Bytes)
           /\ Len(LiteralRun(o, t)) = Len(o) + RunSize(t)
           /\ \A i \in 1 .. Len(o) :
                 t \notin 1..3 \/ i # Len(o) - 1 => LiteralRun(o, t)[i] = o[i]
           /\ t \in 1..3 => LiteralRun(o, t)[Len(o) - 1] = WithLowBits(o[Len(o) - 1], t)
           /\ t \in 4..18 => LiteralRun(o, t)[Len(o) + 1] = t - 3
           /\ t > 18 => /\ LiteralRun(o, t)[Len(o) + 1] = 0
                        /\ \A i \in 1 .. ExtendedSize(t - 18) :
                              LiteralRun(o, t)[Len(o) + 1 + i] = Extended(t - 18)[i]
<1>0. Len(o) \in Nat /\ DOMAIN o = 1 .. Len(o)
  BY LenProperties
<1>1. CASE t = 0
  BY <1>0, <1>1 DEF LiteralRun, RunSize
<1>2. CASE t \in 1..3
  <2>1. LiteralRun(o, t) = [o EXCEPT ![Len(o) - 1] = WithLowBits(o[Len(o) - 1], t)]
    BY <1>2 DEF LiteralRun
  <2>2. o[Len(o) - 1] \in Bytes
    BY <1>0, <1>2, ElementOfSeq
  <2>3. WithLowBits(o[Len(o) - 1], t) \in Bytes
    BY <1>2, <2>2, LowBits
  <2>4. ASSUME NEW i \in 1 .. Len(o), NEW e \in Bytes
        PROVE  /\ [o EXCEPT ![i] = e] \in Seq(Bytes)
               /\ Len([o EXCEPT ![i] = e]) = Len(o)
               /\ \A j \in 1 .. Len(o) : [o EXCEPT ![i] = e][j] = IF j = i THEN e ELSE o[j]
    BY ExceptSeq
  <2>5. Len(o) - 1 \in 1 .. Len(o)
    BY <1>0, <1>2
  <2>6. /\ LiteralRun(o, t) \in Seq(Bytes) /\ Len(LiteralRun(o, t)) = Len(o)
        /\ \A j \in 1 .. Len(o) : LiteralRun(o, t)[j] =
              IF j = Len(o) - 1 THEN WithLowBits(o[Len(o) - 1], t) ELSE o[j]
    BY <2>1, <2>3, <2>4, <2>5
  <2>7. RunSize(t) = 0
    BY <1>2 DEF RunSize
  <2>8. Len(LiteralRun(o, t)) = Len(o) + RunSize(t)
    <3>1. Len(o) + RunSize(t) = Len(o)
      BY <1>0, <2>7
    <3>2. Len(LiteralRun(o, t)) = Len(o)
      BY <2>6
    <3>3. QED
      BY <3>1, <3>2
  <2>9. \A j \in 1 .. Len(o) : t \notin 1..3 \/ j # Len(o) - 1 => LiteralRun(o, t)[j] = o[j]
    BY <1>2, <2>6
  <2>10. LiteralRun(o, t)[Len(o) - 1] = WithLowBits(o[Len(o) - 1], t)
    BY <2>5, <2>6
  <2>11. t \notin 4..18 /\ ~(t > 18)
    BY <1>2
  <2>12. QED
    BY <2>6, <2>8, <2>9, <2>10, <2>11
<1>3. CASE t \in 4..18
  <2>1. LiteralRun(o, t) = Append(o, t - 3) /\ t - 3 \in Bytes
    BY <1>3 DEF LiteralRun, Bytes
  <2>2. /\ Append(o, t - 3) \in Seq(Bytes)
        /\ Len(Append(o, t - 3)) = Len(o) + 1
        /\ \A i \in 1 .. Len(o) : Append(o, t - 3)[i] = o[i]
        /\ Append(o, t - 3)[Len(o) + 1] = t - 3
    BY <2>1, AppendProperties
  <2>3. RunSize(t) = 1
    BY <1>3 DEF RunSize
  <2>4. t \notin 1..3 /\ ~(t > 18)
    BY <1>3
  <2>5. QED
    BY <2>1, <2>2, <2>3, <2>4
<1>4. CASE t > 18
  <2> DEFINE o0 == Append(o, 0)
             e == Extended(t - 18)
  <2>1. LiteralRun(o, t) = o0 \o e
    BY <1>4 DEF LiteralRun
  <2>2. /\ o0 \in Seq(Bytes) /\ Len(o0) = Len(o) + 1
        /\ \A i \in 1 .. Len(o) : o0[i] = o[i]
        /\ o0[Len(o) + 1] = 0
    BY AppendProperties DEF Bytes
  <2>3. e \in Seq(Bytes) /\ ExtendedSize(t - 18) \in Nat /\ Len(e) = ExtendedSize(t - 18)
    BY <1>4, ExtendedFacts
  <2> HIDE DEF o0, e
  <2>4. o0 \o e \in Seq(Bytes) /\ Len(o0 \o e) = Len(o0) + Len(e)
    BY <2>2, <2>3, Joined
  <2>5. \A i \in 1 .. Len(o0) : (o0 \o e)[i] = o0[i]
    BY <2>2, <2>3, Joined
  <2>6. \A i \in 1 .. Len(e) : (o0 \o e)[Len(o0) + i] = e[i]
    BY <2>2, <2>3, Joined
  <2>7. Len(o0 \o e) = Len(o) + RunSize(t)
    BY <1>0, <1>4, <2>2, <2>3, <2>4 DEF RunSize
  <2>8. \A i \in 1 .. Len(o) : (o0 \o e)[i] = o[i]
    BY <1>0, <2>2, <2>5
  <2>9. (o0 \o e)[Len(o) + 1] = 0
    BY <1>0, <2>2, <2>5
  <2>10. \A i \in 1 .. ExtendedSize(t - 18) : (o0 \o e)[Len(o) + 1 + i] = e[i]
    BY <2>2, <2>3, <2>6
  <2>11. \A i \in 1 .. ExtendedSize(t - 18) :
            LiteralRun(o, t)[Len(o) + 1 + i] = Extended(t - 18)[i]
    BY <2>1, <2>10 DEF e
  <2>12. t \notin 1..3 /\ t \notin 4..18
    BY <1>4
  <2>13. LiteralRun(o, t)[Len(o) + 1] = 0
    BY <2>1, <2>9
  <2>14. QED
    BY <2>1, <2>4, <2>7, <2>8, <2>11, <2>12, <2>13
<1>5. QED
  BY <1>1, <1>2, <1>3, <1>4

LEMMA LengthenedFacts ==
    ASSUME NEW marker \in {16, 24, 32}, NEW len \in Nat, len >= 4, NEW most \in {9, 33},
           marker # 32 => most = 9
    PROVE  /\ Lengthened(marker, len, most) \in Seq(Bytes)
           /\ len <= most => /\ Len(Lengthened(marker, len, most)) = 1
                             /\ Lengthened(marker, len, most)[1] = marker + (len - 2)
           /\ len > most => /\ Len(Lengthened(marker, len, most)) = 1 + ExtendedSize(len - most)
                            /\ Lengthened(marker, len, most)[1] = marker
                            /\ \A i \in 1 .. ExtendedSize(len - most) :
                                  Lengthened(marker, len, most)[1 + i] = Extended(len - most)[i]
<1>1. CASE len <= most
  <2>1. marker + (len - 2) \in Bytes
    BY <1>1 DEF Bytes
  <2>2. Lengthened(marker, len, most) = <<marker + (len - 2)>>
    BY <1>1 DEF Lengthened
  <2>3. QED
    BY <1>1, <2>1, <2>2, OneByte
<1>2. CASE len > most
  <2> DEFINE m == <<marker>>
             e == Extended(len - most)
  <2>1. m \in Seq(Bytes) /\ Len(m) = 1 /\ m[1] = marker
    BY OneByte DEF Bytes
  <2>2. len - most \in Nat \ {0}
    BY <1>2
  <2>3. e \in Seq(Bytes) /\ ExtendedSize(len - most) \in Nat /\ Len(e) = ExtendedSize(len - most)
    BY <2>2, ExtendedFacts
  <2>4. Lengthened(marker, len, most) = m \o e
    BY <1>2 DEF Lengthened
  <2> HIDE DEF m, e
  <2>5. m \o e \in Seq(Bytes) /\ Len(m \o e) = Len(m) + Len(e)
    BY <2>1, <2>3, Joined
  <2>6. \A i \in 1 .. Len(m) : (m \o e)[i] = m[i]
    BY <2>1, <2>3, Joined
  <2>7. \A i \in 1 .. Len(e) : (m \o e)[Len(m) + i] = e[i]
    BY <2>1, <2>3, Joined
  <2>8. (m \o e)[1] = marker
    BY <2>1, <2>6
  <2>9. QED
    BY <1>2, <2>1, <2>3, <2>4, <2>5, <2>7, <2>8 DEF e
<1>3. QED
  BY <1>1, <1>2

LEMMA OffsetFacts ==
    ASSUME NEW off \in Offsets
    PROVE  /\ Marker(off) \in {16, 24, 32} /\ Most(off) \in {9, 33}
           /\ Marker(off) # 32 => Most(off) = 9
           /\ Rest(off) \in Nat /\ Rest(off) < 32768
           /\ off > M3MaxOffset => /\ Rest(off) > 0
                                   /\ Marker(off) = IF Rest(off) < 16384 THEN 16 ELSE 24
<1>1. CASE off <= 16384
  BY <1>1 DEF Offsets, Marker, Most, Rest, M3MaxOffset, M3Marker, M4Marker, M3MaxLen, M4MaxLen
<1>2. CASE off > 16384
  <2>1. /\ Rest(off) = off - 16384 /\ Rest(off) \in Nat /\ Rest(off) > 0 /\ Rest(off) < 32768
        /\ Most(off) = 9
    BY <1>2 DEF Offsets, Rest, Most, M3MaxOffset, M3MaxLen, M4MaxLen
  <2>2. Marker(off) = 16 + 8 * ((Rest(off) \div 16384) % 2)
    BY <1>2, <2>1 DEF Marker, M3MaxOffset, M4Marker, Offsets
  <2>3. CASE Rest(off) < 16384
    BY <1>2, <2>1, <2>2, <2>3
  <2>4. CASE ~(Rest(off) < 16384)
    BY <1>2, <2>1, <2>2, <2>4
  <2>5. QED
    BY <2>3, <2>4
<1>3. QED
  BY <1>1, <1>2 DEF Offsets

LEMMA NearMatchFacts ==
    ASSUME NEW len \in Nat, len >= 4, NEW off \in Offsets, Near(len, off)
    PROVE  /\ Match(len, off) \in Seq(Bytes) /\ Len(Match(len, off)) = 2
           /\ Match(len, off)[1] = (len - 1) * 32 + ((off - 1) % 8) * 4
           /\ Match(len, off)[2] = (off - 1) \div 8
<1>1. len \in 4..8 /\ off \in Nat /\ 1 <= off /\ off <= 2048
  BY DEF Near, Offsets, M2MaxLen, M2MaxOffset
<1>2. (off - 1) % 8 \in 0..7 /\ (off - 1) \div 8 \in 0..255
  BY <1>1
<1>3. (len - 1) * 32 + ((off - 1) % 8) * 4 \in Bytes /\ (off - 1) \div 8 \in Bytes
  BY <1>1, <1>2 DEF Bytes
<1>4. Match(len, off) = <<(len - 1) * 32 + ((off - 1) % 8) * 4, (off - 1) \div 8>>
  BY DEF Match, Near
<1>5. QED
  BY <1>3, <1>4, TwoBytes

LEMMA OtherMatchFacts ==
    ASSUME NEW len \in Nat, len >= 4, NEW off \in Offsets, ~Near(len, off)
    PROVE  /\ LengthSize(len, off) \in Nat \ {0}
           /\ Match(len, off) \in Seq(Bytes)
           /\ Len(Match(len, off)) = LengthSize(len, off) + 2
           /\ len <= Most(off) => Match(len, off)[1] = Marker(off) + (len - 2)
           /\ len > Most(off) => /\ Match(len, off)[1] = Marker(off)
                                 /\ \A i \in 1 .. ExtendedSize(len - Most(off)) :
                                       Match(len, off)[1 + i] = Extended(len - Most(off))[i]
           /\ Match(len, off)[LengthSize(len, off) + 1] = (Rest(off) * 4) % 256
           /\ Match(len, off)[LengthSize(len, off) + 2] = (Rest(off) \div 64) % 256
<1> DEFINE n == LengthSize(len, off)
           l == Lengthened(Marker(off), len, Most(off))
           b == OffsetBytes(Rest(off))
<1>1. /\ Marker(off) \in {16, 24, 32} /\ Most(off) \in {9, 33}
      /\ Marker(off) # 32 => Most(off) = 9
      /\ Rest(off) \in Nat /\ Rest(off) < 32768
  BY OffsetFacts
<1>2. Match(len, off) = l \o b
  <2>1. ~(len <= M2MaxLen /\ off <= M2MaxOffset)
    BY DEF Near
  <2>2. CASE off <= M3MaxOffset
    BY <2>1, <2>2 DEF Match, Marker, Most, Rest
  <2>3. CASE ~(off <= M3MaxOffset)
    BY <2>1, <2>3 DEF Match, Marker, Most, Rest
  <2>4. QED
    BY <2>2, <2>3
<1>3. /\ l \in Seq(Bytes)
      /\ len <= Most(off) => Len(l) = 1 /\ l[1] = Marker(off) + (len - 2)
      /\ len > Most(off) => /\ Len(l) = 1 + ExtendedSize(len - Most(off))
                            /\ l[1] = Marker(off)
                            /\ \A i \in 1 .. ExtendedSize(len - Most(off)) :
                                  l[1 + i] = Extended(len - Most(off))[i]
  <2> HIDE DEF l
  <2>1. ASSUME NEW marker \in {16, 24, 32}, NEW most \in {9, 33}, marker # 32 => most = 9,
               l = Lengthened(marker, len, most)
        PROVE  /\ l \in Seq(Bytes)
               /\ len <= most => Len(l) = 1 /\ l[1] = marker + (len - 2)
               /\ len > most => /\ Len(l) = 1 + ExtendedSize(len - most)
                                /\ l[1] = marker
                                /\ \A i \in 1 .. ExtendedSize(len - most) :
                                      l[1 + i] = Extended(len - most)[i]
    <3>1. /\ Lengthened(marker, len, most) \in Seq(Bytes)
          /\ len <= most => /\ Len(Lengthened(marker, len, most)) = 1
                            /\ Lengthened(marker, len, most)[1] = marker + (len - 2)
          /\ len > most => /\ Len(Lengthened(marker, len, most)) = 1 + ExtendedSize(len - most)
                           /\ Lengthened(marker, len, most)[1] = marker
                           /\ \A i \in 1 .. ExtendedSize(len - most) :
                                 Lengthened(marker, len, most)[1 + i] = Extended(len - most)[i]
      BY <2>1, LengthenedFacts
    <3>2. QED
      BY <2>1, <3>1
  <2>2. l = Lengthened(Marker(off), len, Most(off))
    BY DEF l
  <2>3. QED
    BY <1>1, <2>1, <2>2
<1>4. n \in Nat \ {0} /\ Len(l) = n
  <2>1. CASE len <= Most(off)
    BY <1>3, <2>1 DEF LengthSize
  <2>2. CASE len > Most(off)
    <3>1. len - Most(off) \in Nat \ {0} /\ ~(len <= Most(off))
      BY <1>1, <2>2
    <3>2. ExtendedSize(len - Most(off)) \in Nat
      BY <3>1, ExtendedFacts
    <3>3. n = 1 + ExtendedSize(len - Most(off))
      BY <3>1 DEF LengthSize
    <3>4. QED
      BY <1>3, <2>2, <3>2, <3>3
  <2>3. QED
    BY <1>1, <2>1, <2>2
<1>5. /\ b \in Seq(Bytes) /\ Len(b) = 2
      /\ b[1] = (Rest(off) * 4) % 256 /\ b[2] = (Rest(off) \div 64) % 256
  <2>1. (Rest(off) * 4) % 256 \in Bytes /\ (Rest(off) \div 64) % 256 \in Bytes
    BY <1>1 DEF Bytes
  <2>2. b = <<(Rest(off) * 4) % 256, (Rest(off) \div 64) % 256>>
    BY DEF OffsetBytes
  <2>3. QED
    BY <2>1, <2>2, TwoBytes
<1> HIDE DEF l, b, n
<1>6. l \o b \in Seq(Bytes) /\ Len(l \o b) = Len(l) + Len(b)
  BY <1>3, <1>5, Joined
<1>7. \A i \in 1 .. Len(l) : (l \o b)[i] = l[i]
  BY <1>3, <1>5, Joined
<1>8. \A i \in 1 .. Len(b) : (l \o b)[Len(l) + i] = b[i]
  BY <1>3, <1>5, Joined
<1>9. (l \o b)[1] = l[1]
  BY <1>4, <1>7
<1>10. (l \o b)[n + 1] = b[1] /\ (l \o b)[n + 2] = b[2]
  <2>1. 1 \in 1 .. Len(b) /\ 2 \in 1 .. Len(b)
    BY <1>5
  <2>2. QED
    BY <1>4, <1>8, <2>1
<1>11. Len(l \o b) = n + 2
  BY <1>4, <1>5, <1>6
<1>12. ASSUME len > Most(off), NEW i \in 1 .. ExtendedSize(len - Most(off))
       PROVE  (l \o b)[1 + i] = Extended(len - Most(off))[i]
  <2>1. 1 + i \in 1 .. Len(l) /\ l[1 + i] = Extended(len - Most(off))[i]
    <3>0. len - Most(off) \in Nat \ {0}
      BY <1>1, <1>12
    <3>1. ExtendedSize(len - Most(off)) \in Nat
      BY <3>0, ExtendedFacts
    <3>2. QED
      BY <1>3, <1>12, <3>1
  <2>2. QED
    BY <1>7, <2>1
<1>13. QED
  BY <1>2, <1>3, <1>4, <1>5, <1>6, <1>9, <1>10, <1>11, <1>12 DEF n

-----------------------------------------------------------------------------
(* What is written for literals and for a match is never more than they    *)
(* are, but for one byte in sixteen.                                       *)
LEMMA ExtendedSizes ==
    ASSUME NEW n \in Nat \ {0}
    PROVE  ExtendedSize(n) \in Nat /\ ExtendedSize(n) <= n /\ 16 * ExtendedSize(n) <= n + 15
  BY DEF ExtendedSize

LEMMA RunSizes ==
    ASSUME NEW t \in Nat
    PROVE  RunSize(t) \in Nat /\ 16 * RunSize(t) <= t + 13
<1>1. CASE t <= 18
  BY <1>1 DEF RunSize
<1>2. CASE t > 18
  <2>1. t - 18 \in Nat \ {0}
    BY <1>2
  <2>2. /\ ExtendedSize(t - 18) \in Nat
        /\ 16 * ExtendedSize(t - 18) <= (t - 18) + 15
    BY <2>1, ExtendedSizes
  <2>3. RunSize(t) = 1 + ExtendedSize(t - 18)
    BY <1>2 DEF RunSize
  <2>4. QED
    BY <2>2, <2>3
<1>3. QED
  BY <1>1, <1>2

LEMMA MatchSizes ==
    ASSUME NEW len \in Nat, len >= 4, NEW off \in Offsets
    PROVE  MatchSize(len, off) \in Nat /\ MatchSize(len, off) >= 2 /\ MatchSize(len, off) < len
<1>1. Most(off) \in {9, 33}
  BY OffsetFacts
<1>2. CASE Near(len, off)
  BY <1>2 DEF MatchSize
<1>3. CASE ~Near(len, off) /\ len <= Most(off)
  BY <1>3 DEF MatchSize, LengthSize
<1>4. CASE ~Near(len, off) /\ ~(len <= Most(off))
  <2>1. len - Most(off) \in Nat \ {0}
    BY <1>1, <1>4
  <2>2. ExtendedSize(len - Most(off)) \in Nat /\ ExtendedSize(len - Most(off)) <= len - Most(off)
    BY <2>1, ExtendedSizes
  <2>3. MatchSize(len, off) = 1 + ExtendedSize(len - Most(off)) + 2
    BY <1>4 DEF MatchSize, LengthSize
  <2>4. QED
    BY <1>1, <2>2, <2>3
<1>5. QED
  BY <1>2, <1>3, <1>4

LEMMA MatchBytes ==
    ASSUME NEW len \in Nat, len >= 4, NEW off \in Offsets
    PROVE  /\ Match(len, off) \in Seq(Bytes)
           /\ Len(Match(len, off)) = MatchSize(len, off)
           /\ MatchSize(len, off) \in Nat /\ MatchSize(len, off) >= 2
           /\ Match(len, off)[MatchSize(len, off) - 1] % 4 = 0
<1>0. MatchSize(len, off) \in Nat /\ MatchSize(len, off) >= 2
  BY MatchSizes
<1>1. CASE Near(len, off)
  <2>1. /\ Match(len, off) \in Seq(Bytes) /\ Len(Match(len, off)) = 2
        /\ Match(len, off)[1] = (len - 1) * 32 + ((off - 1) % 8) * 4
    BY <1>1, NearMatchFacts
  <2>2. MatchSize(len, off) = 2
    BY <1>1 DEF MatchSize
  <2>3. ((len - 1) * 32 + ((off - 1) % 8) * 4) % 4 = 0
    <3>1. (off - 1) % 8 \in 0..7
      BY DEF Offsets
    <3>2. QED
      BY <3>1
  <2>4. QED
    BY <1>0, <2>1, <2>2, <2>3
<1>2. CASE ~Near(len, off)
  <2>1. /\ LengthSize(len, off) \in Nat \ {0}
        /\ Match(len, off) \in Seq(Bytes)
        /\ Len(Match(len, off)) = LengthSize(len, off) + 2
        /\ Match(len, off)[LengthSize(len, off) + 1] = (Rest(off) * 4) % 256
    BY <1>2, OtherMatchFacts
  <2>2. MatchSize(len, off) = LengthSize(len, off) + 2
    BY <1>2 DEF MatchSize
  <2>3. ((Rest(off) * 4) % 256) % 4 = 0
    <3>1. Rest(off) \in Nat
      BY OffsetFacts
    <3>2. QED
      BY <3>1
  <2>4. MatchSize(len, off) - 1 = LengthSize(len, off) + 1
    BY <2>1, <2>2
  <2>5. QED
    BY <1>0, <2>1, <2>2, <2>3, <2>4
<1>3. QED
  BY <1>1, <1>2

(* The search for the end of a match comes to one before the block's end,  *)
(* and reads nothing behind it.                                            *)
LEMMA MatchLengthFacts ==
    ASSUME source \in Seq(Bytes), NEW limit \in Nat, limit + Margin <= Len(source),
           NEW ip \in Nat, ip < limit, NEW m \in Nat
    PROVE  /\ MatchLength(ip, m, limit) \in Nat
           /\ 4 <= MatchLength(ip, m, limit)
           /\ ip + MatchLength(ip, m, limit) <= limit + 12
           /\ \A j \in 4 .. MatchLength(ip, m, limit) - 1 : source[ip + j + 1] = source[m + j + 1]
           /\ ip + 4 + 8 * ((MatchLength(ip, m, limit) - 4) \div 8) + 8 <= limit + Margin
<1> DEFINE Stop(k) == \/ source[ip + k + 1] # source[m + k + 1]
                      \/ k > 4 /\ k % 8 = 4 /\ ip + k >= limit
           S == {k \in Nat : 4 <= k /\ Stop(k)}
           last == 12 + 8 * ((limit - ip) \div 8)
           len == CHOOSE k \in 4 .. Len(source) : Stop(k) /\ \A j \in 4 .. k - 1 : ~Stop(j)
<1>0. Len(source) \in Nat
  BY LenProperties
<1>1. last \in Nat /\ last >= 12 /\ last % 8 = 4 /\ ip + last >= limit /\ ip + last <= limit + 12
  OBVIOUS
<1>2. last \in S
  <2> HIDE DEF last
  <2> QED
    BY <1>1
<1>3. PICK k \in S : \A j \in S : k <= j
  <2>1. S \subseteq Nat /\ S # {}
    <3> HIDE DEF last, Stop
    <3> QED
      BY <1>2
  <2> HIDE DEF S
  <2>2. QED
    BY <2>1, LeastExists
<1> HIDE DEF last
<1>4. k \in Nat /\ 4 <= k /\ Stop(k) /\ k <= last
  BY <1>2, <1>3
<1>5. k \in 4 .. Len(source)
  BY <1>0, <1>1, <1>4 DEF Margin
<1>6. ASSUME NEW j \in 4 .. k - 1 PROVE ~Stop(j)
  <2>1. j \in Nat /\ 4 <= j /\ ~(k <= j)
    BY <1>4
  <2>2. j \notin S
    BY <1>3, <2>1
  <2> HIDE DEF Stop
  <2>3. QED
    BY <2>1, <2>2
<1>7. len \in 4 .. Len(source) /\ Stop(len) /\ \A j \in 4 .. len - 1 : ~Stop(j)
  <2> HIDE DEF Stop
  <2>1. \E n \in 4 .. Len(source) : Stop(n) /\ \A j \in 4 .. n - 1 : ~Stop(j)
    BY <1>4, <1>5, <1>6
  <2>2. QED
    BY <2>1
<1>8. MatchLength(ip, m, limit) = len
  BY DEF MatchLength
<1> HIDE DEF len
<1>9. len \in Nat /\ 4 <= len
  BY <1>0, <1>7
<1>10. len <= last
  <2>1. ASSUME last < len PROVE FALSE
    <3>1. last \in 4 .. len - 1
      BY <1>1, <1>9, <2>1
    <3>2. Stop(last)
      <4> HIDE DEF Stop
      <4> QED
        BY <1>2
    <3> HIDE DEF Stop
    <3>3. QED
      BY <1>7, <3>1, <3>2
  <2>2. QED
    BY <1>1, <1>9, <2>1
<1>11. ASSUME NEW j \in 4 .. len - 1 PROVE source[ip + j + 1] = source[m + j + 1]
  BY <1>7
<1>12. ip + 4 + 8 * ((len - 4) \div 8) + 8 <= limit + Margin
  <2> DEFINE q == (len - 4) \div 8
  <2>1. q \in Nat /\ 8 * q <= len - 4
    BY <1>9
  <2> SUFFICES ip + 4 + 8 * q + 8 <= limit + Margin
    OBVIOUS
  <2> HIDE DEF q
  <2>2. CASE q <= 1
    BY <2>1, <2>2 DEF Margin
  <2>3. CASE q > 1
    <3> DEFINE j == 8 * q - 4
    <3>1. j \in Nat /\ j > 4 /\ j % 8 = 4 /\ j \in 4 .. len - 1
      BY <1>9, <2>1, <2>3
    <3>2. ~(ip + j >= limit)
      <4> HIDE DEF j
      <4> QED
        BY <1>7, <3>1
    <3>3. QED
      BY <2>1, <3>1, <3>2 DEF Margin
  <2>4. QED
    BY <2>1, <2>2, <2>3
<1>13. QED
  BY <1>1, <1>8, <1>9, <1>10, <1>11, <1>12

LEMMA SourceBytesFacts ==
    ASSUME source \in Seq(Bytes), NEW p \in Nat, NEW t \in Nat, p + t <= Len(source)
    PROVE  /\ SourceBytes(p, t) \in Seq(Bytes) /\ Len(SourceBytes(p, t)) = t
           /\ \A i \in 1..t : SourceBytes(p, t)[i] = source[p + i]
<1>0. Len(source) \in Nat
  BY LenProperties
<1>1. \A i \in p + 1 .. p + t : source[i] \in Bytes
  <2>1. TAKE i \in p + 1 .. p + t
  <2>2. i \in 1 .. Len(source)
    BY <1>0
  <2>3. QED
    BY <2>2, ElementOfSeq
<1>2. /\ SubSeq(source, p + 1, p + t) \in Seq(Bytes)
      /\ Len(SubSeq(source, p + 1, p + t)) = IF p + 1 <= p + t THEN (p + t) - (p + 1) + 1 ELSE 0
      /\ \A i \in 1 .. (p + t) - (p + 1) + 1 :
            SubSeq(source, p + 1, p + t)[i] = source[(p + 1) + i - 1]
  <2> DEFINE m == p + 1
             n == p + t
  <2>1. m \in Int /\ n \in Int /\ \A i \in m..n : source[i] \in Bytes
    BY <1>1
  <2> HIDE DEF m, n
  <2>2. /\ SubSeq(source, m, n) \in Seq(Bytes)
        /\ Len(SubSeq(source, m, n)) = IF m <= n THEN n - m + 1 ELSE 0
        /\ \A i \in 1 .. n - m + 1 : SubSeq(source, m, n)[i] = source[m + i - 1]
    BY <2>1, SubSeqProperties
  <2>3. QED
    BY <2>2 DEF m, n
<1>3. \A i \in 1..t : SubSeq(source, p + 1, p + t)[i] = source[p + i]
  <2>1. TAKE i \in 1..t
  <2>2. i \in 1 .. (p + t) - (p + 1) + 1 /\ (p + 1) + i - 1 = p + i
    OBVIOUS
  <2>3. QED
    BY <1>2, <2>2
<1>4. Len(SubSeq(source, p + 1, p + t)) = t
  BY <1>2
<1>5. QED
  BY <1>2, <1>3, <1>4 DEF SourceBytes

(* An instruction for literals, the literals, and what follows.            *)
LEMMA Emitted ==
    ASSUME source \in Seq(Bytes), NEW run \in Seq(Bytes), NEW rest \in Seq(Bytes),
           NEW p \in Nat, NEW t \in Nat, p + t <= Len(source)
    PROVE  /\ run \o SourceBytes(p, t) \o rest \in Seq(Bytes)
           /\ Len(run \o SourceBytes(p, t) \o rest) = Len(run) + t + Len(rest)
           /\ \A i \in 1 .. Len(run) : (run \o SourceBytes(p, t) \o rest)[i] = run[i]
           /\ \A i \in 1..t : (run \o SourceBytes(p, t) \o rest)[Len(run) + i] = source[p + i]
           /\ \A i \in 1 .. Len(rest) :
                 (run \o SourceBytes(p, t) \o rest)[Len(run) + t + i] = rest[i]
<1> DEFINE b == SourceBytes(p, t)
<1>1. b \in Seq(Bytes) /\ Len(b) = t /\ \A i \in 1..t : b[i] = source[p + i]
  BY SourceBytesFacts
<1> HIDE DEF b
<1>2. Len(run) \in Nat /\ Len(rest) \in Nat
  BY LenProperties
<1>3. /\ run \o b \in Seq(Bytes) /\ Len(run \o b) = Len(run) + t
      /\ \A i \in 1 .. Len(run) : (run \o b)[i] = run[i]
      /\ \A i \in 1..t : (run \o b)[Len(run) + i] = b[i]
  <2>1. /\ run \o b \in Seq(Bytes) /\ Len(run \o b) = Len(run) + Len(b)
        /\ \A i \in 1 .. Len(run) : (run \o b)[i] = run[i]
        /\ \A i \in 1 .. Len(b) : (run \o b)[Len(run) + i] = b[i]
    BY <1>1, Joined
  <2>2. QED
    BY <1>1, <2>1
<1> DEFINE rb == run \o b
<1>4. rb \in Seq(Bytes) /\ Len(rb) = Len(run) + t
  BY <1>3
<1> HIDE DEF rb
<1>5. /\ rb \o rest \in Seq(Bytes) /\ Len(rb \o rest) = Len(rb) + Len(rest)
      /\ \A i \in 1 .. Len(rb) : (rb \o rest)[i] = rb[i]
      /\ \A i \in 1 .. Len(rest) : (rb \o rest)[Len(rb) + i] = rest[i]
  BY <1>4, Joined
<1>6. \A i \in 1 .. Len(run) : (rb \o rest)[i] = run[i]
  <2>1. TAKE i \in 1 .. Len(run)
  <2>2. i \in 1 .. Len(rb)
    BY <1>2, <1>4
  <2>3. QED
    BY <1>3, <1>5, <2>2 DEF rb
<1>7. \A i \in 1..t : (rb \o rest)[Len(run) + i] = source[p + i]
  <2>1. TAKE i \in 1..t
  <2>2. Len(run) + i \in 1 .. Len(rb)
    BY <1>2, <1>4
  <2>3. rb[Len(run) + i] = source[p + i]
    BY <1>1, <1>3 DEF rb
  <2>4. QED
    BY <1>5, <2>2, <2>3
<1>8. \A i \in 1 .. Len(rest) : (rb \o rest)[Len(run) + t + i] = rest[i]
  BY <1>4, <1>5
<1>9. Len(rb \o rest) = Len(run) + t + Len(rest)
  BY <1>4, <1>5
<1>10. rb \o rest = run \o SourceBytes(p, t) \o rest
  BY DEF rb, b
<1>11. QED
  BY <1>5, <1>6, <1>7, <1>8, <1>9, <1>10

LEMMA EmittedRun ==
    ASSUME source \in Seq(Bytes), NEW run \in Seq(Bytes), NEW rest \in Seq(Bytes),
           NEW p \in Nat, NEW t \in Nat, p + t <= Len(source)
    PROVE  \A i \in 1 .. Len(run) : (run \o SourceBytes(p, t) \o rest)[i] = run[i]
  BY Emitted, ZenonT(60)

LEMMA EmittedLiterals ==
    ASSUME source \in Seq(Bytes), NEW run \in Seq(Bytes), NEW rest \in Seq(Bytes),
           NEW p \in Nat, NEW t \in Nat, p + t <= Len(source)
    PROVE  \A i \in 1..t : (run \o SourceBytes(p, t) \o rest)[Len(run) + i] = source[p + i]
  BY Emitted, ZenonT(60)

LEMMA EmittedRest ==
    ASSUME source \in Seq(Bytes), NEW run \in Seq(Bytes), NEW rest \in Seq(Bytes),
           NEW p \in Nat, NEW t \in Nat, p + t <= Len(source)
    PROVE  \A i \in 1 .. Len(rest) :
              (run \o SourceBytes(p, t) \o rest)[Len(run) + t + i] = rest[i]
  BY Emitted, ZenonT(60)

-----------------------------------------------------------------------------
(* The steps of the compressor.                                            *)
LEMMA ByteStrings ==
    ASSUME PackInv
    PROVE  Len(source) \in Nat /\ Len(out) \in Nat
  BY LenProperties DEF PackInv

LEMMA InitPacks == ASSUME LzoInit PROVE PackInv
<1>1. ASSUME NEW s \in Sources, Packs(s) PROVE PackInv
  <2>1. source \in Seq(Bytes) /\ out \in Seq(Bytes) /\ Len(out) = 0 /\ Len(source) \in Nat
    BY <1>1, LzoAssumption, LenProperties DEF Packs, Bytes
  <2>2. PackerType /\ InBlock /\ OfPacked
    BY <1>1, <2>1 DEF Packs, Packing, PackerType, InBlock, OfPacked, Packed
  <2>3. WithinBuffers
    BY <1>1, <2>1 DEF Packs, WithinBuffers, W!MostCompressed
  <2>4. QED
    BY <1>1, <2>1, <2>2, <2>3 DEF Packs, PackInv
<1>2. ASSUME NEW f \in Foreign, Unpacks(f) PROVE PackInv
  <2>1. source \in Seq(Bytes) /\ out \in Seq(Bytes) /\ Len(source) \in Nat
    BY <1>2, LzoAssumption, LenProperties DEF Unpacks, Bytes
  <2>2. PackerType /\ packer.pc = "done"
    BY <1>2 DEF Unpacks, Packing, PackerType
  <2>3. WithinBuffers
    <3>1. reach.read = 0 /\ reach.written = 0
      BY <1>2 DEF Unpacks
    <3>2. QED
      BY <2>1, <3>1 DEF WithinBuffers, W!MostCompressed
  <2>4. QED
    BY <1>2, <2>1, <2>2, <2>3 DEF Unpacks, PackInv
<1>3. QED
  BY <1>1, <1>2 DEF LzoInit

LEMMA CandidateFacts ==
    ASSUME PackInv, packer.pc = "probe", NEW slot
    PROVE  /\ Candidate(packer, slot) \in Nat
           /\ packer.block <= Candidate(packer, slot) /\ Candidate(packer, slot) < packer.ip
<1>1. CASE slot \in DOMAIN packer.dict
  <2>1. packer.dict[slot] \in Nat /\ packer.dict[slot] < packer.ip - packer.block
    BY <1>1 DEF PackInv, InBlock
  <2>2. Candidate(packer, slot) = packer.block + packer.dict[slot]
    BY <1>1 DEF Candidate
  <2>3. QED
    BY <2>1, <2>2 DEF PackInv, PackerType
<1>2. CASE slot \notin DOMAIN packer.dict
  <2>1. Candidate(packer, slot) = packer.block + 0
    BY <1>2 DEF Candidate
  <2>2. QED
    BY <2>1 DEF PackInv, PackerType, InBlock
<1>3. QED
  BY <1>1, <1>2

LEMMA EnteredFacts ==
    ASSUME PackInv, packer.pc = "probe", NEW ip \in Nat, packer.ip < ip,
           NEW slot \in DOMAIN Entered(packer)
    PROVE  Entered(packer)[slot] \in Nat /\ Entered(packer)[slot] < ip - packer.block
<1> DEFINE h == Hash(Word4(source, packer.ip))
           v == packer.ip - packer.block
<1>1. v \in Nat /\ v < ip - packer.block
  BY DEF PackInv, PackerType, InBlock
<1>2. Entered(packer) = [s \in DOMAIN packer.dict \cup {h} |-> IF s = h THEN v ELSE packer.dict[s]]
  BY DEF Entered
<1> HIDE DEF h, v
<1>3. slot = h \/ slot \in DOMAIN packer.dict
  BY <1>2
<1>4. CASE slot = h
  <2>1. Entered(packer)[slot] = v
    BY <1>2, <1>4
  <2>2. QED
    BY <1>1, <2>1
<1>5. CASE slot # h /\ slot \in DOMAIN packer.dict
  <2>1. Entered(packer)[slot] = packer.dict[slot]
    BY <1>2, <1>5
  <2>2. packer.dict[slot] \in Nat /\ packer.dict[slot] < packer.ip - packer.block
    BY <1>5 DEF PackInv, InBlock
  <2>3. QED
    BY <2>1, <2>2 DEF PackInv, PackerType
<1>6. QED
  BY <1>3, <1>4, <1>5

LEMMA BeginBlockPacks == ASSUME PackInv, BeginBlock PROVE PackInv'
<1> DEFINE in == packer.end
           size == Least(Left, BlockMax)
           ip == in + (IF packer.ti < 4 THEN 4 - packer.ti ELSE 0)
<1>0. packer.pc = "block" /\ Len(source) \in Nat /\ Len(out) \in Nat
  BY ByteStrings DEF BeginBlock
<1>1. /\ packer.block \in Nat /\ in \in Nat /\ packer.ip \in Nat /\ packer.ii \in Nat
      /\ packer.ti \in Nat /\ packer.ti <= in /\ in <= Len(source)
  BY <1>0 DEF PackInv, PackerType, InBlock
<1>2. size \in Nat /\ size > Margin /\ size <= BlockMax /\ in + size <= Len(source)
  <2>1. Left \in Nat /\ Left > Margin /\ in + Left = Len(source)
    BY <1>0, <1>1 DEF BeginBlock, Compressible, Left, Margin
  <2>2. QED
    BY <1>1, <2>1 DEF Least, BlockMax, Margin
<1>3. ip \in Nat /\ in <= ip /\ ip >= in + 4 - packer.ti
  BY <1>1
<1>4. Step(ip, in) \in Nat /\ in < Step(ip, in) /\ Step(ip, in) >= in - packer.ti + 4
  <2>1. (ip - in) \div 32 \in Nat
    BY <1>1, <1>3
  <2> HIDE DEF ip, in
  <2>2. QED
    BY <1>1, <1>3, <2>1 DEF Step
<1>5. packer' = [pc |-> "probe", block |-> in, end |-> in + size, ip |-> Step(ip, in),
                 ii |-> in, ti |-> packer.ti, dict |-> <<>>]
  BY DEF BeginBlock, PackInv, PackerType
<1>6. UNCHANGED <<source, out, reach>>
  BY DEF BeginBlock
<1> HIDE DEF in, size, ip
<1>7. Packed = in - packer.ti /\ Packed' = in - packer.ti
  BY <1>0, <1>5 DEF Packed, in
<1>8. PackerType'
  BY <1>1, <1>2, <1>4, <1>5 DEF PackerType
<1>9. InBlock'
  BY <1>0, <1>1, <1>2, <1>4, <1>5, <1>6 DEF InBlock
<1>10. OfPacked'
  <2>1. OfPacked
    BY <1>0 DEF PackInv
  <2>2. packer'.ip >= Packed' + 4
    BY <1>4, <1>5, <1>7
  <2>3. QED
    BY <1>5, <1>6, <1>7, <2>1, <2>2 DEF OfPacked
<1>11. QED
  BY <1>6, <1>8, <1>9, <1>10 DEF PackInv, WithinBuffers

LEMMA ProbeMissesPacks == ASSUME PackInv, ProbeMisses PROVE PackInv'
<1> DEFINE ip == Step(packer.ip, packer.ii)
<1>0. packer.pc = "probe" /\ Len(source) \in Nat /\ Len(out) \in Nat
  BY ByteStrings DEF ProbeMisses
<1>1. PackerType /\ InBlock /\ OfPacked
  BY <1>0 DEF PackInv
<1>2. ip \in Nat /\ packer.ip < ip
  <2>1. packer.ip \in Nat /\ packer.ii \in Nat /\ packer.ii <= packer.ip
    BY <1>0, <1>1 DEF PackerType, InBlock
  <2>2. (packer.ip - packer.ii) \div 32 \in Nat
    BY <2>1
  <2>3. QED
    BY <2>1, <2>2 DEF Step
<1>3. packer' = [pc |-> "probe", block |-> packer.block, end |-> packer.end, ip |-> ip,
                 ii |-> packer.ii, ti |-> packer.ti, dict |-> Entered(packer)]
  <2>1. packer' = [packer EXCEPT !.dict = Entered(packer), !.ip = ip]
    BY DEF ProbeMisses
  <2>2. QED
    BY <1>0, <1>1, <2>1 DEF PackerType
<1>4. UNCHANGED <<source, out, reach>>
  BY DEF ProbeMisses
<1> HIDE DEF ip
<1>5. Packed' = Packed
  BY <1>0, <1>3 DEF Packed
<1>6. Packed \in Int
  BY <1>0, <1>1 DEF Packed, PackerType
<1>7. PackerType'
  BY <1>1, <1>2, <1>3 DEF PackerType
<1>8. InBlock'
  <2>1. \A slot \in DOMAIN Entered(packer) :
           Entered(packer)[slot] \in Nat /\ Entered(packer)[slot] < ip - packer.block
    BY <1>0, <1>2, EnteredFacts
  <2>2. packer.ip \in Nat /\ packer.ii \in Nat /\ packer.block \in Nat
    BY <1>1 DEF PackerType
  <2>3. QED
    BY <1>0, <1>1, <1>2, <1>3, <1>4, <2>1, <2>2 DEF InBlock
<1>9. OfPacked'
  <2>1. packer.ip \in Nat
    BY <1>1 DEF PackerType
  <2>2. packer'.ip >= Packed' + 4 \/ (packer'.ti = 0 /\ out' # <<>>)
    BY <1>0, <1>1, <1>2, <1>3, <1>4, <1>5, <1>6, <2>1 DEF OfPacked
  <2>3. QED
    BY <1>1, <1>4, <1>5, <2>2 DEF OfPacked
<1>10. QED
  BY <1>4, <1>7, <1>8, <1>9 DEF PackInv, WithinBuffers

LEMMA EndBlockPacks == ASSUME PackInv, EndBlock PROVE PackInv'
<1>0. packer.pc = "probe" /\ Len(source) \in Nat /\ Len(out) \in Nat
  BY ByteStrings DEF EndBlock
<1>1. PackerType /\ InBlock /\ OfPacked
  BY <1>0 DEF PackInv
<1>2. UNCHANGED <<source, out, reach>>
  BY DEF EndBlock
<1> DEFINE ti == packer.end - (packer.ii - packer.ti)
<1>3. ti \in Nat /\ ti <= packer.end
  BY <1>0, <1>1 DEF PackerType, InBlock
<1>4. packer' = [pc |-> "block", block |-> packer.block, end |-> packer.end, ip |-> packer.ip,
                 ii |-> packer.ii, ti |-> ti, dict |-> packer.dict]
  BY <1>1 DEF EndBlock, PackerType
<1>5. Packed' = Packed
  <2>1. packer.end - ti = packer.ii - packer.ti
    BY <1>1 DEF PackerType
  <2> HIDE DEF ti
  <2>2. QED
    BY <1>0, <1>4, <2>1 DEF Packed
<1> HIDE DEF ti
<1>6. PackerType'
  BY <1>1, <1>3, <1>4 DEF PackerType
<1>7. InBlock'
  BY <1>1, <1>2, <1>3, <1>4 DEF InBlock
<1>8. OfPacked'
  BY <1>1, <1>2, <1>4, <1>5 DEF OfPacked
<1>9. QED
  BY <1>2, <1>6, <1>7, <1>8 DEF PackInv, WithinBuffers

(* What a match is: the bytes at the probe are those some bytes back, and  *)
(* not before the block.                                                   *)
LEMMA MatchTaken ==
    ASSUME PackInv, ProbeMatches
    PROVE  \E len \in Nat, off \in Offsets, t \in Nat :
              /\ packer.pc = "probe" /\ len >= 4 /\ off <= packer.ip
              /\ Packed \in Nat /\ packer.ip = Packed + t
              /\ t \in 1..3 => Len(out) >= 2
              /\ out = <<>> => t >= 4
              /\ packer.ip + len <= packer.end
              /\ packer.ip + 4 + 8 * ((len - 4) \div 8) + 8 <= packer.end
              /\ \A i \in 1..len : source[packer.ip + i] = source[packer.ip + i - off]
              /\ out' = LiteralRun(out, t) \o SourceBytes(Packed, t) \o Match(len, off)
              /\ reach' = [read |-> Greatest(reach.read, packer.ip + 4 + 8 * ((len - 4) \div 8) + 8),
                           written |-> Greatest(reach.written,
                                                Greatest(CopyReach(out, t), Len(out')))]
              /\ packer' = [pc |-> "probe", block |-> packer.block, end |-> packer.end,
                            ip |-> packer.ip + len, ii |-> packer.ip + len, ti |-> 0,
                            dict |-> Entered(packer)]
              /\ UNCHANGED <<source, unpacker, dst>>
<1> DEFINE ip == packer.ip
           w == Word4(source, ip)
           m == Candidate(packer, Hash(w))
           len == MatchLength(ip, m, Limit)
           t == ip - (packer.ii - packer.ti)
<1>0. packer.pc = "probe" /\ Len(source) \in Nat /\ Len(out) \in Nat
  BY ByteStrings DEF ProbeMatches
<1>1. PackerType /\ InBlock /\ OfPacked /\ source \in Seq(Bytes)
  BY <1>0 DEF PackInv
<1>2. /\ packer.block \in Nat /\ packer.end \in Nat /\ ip \in Nat /\ packer.ii \in Nat
      /\ packer.ti \in Nat /\ packer.ti <= packer.ii /\ packer.ii <= ip /\ packer.block < ip
      /\ packer.end <= Len(source) /\ packer.end - packer.block <= BlockMax
  BY <1>0, <1>1 DEF PackerType, InBlock
<1>3. Limit \in Nat /\ ip < Limit /\ Limit + Margin = packer.end
  <2>1. ip < Limit
    BY DEF ProbeMatches
  <2>2. Limit = packer.end - 20
    BY DEF Limit, Margin
  <2>3. QED
    BY <1>2, <2>1, <2>2 DEF Margin
<1>4. m \in Nat /\ packer.block <= m /\ m < ip
  <2> HIDE DEF w
  <2> QED
    BY <1>0, CandidateFacts
<1>5. /\ w = Word4(source, m)
      /\ out' = LiteralRun(out, t) \o SourceBytes(packer.ii - packer.ti, t) \o Match(len, ip - m)
      /\ reach' = [read |-> Greatest(reach.read, ip + 4 + 8 * ((len - 4) \div 8) + 8),
                   written |-> Greatest(reach.written, Greatest(CopyReach(out, t), Len(out')))]
      /\ packer' = [packer EXCEPT !.dict = Entered(packer), !.ti = 0,
                                  !.ip = ip + len, !.ii = ip + len]
      /\ UNCHANGED <<source, unpacker, dst>>
  BY DEF ProbeMatches
<1>6. Packed = packer.ii - packer.ti /\ Packed \in Nat /\ t \in Nat /\ ip = Packed + t
  BY <1>0, <1>2 DEF Packed
<1>7. packer' = [pc |-> "probe", block |-> packer.block, end |-> packer.end,
                 ip |-> ip + len, ii |-> ip + len, ti |-> 0, dict |-> Entered(packer)]
  BY <1>0, <1>1, <1>5 DEF PackerType
<1> HIDE DEF w, m, t
<1>8. /\ len \in Nat /\ 4 <= len /\ ip + len <= Limit + 12
      /\ \A j \in 4 .. len - 1 : source[ip + j + 1] = source[m + j + 1]
      /\ ip + 4 + 8 * ((len - 4) \div 8) + 8 <= Limit + Margin
  <2>1. Limit + Margin <= Len(source)
    BY <1>2, <1>3
  <2> DEFINE limit == Limit
  <2>2. limit \in Nat /\ limit + Margin <= Len(source) /\ ip < limit
    BY <1>3, <2>1
  <2> HIDE DEF limit
  <2>3. /\ MatchLength(ip, m, limit) \in Nat
        /\ 4 <= MatchLength(ip, m, limit)
        /\ ip + MatchLength(ip, m, limit) <= limit + 12
        /\ \A j \in 4 .. MatchLength(ip, m, limit) - 1 : source[ip + j + 1] = source[m + j + 1]
        /\ ip + 4 + 8 * ((MatchLength(ip, m, limit) - 4) \div 8) + 8 <= limit + Margin
    BY <1>1, <1>2, <1>4, <2>2, MatchLengthFacts
  <2>4. QED
    BY <2>3 DEF limit
<1> HIDE DEF len
<1> DEFINE limit == Limit
<1>81. limit \in Nat /\ ip < limit /\ limit + 20 = packer.end
  BY <1>3 DEF Margin
<1>82. /\ len \in Nat /\ 4 <= len /\ ip + len <= limit + 12
       /\ ip + 4 + 8 * ((len - 4) \div 8) + 8 <= limit + 20
  BY <1>8 DEF Margin
<1> HIDE DEF limit
<1>9. ip - m \in Offsets /\ ip - m <= ip
  <2>1. ip - m \in Nat /\ 1 <= ip - m /\ ip - m <= 49151
    <3>1. packer.end - packer.block <= 49152
      BY <1>2 DEF BlockMax
    <3>2. QED
      BY <1>2, <1>4, <1>81, <3>1
  <2>2. QED
    BY <1>2, <1>4, <2>1 DEF Offsets
<1>10. ASSUME NEW i \in 1..len PROVE source[ip + i] = source[ip + i - (ip - m)]
  <2>0. i \in Nat /\ 1 <= i /\ i <= len /\ len \in Nat
    BY <1>82
  <2>1. ip + i - (ip - m) = m + i
    BY <1>2, <1>4, <2>0
  <2>2. CASE i <= 4
    <3>1. ip + 4 <= Len(source) /\ m + 4 <= Len(source) /\ i \in 1..4
      BY <1>0, <1>2, <1>4, <1>81, <2>0, <2>2
    <3>2. \A n \in Nat : n + 4 <= Len(source) => Word4(source, n)[i] = source[n + i]
      <4>1. TAKE n \in Nat
      <4>2. HAVE n + 4 <= Len(source)
      <4>3. SourceBytes(n, 4)[i] = source[n + i]
        BY <1>1, <3>1, <4>2, SourceBytesFacts
      <4>4. QED
        BY <4>3 DEF SourceBytes, Word4
    <3>3. Word4(source, ip)[i] = source[ip + i] /\ Word4(source, m)[i] = source[m + i]
      BY <1>2, <1>4, <3>1, <3>2
    <3>4. QED
      BY <1>5, <2>1, <3>3 DEF w
  <2>3. CASE i > 4
    <3>0. i - 1 \in 4 .. len - 1
      BY <2>0, <2>3
    <3>1. ip + (i - 1) + 1 = ip + i /\ m + (i - 1) + 1 = m + i
      BY <1>2, <1>4, <2>0
    <3>2. source[ip + (i - 1) + 1] = source[m + (i - 1) + 1]
      BY <1>8, <3>0
    <3>3. QED
      BY <2>1, <3>1, <3>2
  <2>4. QED
    BY <2>0, <2>2, <2>3
<1>11. (t \in 1..3 => Len(out) >= 2) /\ (out = <<>> => t >= 4)
  <2>1. /\ packer.ip >= Packed + 4 \/ (packer.ti = 0 /\ out # <<>>)
        /\ out # <<>> => Len(out) >= 2
    BY <1>0, <1>1 DEF OfPacked
  <2>2. packer.ip >= Packed + 4 => t >= 4
    BY <1>2, <1>6
  <2>3. t \in 1..3 => ~(t >= 4)
    OBVIOUS
  <2>4. QED
    BY <2>1, <2>2, <2>3
<1>12. ip + len <= packer.end
  BY <1>2, <1>81, <1>82
<1>13. out' = LiteralRun(out, t) \o SourceBytes(Packed, t) \o Match(len, ip - m)
  BY <1>5, <1>6
<1> DEFINE off == ip - m
<1>14. off \in Offsets /\ off <= ip /\ \A i \in 1..len : source[ip + i] = source[ip + i - off]
  BY <1>9, <1>10
<1>15. out' = LiteralRun(out, t) \o SourceBytes(Packed, t) \o Match(len, off)
  BY <1>13
<1>16. ip + 4 + 8 * ((len - 4) \div 8) + 8 <= packer.end
  BY <1>81, <1>82
<1> HIDE DEF off
<1>17. QED
  BY <1>0, <1>5, <1>6, <1>7, <1>8, <1>11, <1>12, <1>14, <1>15, <1>16

(* A sixteenth more than the source, and then some.                        *)
LEMMA Fits ==
    ASSUME NEW n \in Nat, NEW x \in Nat, 16 * x <= 17 * n + 1072
    PROVE  x <= W!MostCompressed(n)
  BY DEF W!MostCompressed

LEMMA GreatestFits ==
    ASSUME NEW a \in Nat, NEW b \in Nat, NEW most, a <= most, b <= most
    PROVE  Greatest(a, b) \in Nat /\ Greatest(a, b) <= most
  BY DEF Greatest

LEMMA CopyReachFits ==
    ASSUME NEW o \in Seq(Bytes), NEW t \in Nat, t \in 1..3 => Len(o) >= 2,
           NEW p \in Nat, 16 * Len(o) <= 17 * p, NEW n \in Nat, p + t <= n
    PROVE  CopyReach(o, t) \in Nat /\ 16 * CopyReach(o, t) <= 17 * n + 1072
<1>1. Len(o) \in Nat
  BY LenProperties
<1>2. CASE t <= 16
  BY <1>1, <1>2 DEF CopyReach
<1>3. CASE t > 16
  <2>1. CopyReach(o, t) = Len(LiteralRun(o, t)) + t
    BY <1>3 DEF CopyReach
  <2>2. Len(LiteralRun(o, t)) = Len(o) + RunSize(t)
    BY LiteralRunFacts
  <2>3. RunSize(t) \in Nat /\ 16 * RunSize(t) <= t + 13
    BY RunSizes
  <2>4. QED
    BY <1>1, <2>1, <2>2, <2>3
<1>4. QED
  BY <1>2, <1>3

LEMMA ProbeMatchesPacks == ASSUME PackInv, ProbeMatches PROVE PackInv'
<1>1. PICK len \in Nat, off \in Offsets, t \in Nat :
         /\ packer.pc = "probe" /\ len >= 4
         /\ Packed \in Nat /\ packer.ip = Packed + t
         /\ t \in 1..3 => Len(out) >= 2
         /\ packer.ip + len <= packer.end
         /\ packer.ip + 4 + 8 * ((len - 4) \div 8) + 8 <= packer.end
         /\ out' = LiteralRun(out, t) \o SourceBytes(Packed, t) \o Match(len, off)
         /\ reach' = [read |-> Greatest(reach.read, packer.ip + 4 + 8 * ((len - 4) \div 8) + 8),
                      written |-> Greatest(reach.written,
                                           Greatest(CopyReach(out, t), Len(out')))]
         /\ packer' = [pc |-> "probe", block |-> packer.block, end |-> packer.end,
                       ip |-> packer.ip + len, ii |-> packer.ip + len, ti |-> 0,
                       dict |-> Entered(packer)]
         /\ UNCHANGED <<source, unpacker, dst>>
  BY MatchTaken
<1>2. Len(source) \in Nat /\ Len(out) \in Nat /\ source \in Seq(Bytes) /\ out \in Seq(Bytes)
  BY ByteStrings DEF PackInv
<1>3. PackerType /\ InBlock /\ OfPacked /\ WithinBuffers
  BY <1>1 DEF PackInv
<1>4. /\ packer.block \in Nat /\ packer.end \in Nat /\ packer.ip \in Nat
      /\ packer.block < packer.ip /\ packer.end <= Len(source)
  BY <1>1, <1>3 DEF PackerType, InBlock
<1> DEFINE run == LiteralRun(out, t)
           match == Match(len, off)
           ip == packer.ip + len
<1>5. run \in Seq(Bytes) /\ Len(run) = Len(out) + RunSize(t)
  BY <1>1, <1>2, LiteralRunFacts
<1>6. /\ match \in Seq(Bytes) /\ Len(match) = MatchSize(len, off)
      /\ match[MatchSize(len, off) - 1] % 4 = 0
  BY <1>1, MatchBytes
<1>7. MatchSize(len, off) \in Nat /\ MatchSize(len, off) >= 2 /\ MatchSize(len, off) < len
  BY <1>1, MatchSizes
<1>8. RunSize(t) \in Nat /\ 16 * RunSize(t) <= t + 13
  BY RunSizes
<1>9. ip \in Nat /\ packer.ip < ip /\ ip <= packer.end /\ ip <= Len(source)
  BY <1>1, <1>4
<1> HIDE DEF run, match, ip
<1>10. Packed + t <= Len(source)
  BY <1>1, <1>4
<1> DEFINE p == Packed
<1>11. p \in Nat /\ p + t <= Len(source) /\ packer.ip = p + t /\ out' = run \o SourceBytes(p, t) \o match
  BY <1>1, <1>10 DEF run, match
<1> HIDE DEF p
<1>12. /\ out' \in Seq(Bytes)
       /\ Len(out') = Len(run) + t + Len(match)
       /\ \A i \in 1 .. Len(match) : out'[Len(run) + t + i] = match[i]
  <2>1. /\ run \o SourceBytes(p, t) \o match \in Seq(Bytes)
        /\ Len(run \o SourceBytes(p, t) \o match) = Len(run) + t + Len(match)
        /\ \A i \in 1 .. Len(match) :
              (run \o SourceBytes(p, t) \o match)[Len(run) + t + i] = match[i]
    <3>1. /\ source \in Seq(Bytes) /\ run \in Seq(Bytes) /\ match \in Seq(Bytes)
          /\ p \in Nat /\ t \in Nat /\ p + t <= Len(source)
      BY <1>2, <1>5, <1>6, <1>11
    <3>2. run \o SourceBytes(p, t) \o match \in Seq(Bytes)
      BY <3>1, Emitted
    <3>3. Len(run \o SourceBytes(p, t) \o match) = Len(run) + t + Len(match)
      BY <3>1, Emitted
    <3>4. \A i \in 1 .. Len(match) :
             (run \o SourceBytes(p, t) \o match)[Len(run) + t + i] = match[i]
      BY <3>1, EmittedRest
    <3>5. QED
      BY <3>2, <3>3, <3>4
  <2>2. out' = run \o SourceBytes(p, t) \o match
    BY <1>11
  <2>3. QED
    BY <2>1, <2>2
<1>13. Len(out') = Len(out) + RunSize(t) + t + MatchSize(len, off)
  BY <1>5, <1>6, <1>12
<1>14. Len(out') \in Nat /\ Len(out') >= 2
  BY <1>2, <1>7, <1>8, <1>13
<1>15. out'[Len(out') - 1] % 4 = 0
  <2> DEFINE i == MatchSize(len, off) - 1
  <2>1. i \in Nat /\ i \in 1 .. Len(match) /\ Len(match) = i + 1
    <3>1. Len(match) = MatchSize(len, off)
      BY <1>6
    <3>2. QED
      BY <1>7, <3>1
  <2>2. match[i] % 4 = 0
    BY <1>6
  <2> HIDE DEF i
  <2>3. Len(run) \in Nat
    <3>1. Len(run) = Len(out) + RunSize(t)
      BY <1>5
    <3>2. QED
      BY <1>2, <1>8, <3>1
  <2>4. Len(out') - 1 = Len(run) + t + i
    <3>1. Len(out') = Len(run) + t + Len(match)
      BY <1>12
    <3>2. QED
      BY <2>1, <2>3, <3>1
  <2>5. out'[Len(run) + t + i] = match[i]
    BY <1>12, <2>1
  <2>6. QED
    BY <2>2, <2>4, <2>5
<1>16. Packed' = ip
  BY <1>1, <1>9 DEF Packed, ip
<1>17. 16 * Len(out) <= 17 * p
  BY <1>3 DEF OfPacked, p
<1>18. 16 * Len(out') <= 17 * ip
  <2>1. ip = p + t + len
    BY <1>11 DEF ip
  <2>2. ASSUME NEW a \in Nat, NEW r \in Nat, NEW m \in Nat, NEW q \in Nat,
               16 * a <= 17 * q, 16 * r <= t + 13, m < len
        PROVE  16 * (a + r + t + m) <= 17 * (q + t + len)
    BY <2>2
  <2>3. p \in Nat
    BY <1>11
  <2> DEFINE a == Len(out)
             r == RunSize(t)
             m == MatchSize(len, off)
  <2>4. /\ a \in Nat /\ r \in Nat /\ m \in Nat /\ m < len
        /\ 16 * a <= 17 * p /\ 16 * r <= t + 13 /\ Len(out') = a + r + t + m
    BY <1>2, <1>7, <1>8, <1>13, <1>17
  <2> HIDE DEF a, r, m
  <2>5. 16 * (a + r + t + m) <= 17 * (p + t + len)
    BY <2>2, <2>3, <2>4
  <2>6. QED
    BY <2>1, <2>4, <2>5
<1>19. OfPacked'
  <2>1. out' # <<>>
    BY <1>14
  <2>2. packer'.pc = "probe" /\ packer'.ti = 0
    BY <1>1
  <2>3. QED
    BY <1>14, <1>15, <1>16, <1>18, <2>1, <2>2 DEF OfPacked
<1>20. PackerType'
  BY <1>1, <1>4, <1>9 DEF PackerType, ip
<1>21. InBlock'
  <2>1. \A slot \in DOMAIN Entered(packer) :
           Entered(packer)[slot] \in Nat /\ Entered(packer)[slot] < ip - packer.block
    BY <1>1, <1>9, EnteredFacts
  <2>2. packer' = [pc |-> "probe", block |-> packer.block, end |-> packer.end, ip |-> ip,
                   ii |-> ip, ti |-> 0, dict |-> Entered(packer)]
    BY <1>1 DEF ip
  <2>3. packer.end - packer.block <= BlockMax
    BY <1>1, <1>3 DEF InBlock
  <2>4. source' = source
    BY <1>1
  <2>5. QED
    BY <1>2, <1>4, <1>9, <2>1, <2>2, <2>3, <2>4 DEF InBlock
<1>22. WithinBuffers' /\ reach' = [read |-> reach'.read, written |-> reach'.written]
       /\ reach'.read \in Nat /\ reach'.written \in Nat
  <2> DEFINE r == packer.ip + 4 + 8 * ((len - 4) \div 8) + 8
             c == CopyReach(out, t)
             n == Len(source)
             most == W!MostCompressed(n)
  <2>1. r \in Nat /\ r <= n
    <3>1. (len - 4) \div 8 \in Nat
      BY <1>1
    <3>2. r <= packer.end
      BY <1>1
    <3> DEFINE q == (len - 4) \div 8
    <3> HIDE DEF q
    <3>3. packer.ip + 4 + 8 * q + 8 \in Nat
      BY <1>4, <3>1 DEF q
    <3>4. QED
      BY <1>2, <1>4, <3>2, <3>3 DEF q
  <2>2. c \in Nat /\ c <= most
    <3>1. n \in Nat /\ p + t <= n /\ p \in Nat
      BY <1>2, <1>11
    <3> HIDE DEF n
    <3>2. /\ CopyReach(out, t) \in Nat
          /\ 16 * CopyReach(out, t) <= 17 * n + 1072
      <4>1. t \in 1..3 => Len(out) >= 2
        BY <1>1
      <4>2. QED
        BY <1>2, <1>17, <3>1, <4>1, CopyReachFits
    <3>3. c \in Nat /\ 16 * c <= 17 * n + 1072
      BY <3>2
    <3> HIDE DEF c
    <3>4. QED
      BY <3>1, <3>3, Fits
  <2>3. Len(out') <= most
    <3>1. 16 * Len(out') <= 17 * n + 1072
      BY <1>2, <1>9, <1>14, <1>18
    <3>2. QED
      BY <1>2, <1>14, <3>1, Fits
  <2>4. reach.read \in Nat /\ reach.written \in Nat /\ reach.read <= n /\ reach.written <= most
    BY <1>3 DEF PackInv, WithinBuffers
  <2>5. /\ reach' = [read |-> Greatest(reach.read, r),
                     written |-> Greatest(reach.written, Greatest(c, Len(out')))]
        /\ source' = source
    BY <1>1
  <2> HIDE DEF r, c
  <2>6. Greatest(reach.read, r) \in Nat /\ Greatest(reach.read, r) <= n
    BY <2>1, <2>4, GreatestFits
  <2>7. Greatest(c, Len(out')) \in Nat /\ Greatest(c, Len(out')) <= most
    BY <1>14, <2>2, <2>3, GreatestFits
  <2>8. /\ Greatest(reach.written, Greatest(c, Len(out'))) \in Nat
        /\ Greatest(reach.written, Greatest(c, Len(out'))) <= most
    BY <2>4, <2>7, GreatestFits
  <2>9. QED
    BY <2>5, <2>6, <2>8 DEF WithinBuffers
<1>23. QED
  BY <1>1, <1>2, <1>12, <1>19, <1>20, <1>21, <1>22 DEF PackInv

(* What is left, all of it literals, and the end of the stream.            *)
LEMMA StreamEnded ==
    ASSUME PackInv, EndStream
    PROVE  \E t \in Nat :
              /\ packer.pc = "block" /\ Packed \in Nat /\ Packed + t = Len(source)
              /\ out' = (IF out = <<>> /\ t \in 1..238 THEN <<17 + t>> ELSE LiteralRun(out, t))
                        \o SourceBytes(Packed, t) \o <<17, 0, 0>>
              /\ reach' = [read |-> reach.read, written |-> Greatest(reach.written, Len(out'))]
              /\ packer' = [pc |-> "done", block |-> packer.block, end |-> packer.end,
                            ip |-> packer.ip, ii |-> packer.ii, ti |-> packer.ti,
                            dict |-> packer.dict]
              /\ UNCHANGED <<source, unpacker, dst>>
<1> DEFINE t == packer.ti + Left
<1>0. packer.pc = "block" /\ Len(source) \in Nat
  BY ByteStrings DEF EndStream
<1>1. PackerType /\ InBlock
  BY <1>0 DEF PackInv
<1>2. /\ packer.end \in Nat /\ packer.ti \in Nat /\ packer.ti <= packer.end
      /\ packer.end <= Len(source)
  BY <1>0, <1>1 DEF PackerType, InBlock
<1>3. Packed = packer.end - packer.ti /\ Left = Len(source) - packer.end
  BY <1>0 DEF Packed, Left
<1>4. t \in Nat /\ Packed \in Nat /\ Packed + t = Len(source) /\ Len(source) - t = Packed
  <2> DEFINE n == Len(source)
             e == packer.end
             i == packer.ti
  <2>1. n \in Nat /\ e \in Nat /\ i \in Nat /\ i <= e /\ e <= n
    BY <1>0, <1>2
  <2>2. Packed = e - i /\ t = i + (n - e)
    BY <1>3
  <2> HIDE DEF n, e, i, t
  <2>3. t \in Nat /\ Packed \in Nat /\ Packed + t = n /\ n - t = Packed
    BY <2>1, <2>2
  <2>4. QED
    BY <2>3 DEF n
<1>5. /\ out' = (IF out = <<>> /\ t \in 1..238 THEN <<17 + t>> ELSE LiteralRun(out, t))
                \o SourceBytes(Len(source) - t, t) \o <<M4Marker + 1, 0, 0>>
      /\ reach' = [reach EXCEPT !.written = Greatest(@, Len(out'))]
      /\ packer' = [packer EXCEPT !.pc = "done"]
      /\ UNCHANGED <<source, unpacker, dst>>
  BY DEF EndStream
<1>6. M4Marker + 1 = 17
  BY DEF M4Marker
<1>7. packer' = [pc |-> "done", block |-> packer.block, end |-> packer.end,
                 ip |-> packer.ip, ii |-> packer.ii, ti |-> packer.ti, dict |-> packer.dict]
  BY <1>1, <1>5 DEF PackerType
<1>8. reach' = [read |-> reach.read, written |-> Greatest(reach.written, Len(out'))]
  BY <1>5 DEF PackInv
<1> HIDE DEF t
<1>9. out' = (IF out = <<>> /\ t \in 1..238 THEN <<17 + t>> ELSE LiteralRun(out, t))
             \o SourceBytes(Packed, t) \o <<17, 0, 0>>
  BY <1>4, <1>5, <1>6
<1>10. QED
  BY <1>0, <1>4, <1>5, <1>7, <1>8, <1>9

(* The instruction for the last literals, first of the stream or not.      *)
LEMMA LastRun ==
    ASSUME NEW o \in Seq(Bytes), o # <<>> => Len(o) >= 2, NEW t \in Nat,
           NEW p \in Nat, 16 * Len(o) <= 17 * p,
           NEW run, run = IF o = <<>> /\ t \in 1..238 THEN <<17 + t>> ELSE LiteralRun(o, t)
    PROVE  run \in Seq(Bytes) /\ 16 * Len(run) <= 17 * p + t + 29
<1>0. Len(o) \in Nat
  BY LenProperties
<1>1. CASE o = <<>> /\ t \in 1..238
  <2>1. 17 + t \in Bytes
    BY <1>1 DEF Bytes
  <2>2. run = <<17 + t>>
    BY <1>1
  <2>3. run \in Seq(Bytes) /\ Len(run) = 1
    BY <2>1, <2>2, OneByte
  <2>4. 16 * 1 <= 17 * p + t + 29
    OBVIOUS
  <2>5. QED
    BY <2>3, <2>4
<1>2. CASE ~(o = <<>> /\ t \in 1..238)
  <2>1. t \in 1..3 => Len(o) >= 2
    BY <1>2
  <2>2. run = LiteralRun(o, t)
    BY <1>2
  <2>3. LiteralRun(o, t) \in Seq(Bytes) /\ Len(LiteralRun(o, t)) = Len(o) + RunSize(t)
    BY <2>1, LiteralRunFacts
  <2>4. RunSize(t) \in Nat /\ 16 * RunSize(t) <= t + 13
    BY RunSizes
  <2>5. Len(run) = Len(o) + RunSize(t)
    BY <2>2, <2>3
  <2>6. 16 * Len(run) <= 17 * p + t + 29
    BY <1>0, <2>4, <2>5
  <2>7. QED
    BY <2>2, <2>3, <2>6
<1>3. QED
  BY <1>1, <1>2

LEMMA EndStreamPacks == ASSUME PackInv, EndStream PROVE PackInv'
<1>1. PICK t \in Nat :
         /\ packer.pc = "block" /\ Packed \in Nat /\ Packed + t = Len(source)
         /\ out' = (IF out = <<>> /\ t \in 1..238 THEN <<17 + t>> ELSE LiteralRun(out, t))
                   \o SourceBytes(Packed, t) \o <<17, 0, 0>>
         /\ reach' = [read |-> reach.read, written |-> Greatest(reach.written, Len(out'))]
         /\ packer' = [pc |-> "done", block |-> packer.block, end |-> packer.end,
                       ip |-> packer.ip, ii |-> packer.ii, ti |-> packer.ti,
                       dict |-> packer.dict]
         /\ UNCHANGED <<source, unpacker, dst>>
  BY StreamEnded
<1>2. Len(source) \in Nat /\ Len(out) \in Nat /\ source \in Seq(Bytes) /\ out \in Seq(Bytes)
  BY ByteStrings DEF PackInv
<1>3. PackerType /\ OfPacked /\ WithinBuffers
  BY <1>1 DEF PackInv
<1> DEFINE run == IF out = <<>> /\ t \in 1..238 THEN <<17 + t>> ELSE LiteralRun(out, t)
           rest == <<17, 0, 0>>
           p == Packed
<1>4. p \in Nat /\ p + t = Len(source) /\ 16 * Len(out) <= 17 * p
      /\ (out # <<>> => Len(out) >= 2)
  BY <1>1, <1>3 DEF OfPacked
<1>5. out' = run \o SourceBytes(p, t) \o rest
  BY <1>1
<1> HIDE DEF p
<1>6. run \in Seq(Bytes) /\ 16 * Len(run) <= 17 * p + t + 29
  <2> DEFINE r == run
  <2>1. r = IF out = <<>> /\ t \in 1..238 THEN <<17 + t>> ELSE LiteralRun(out, t)
    OBVIOUS
  <2> HIDE DEF r
  <2>2. r \in Seq(Bytes) /\ 16 * Len(r) <= 17 * p + t + 29
    BY <1>2, <1>4, <2>1, LastRun
  <2>3. QED
    BY <2>2 DEF r
<1>7. rest \in Seq(Bytes) /\ Len(rest) = 3
  BY DEF Bytes
<1> HIDE DEF run, rest
<1>8. out' \in Seq(Bytes) /\ Len(out') = Len(run) + t + 3
  <2>0. p + t <= Len(source)
    BY <1>2, <1>4
  <2>1. /\ source \in Seq(Bytes) /\ run \in Seq(Bytes) /\ rest \in Seq(Bytes)
        /\ p \in Nat /\ p + t <= Len(source)
    BY <1>2, <1>4, <1>6, <1>7, <2>0
  <2>2. /\ run \o SourceBytes(p, t) \o rest \in Seq(Bytes)
        /\ Len(run \o SourceBytes(p, t) \o rest) = Len(run) + t + Len(rest)
    BY <2>1, Emitted
  <2>3. QED
    BY <1>5, <1>7, <2>1, <2>2
<1>9. Len(out') \in Nat /\ Len(run) \in Nat
  BY <1>6, <1>8, LenProperties
<1>10. Len(out') <= W!MostCompressed(Len(source))
  <2>1. 16 * Len(out') <= 17 * Len(source) + 1072
    BY <1>4, <1>6, <1>8, <1>9
  <2>2. QED
    BY <1>2, <1>9, <2>1, Fits
<1>11. WithinBuffers' /\ reach' = [read |-> reach'.read, written |-> reach'.written]
       /\ reach'.read \in Nat /\ reach'.written \in Nat
  <2> DEFINE most == W!MostCompressed(Len(source))
  <2>1. /\ reach.read \in Nat /\ reach.written \in Nat
        /\ reach.read <= Len(source) /\ reach.written <= most
    BY <1>3 DEF PackInv, WithinBuffers
  <2>2. Greatest(reach.written, Len(out')) \in Nat /\ Greatest(reach.written, Len(out')) <= most
    BY <1>9, <1>10, <2>1, GreatestFits
  <2>3. /\ reach' = [read |-> reach.read, written |-> Greatest(reach.written, Len(out'))]
        /\ source' = source
    BY <1>1
  <2>4. QED
    BY <2>1, <2>2, <2>3 DEF WithinBuffers
<1>12. PackerType' /\ packer'.pc = "done" /\ source' = source
  BY <1>1, <1>3 DEF PackerType
<1>13. QED
  BY <1>2, <1>8, <1>11, <1>12 DEF PackInv

-----------------------------------------------------------------------------
(* Nothing of the compressor changes while the stream is decompressed.     *)
Unpack ==
    \/ Start \/ Run \/ AfterRun \/ FewLiterals
    \/ NearMatch \/ MiddleMatch \/ FarMatch \/ ShortMatch

LEMMA UnpackKeeps == ASSUME Unpack PROVE packer.pc = "done" /\ UNCHANGED <<source, out, packer, reach>>
  BY DEF Unpack, Running, Start, Run, AfterRun, FewLiterals, NearMatch, MiddleMatch, FarMatch,
         ShortMatch

LEMMA KeptPacks == ASSUME PackInv, UNCHANGED <<source, out, packer, reach>> PROVE PackInv'
<1>1. source' = source /\ out' = out /\ packer' = packer /\ reach' = reach
  OBVIOUS
<1>2. Packed' = Packed /\ (PackerType' <=> PackerType) /\ (WithinBuffers' <=> WithinBuffers)
  BY <1>1 DEF Packed, PackerType, WithinBuffers
<1>3. (InBlock' <=> InBlock) /\ (OfPacked' <=> OfPacked)
  BY <1>1, <1>2 DEF InBlock, OfPacked
<1>4. QED
  BY <1>1, <1>2, <1>3 DEF PackInv

LEMMA NextPacks == ASSUME PackInv, [LzoNext]_lzoVars PROVE PackInv'
<1>1. CASE BeginBlock
  BY <1>1, BeginBlockPacks
<1>2. CASE ProbeMisses
  BY <1>2, ProbeMissesPacks
<1>3. CASE ProbeMatches
  BY <1>3, ProbeMatchesPacks
<1>4. CASE EndBlock
  BY <1>4, EndBlockPacks
<1>5. CASE EndStream
  BY <1>5, EndStreamPacks
<1>6. CASE Unpack
  BY <1>6, UnpackKeeps, KeptPacks
<1>7. CASE UNCHANGED lzoVars
  BY <1>7, KeptPacks DEF lzoVars
<1>8. QED
  BY <1>1, <1>2, <1>3, <1>4, <1>5, <1>6, <1>7 DEF LzoNext, Unpack

THEOREM KeepsPacking == LzoSpec => []PackInv
<1>1. LzoInit => PackInv
  BY InitPacks
<1>2. PackInv /\ [LzoNext]_lzoVars => PackInv'
  BY NextPacks
<1>3. QED
  BY <1>1, <1>2, PTL DEF LzoSpec

(* Whatever is compressed, lzo1x_1_compress reads nothing behind the       *)
(* source, and neither the stream nor the copies that write ahead of it    *)
(* leave the buffer of n + n/16 + 67 bytes.                                *)
THEOREM StaysWithinBuffers == LzoSpec => []WithinBuffers
<1>1. PackInv => WithinBuffers
  BY DEF PackInv
<1>2. QED
  BY <1>1, KeepsPacking, PTL

-----------------------------------------------------------------------------
(* What a stream says.                                                     *)

(* A number of the bytes of a stream o.  The byte at d holds it in its low *)
(* bits, or these are 0 and it is added up behind it; at is the last byte  *)
(* of the number.                                                          *)
AddedUp(o, d, n, at) ==
    /\ at \in Nat /\ d < at /\ at <= Len(o)
    /\ \A j \in Nat : d < j /\ j < at => o[j] = 0
    /\ o[at] # 0
    /\ n = 255 * (at - d - 1) + o[at]
Counted(o, d, mask, n, at) ==
    \/ o[d] % (mask + 1) # 0 /\ n = o[d] % (mask + 1) /\ at = d
    \/ o[d] % (mask + 1) = 0 /\ \E k \in Nat : AddedUp(o, d, k, at) /\ n = mask + k

(* After a bytes of the stream t literals are announced, which begin after *)
(* at bytes: in the low bits of the last match, by an instruction of their *)
(* own or by the first byte of all.                                        *)
Announced(o, a, t, at) ==
    \/ a >= 2 /\ t \in 0..3 /\ o[a - 1] % 4 = t /\ at = a
    \/ /\ a >= 2 => o[a - 1] % 4 = 0
       /\ a + 1 <= Len(o) /\ o[a + 1] < 16
       /\ \E n \in Nat \ {0} : Counted(o, a + 1, 15, n, at) /\ t = n + 3
    \/ a = 0 /\ 1 <= Len(o) /\ o[1] <= 17 /\ t = 0 /\ at = 0
    \/ a = 0 /\ 1 <= Len(o) /\ t \in 1..238 /\ o[1] = 17 + t /\ at = 1

(* The bytes after at are the t bytes of the source s after p.             *)
Literals(o, s, at, p, t) ==
    /\ at + t <= Len(o) /\ p + t <= Len(s)
    /\ \A i \in 1..t : o[at + i] = s[p + i]

(* The instruction after d bytes, t literals before it, is for a match of  *)
(* len bytes off bytes back, and b bytes are gone with it.                 *)
Instructs(o, d, t, len, off, b) ==
    /\ d + 2 <= b /\ b <= Len(o)
    /\ \/ /\ o[d + 1] >= 64 /\ b = d + 2
          /\ len = o[d + 1] \div 32 + 1 /\ off = 1 + ((o[d + 1] \div 4) % 8) + o[b] * 8
       \/ /\ o[d + 1] >= 32 /\ o[d + 1] < 64
          /\ \E n \in Nat \ {0} : Counted(o, d + 1, 31, n, b - 2) /\ len = n + 2
          /\ off = 1 + (o[b - 1] \div 4) + o[b] * 64
       \/ /\ o[d + 1] >= 16 /\ o[d + 1] < 32
          /\ \E n \in Nat \ {0} : Counted(o, d + 1, 7, n, b - 2) /\ len = n + 2
          /\ off = 16384 + 16384 * ((o[d + 1] \div 8) % 2) + (o[b - 1] \div 4) + o[b] * 64
          /\ off > 16384
       \/ /\ o[d + 1] < 16 /\ b = d + 2 /\ t \in 1..3
          /\ len = 2 /\ off = 1 + (o[d + 1] \div 4) + o[b] * 4
       \/ /\ o[d + 1] < 16 /\ b = d + 2 /\ t > 3
          /\ len = 3 /\ off = 2049 + (o[d + 1] \div 4) + o[b] * 4

(* The len bytes of s after q are those off bytes before.                  *)
Repeats(s, q, len, off) ==
    /\ 1 <= off /\ off <= q /\ q + len <= Len(s)
    /\ \A i \in 1..len : s[q + i] = s[q + i - off]

Ends(o, d) == Len(o) = d + 3 /\ o[d + 1] = 17 /\ o[d + 2] = 0 /\ o[d + 3] = 0

(* M is the set of the pairs <<a, p>> such that an instruction for         *)
(* literals, or none, comes after a bytes of the stream, which stand for p *)
(* bytes of the source.                                                    *)
GoesOn(o, s, M, d, q, t) ==
    \E m \in M : \E len, off \in Nat \ {0} :
       Instructs(o, d, t, len, off, m[1]) /\ Repeats(s, q, len, off) /\ m[2] = q + len
Follows(o, s, M, d, q, t) == (Ends(o, d) /\ q = Len(s)) \/ GoesOn(o, s, M, d, q, t)

Continues(o, s, M, m) ==
    \E t, at \in Nat : /\ Announced(o, m[1], t, at)
                       /\ Literals(o, s, at, m[2], t)
                       /\ GoesOn(o, s, M, at + t, m[2] + t, t)
Reads(o, s, M, m) ==
    \E t, at \in Nat : /\ Announced(o, m[1], t, at)
                       /\ Literals(o, s, at, m[2], t)
                       /\ Follows(o, s, M, at + t, m[2] + t, t)

Tells(o, s, M) == <<0, 0>> \in M /\ \A m \in M : Reads(o, s, M, m)

(* The stream o stands for the source s: instruction by instruction, it    *)
(* tells how s is put together.                                            *)
StandsFor(o, s) == \E M \in SUBSET (Nat \X Nat) : Tells(o, s, M)

-----------------------------------------------------------------------------
(* A stream that is continued says what it said, when nothing of it        *)
(* changes but the low bits of its last match.                             *)
Grows(o, o2) ==
    /\ Len(o) <= Len(o2)
    /\ \A i \in 1 .. Len(o) : i # Len(o) - 1 => o2[i] = o[i]
    /\ Len(o) >= 2 => o2[Len(o) - 1] \div 4 = o[Len(o) - 1] \div 4

LEMMA CountedKept ==
    ASSUME NEW o, NEW o2, NEW d \in Nat, NEW mask, NEW n, NEW at \in Nat,
           Counted(o, d, mask, n, at), at <= Len(o2), \A i \in d..at : o2[i] = o[i]
    PROVE  Counted(o2, d, mask, n, at)
<1>1. CASE o[d] % (mask + 1) # 0 /\ n = o[d] % (mask + 1) /\ at = d
  <2>1. o2[d] = o[d]
    BY <1>1
  <2>2. QED
    BY <1>1, <2>1 DEF Counted
<1>2. CASE o[d] % (mask + 1) = 0 /\ \E k \in Nat : AddedUp(o, d, k, at) /\ n = mask + k
  <2>1. PICK k \in Nat : AddedUp(o, d, k, at) /\ n = mask + k
    BY <1>2
  <2>2. d < at
    BY <2>1 DEF AddedUp
  <2>3. o2[d] = o[d] /\ o2[at] = o[at]
    BY <2>2
  <2>4. AddedUp(o2, d, k, at)
    <3>1. \A j \in Nat : d < j /\ j < at => o2[j] = 0
      <4>1. TAKE j \in Nat
      <4>2. HAVE d < j /\ j < at
      <4>3. o2[j] = o[j]
        BY <4>2
      <4>4. o[j] = 0
        BY <2>1, <4>2 DEF AddedUp
      <4>5. QED
        BY <4>3, <4>4
    <3>2. QED
      BY <2>1, <2>3, <3>1 DEF AddedUp
  <2>5. QED
    BY <1>2, <2>1, <2>3, <2>4 DEF Counted
<1>3. QED
  BY <1>1, <1>2 DEF Counted

LEMMA SameQuarter ==
    ASSUME NEW x \in Bytes, NEW y \in Bytes, x \div 4 = y \div 4
    PROVE  x \div 32 = y \div 32 /\ (x >= 64 <=> y >= 64) /\ (x < 16 <=> y < 16)
  BY DEF Bytes

LEMMA CountedAt ==
    ASSUME NEW o, NEW d \in Nat, NEW mask, NEW n, NEW at, Counted(o, d, mask, n, at)
    PROVE  at \in Nat /\ d <= at
  BY DEF Counted, AddedUp

LEMMA InstructsForms ==
    ASSUME NEW o, NEW d, NEW t \in Nat, NEW len, NEW off, NEW b, Instructs(o, d, t, len, off, b)
    PROVE  \/ o[d + 1] >= 64 \/ t > 0
           \/ \E n : Counted(o, d + 1, 31, n, b - 2)
           \/ \E n : Counted(o, d + 1, 7, n, b - 2)
<1>1. \/ o[d + 1] >= 64 \/ t \in 1..3 \/ t > 3
      \/ \E n : Counted(o, d + 1, 31, n, b - 2)
      \/ \E n : Counted(o, d + 1, 7, n, b - 2)
  BY DEF Instructs
<1>2. t \in 1..3 => t > 0
  OBVIOUS
<1>3. QED
  BY <1>1, <1>2

LEMMA InstructsKept ==
    ASSUME NEW o \in Seq(Bytes), NEW o2 \in Seq(Bytes), Grows(o, o2),
           NEW d \in Nat, NEW t \in Nat, NEW len, NEW off, NEW b \in Nat,
           b = Len(o) \/ b + 2 <= Len(o), Instructs(o, d, t, len, off, b)
    PROVE  Instructs(o2, d, t, len, off, b)
<1>1. Len(o) \in Nat /\ Len(o2) \in Nat /\ Len(o) <= Len(o2) /\ d + 2 <= b /\ b <= Len(o)
  BY LenProperties DEF Grows, Instructs
<1>2. ASSUME NEW i \in d + 1 .. b, i # b - 1 PROVE o2[i] = o[i]
  <2>1. i \in 1 .. Len(o) /\ i # Len(o) - 1
    BY <1>1, <1>2
  <2>2. QED
    BY <2>1 DEF Grows
<1>3. o[b - 1] \in Bytes /\ o2[b - 1] \in Bytes
  <2>1. b - 1 \in 1 .. Len(o) /\ b - 1 \in 1 .. Len(o2)
    BY <1>1
  <2>2. QED
    BY <2>1, ElementOfSeq
<1>4. o2[b - 1] \div 4 = o[b - 1] \div 4
  <2>1. CASE b = Len(o)
    BY <1>1, <2>1 DEF Grows
  <2>2. CASE b + 2 <= Len(o)
    <3>1. b - 1 \in 1 .. Len(o) /\ b - 1 # Len(o) - 1
      BY <1>1, <2>2
    <3>2. QED
      BY <3>1 DEF Grows
  <2>3. QED
    BY <2>1, <2>2
<1>5. /\ o2[b - 1] \div 32 = o[b - 1] \div 32 /\ (o2[b - 1] >= 64 <=> o[b - 1] >= 64)
      /\ (o2[b - 1] < 16 <=> o[b - 1] < 16)
  BY <1>3, <1>4, SameQuarter
<1>6. b \in d + 1 .. b /\ b # b - 1 /\ b <= Len(o2)
  BY <1>1
<1>7. o2[b] = o[b]
  BY <1>2, <1>6
<1>8. CASE b = d + 2
  <2>1. d + 1 = b - 1
    BY <1>8
  <2>2. /\ o2[d + 1] \div 4 = o[d + 1] \div 4 /\ o2[d + 1] \div 32 = o[d + 1] \div 32
        /\ (o2[d + 1] >= 64 <=> o[d + 1] >= 64) /\ (o2[d + 1] < 16 <=> o[d + 1] < 16)
    BY <1>4, <1>5, <2>1
  <2>3. ~\E n : Counted(o, d + 1, 31, n, b - 2) \/ Counted(o, d + 1, 7, n, b - 2)
    <3>1. ASSUME NEW n, NEW mask, Counted(o, d + 1, mask, n, b - 2) PROVE FALSE
      <4>1. d + 1 <= b - 2
        BY <3>1, CountedAt
      <4>2. QED
        BY <1>8, <4>1
    <3>2. QED
      BY <3>1
  <2>4. \/ /\ o[d + 1] >= 64
           /\ len = o[d + 1] \div 32 + 1 /\ off = 1 + ((o[d + 1] \div 4) % 8) + o[b] * 8
        \/ /\ o[d + 1] < 16 /\ t \in 1..3
           /\ len = 2 /\ off = 1 + (o[d + 1] \div 4) + o[b] * 4
        \/ /\ o[d + 1] < 16 /\ t > 3
           /\ len = 3 /\ off = 2049 + (o[d + 1] \div 4) + o[b] * 4
    BY <2>3 DEF Instructs
  <2>5. QED
    BY <1>1, <1>6, <1>7, <1>8, <2>2, <2>4 DEF Instructs
<1>9. CASE b # d + 2
  <2>1. d + 1 \in d + 1 .. b /\ d + 1 # b - 1
    BY <1>1, <1>9
  <2>2. o2[d + 1] = o[d + 1]
    BY <1>2, <2>1
  <2>3. ASSUME NEW mask, NEW n, Counted(o, d + 1, mask, n, b - 2)
        PROVE  Counted(o2, d + 1, mask, n, b - 2)
    <3>1. \A i \in d + 1 .. b - 2 : o2[i] = o[i]
      <4>1. TAKE i \in d + 1 .. b - 2
      <4>2. i \in d + 1 .. b /\ i # b - 1
        BY <1>1
      <4>3. QED
        BY <1>2, <4>2
    <3>2. d + 1 \in Nat /\ b - 2 \in Nat /\ b - 2 <= Len(o2)
      BY <1>1
    <3>3. QED
      BY <2>3, <3>1, <3>2, CountedKept
  <2>4. \/ /\ o[d + 1] >= 32 /\ o[d + 1] < 64
           /\ \E n \in Nat \ {0} : Counted(o, d + 1, 31, n, b - 2) /\ len = n + 2
           /\ off = 1 + (o[b - 1] \div 4) + o[b] * 64
        \/ /\ o[d + 1] >= 16 /\ o[d + 1] < 32
           /\ \E n \in Nat \ {0} : Counted(o, d + 1, 7, n, b - 2) /\ len = n + 2
           /\ off = 16384 + 16384 * ((o[d + 1] \div 8) % 2) + (o[b - 1] \div 4) + o[b] * 64
           /\ off > 16384
    BY <1>9 DEF Instructs
  <2>5. \/ /\ o2[d + 1] >= 32 /\ o2[d + 1] < 64
           /\ \E n \in Nat \ {0} : Counted(o2, d + 1, 31, n, b - 2) /\ len = n + 2
           /\ off = 1 + (o2[b - 1] \div 4) + o2[b] * 64
        \/ /\ o2[d + 1] >= 16 /\ o2[d + 1] < 32
           /\ \E n \in Nat \ {0} : Counted(o2, d + 1, 7, n, b - 2) /\ len = n + 2
           /\ off = 16384 + 16384 * ((o2[d + 1] \div 8) % 2) + (o2[b - 1] \div 4) + o2[b] * 64
           /\ off > 16384
    BY <1>4, <1>7, <2>2, <2>3, <2>4
  <2>6. QED
    BY <1>1, <1>6, <2>5 DEF Instructs
<1>10. QED
  BY <1>8, <1>9

LEMMA AnnouncedKept ==
    ASSUME NEW o \in Seq(Bytes), NEW o2 \in Seq(Bytes), Grows(o, o2),
           NEW a \in Nat, NEW t \in Nat, NEW at \in Nat, Announced(o, a, t, at),
           a + 2 <= Len(o), at + t + 2 <= Len(o), at = 0 => 3 <= Len(o)
    PROVE  Announced(o2, a, t, at)
<1>1. Len(o) \in Nat /\ Len(o2) \in Nat /\ Len(o) <= Len(o2)
  BY LenProperties DEF Grows
<1>2. ASSUME NEW i \in Nat, 1 <= i, i + 2 <= Len(o) PROVE o2[i] = o[i]
  <2>1. i \in 1 .. Len(o) /\ i # Len(o) - 1
    BY <1>1, <1>2
  <2>2. QED
    BY <2>1 DEF Grows
<1>3. a >= 2 => o2[a - 1] = o[a - 1]
  <2>1. a >= 2 => a - 1 \in Nat /\ 1 <= a - 1 /\ (a - 1) + 2 <= Len(o)
    OBVIOUS
  <2>2. QED
    BY <1>2, <2>1
<1>4. CASE a >= 2 /\ t \in 0..3 /\ o[a - 1] % 4 = t /\ at = a
  BY <1>3, <1>4 DEF Announced
<1>5. CASE /\ a >= 2 => o[a - 1] % 4 = 0
           /\ a + 1 <= Len(o) /\ o[a + 1] < 16
           /\ \E n \in Nat \ {0} : Counted(o, a + 1, 15, n, at) /\ t = n + 3
  <2>1. PICK n \in Nat \ {0} : Counted(o, a + 1, 15, n, at) /\ t = n + 3
    BY <1>5
  <2>2. a + 1 \in Nat /\ a + 1 <= at
    BY <2>1, CountedAt
  <2>3. \A i \in a + 1 .. at : o2[i] = o[i]
    <3>1. TAKE i \in a + 1 .. at
    <3>2. i \in Nat /\ 1 <= i /\ i + 2 <= Len(o)
      OBVIOUS
    <3>3. QED
      BY <1>2, <3>2
  <2>4. Counted(o2, a + 1, 15, n, at)
    <3>1. at <= Len(o2)
      BY <1>1
    <3>2. QED
      BY <2>1, <2>2, <2>3, <3>1, CountedKept
  <2>5. o2[a + 1] = o[a + 1] /\ a + 1 <= Len(o2)
    BY <1>1, <2>2, <2>3
  <2>6. QED
    BY <1>3, <1>5, <2>1, <2>4, <2>5 DEF Announced
<1>6. CASE a = 0 /\ 1 <= Len(o) /\ o[1] <= 17 /\ t = 0 /\ at = 0
  <2>1. o2[1] = o[1] /\ 1 <= Len(o2)
    BY <1>1, <1>2, <1>6
  <2>2. QED
    BY <1>6, <2>1 DEF Announced
<1>7. CASE a = 0 /\ 1 <= Len(o) /\ t \in 1..238 /\ o[1] = 17 + t /\ at = 1
  <2>1. o2[1] = o[1] /\ 1 <= Len(o2)
    BY <1>1, <1>2, <1>7
  <2>2. QED
    BY <1>7, <2>1 DEF Announced
<1>8. QED
  BY <1>4, <1>5, <1>6, <1>7 DEF Announced

LEMMA LiteralsKept ==
    ASSUME NEW o \in Seq(Bytes), NEW o2 \in Seq(Bytes), Grows(o, o2), NEW s,
           NEW at \in Nat, NEW p \in Nat, NEW t \in Nat, Literals(o, s, at, p, t),
           at + t + 2 <= Len(o)
    PROVE  Literals(o2, s, at, p, t)
<1>1. Len(o) \in Nat /\ Len(o2) \in Nat /\ Len(o) <= Len(o2)
  BY LenProperties DEF Grows
<1>2. ASSUME NEW i \in 1..t PROVE o2[at + i] = s[p + i]
  <2>1. at + i \in 1 .. Len(o) /\ at + i # Len(o) - 1
    BY <1>1
  <2>2. QED
    BY <2>1 DEF Grows, Literals
<1>3. at + t <= Len(o2)
  BY <1>1
<1>4. QED
  BY <1>2, <1>3 DEF Literals

LEMMA ContinuesKept ==
    ASSUME NEW o \in Seq(Bytes), NEW o2 \in Seq(Bytes), Grows(o, o2), NEW s,
           NEW M, NEW M2, M \subseteq Nat \X Nat, M \subseteq M2,
           \A m \in M : m[1] = Len(o) \/ m[1] + 2 <= Len(o),
           NEW m \in M, m[1] + 2 <= Len(o), Continues(o, s, M, m)
    PROVE  Continues(o2, s, M2, m)
<1>1. PICK t \in Nat, at \in Nat : /\ Announced(o, m[1], t, at)
                                   /\ Literals(o, s, at, m[2], t)
                                   /\ GoesOn(o, s, M, at + t, m[2] + t, t)
  BY DEF Continues
<1>2. PICK n \in M : \E len, off \in Nat \ {0} :
         Instructs(o, at + t, t, len, off, n[1]) /\ Repeats(s, m[2] + t, len, off) /\ n[2] = m[2] + t + len
  BY <1>1 DEF GoesOn
<1>3. PICK len \in Nat \ {0}, off \in Nat \ {0} :
         Instructs(o, at + t, t, len, off, n[1]) /\ Repeats(s, m[2] + t, len, off) /\ n[2] = m[2] + t + len
  BY <1>2
<1>4. Len(o) \in Nat /\ m[1] \in Nat /\ m[2] \in Nat /\ n[1] \in Nat
  BY LenProperties
<1>5. at + t + 2 <= n[1] /\ n[1] <= Len(o)
  BY <1>3 DEF Instructs
<1>6. at + t + 2 <= Len(o)
  BY <1>4, <1>5
<1>7. at = 0 => 3 <= Len(o)
  <2>1. SUFFICES ASSUME at = 0, ~(3 <= Len(o)) PROVE FALSE
    OBVIOUS
  <2>2. t = 0 /\ n[1] = 2
    BY <1>4, <1>5, <2>1
  <2>3. at # 1 /\ ~(2 <= at)
    BY <2>1
  <2>4. o[1] <= 17
    <3>1. ~\E k : Counted(o, m[1] + 1, 15, k, at)
      <4>1. ASSUME NEW k, Counted(o, m[1] + 1, 15, k, at) PROVE FALSE
        <5>1. m[1] + 1 \in Nat /\ m[1] + 1 <= at
          BY <1>4, <4>1, CountedAt
        <5>2. QED
          BY <1>4, <2>1, <5>1
      <4>2. QED
        BY <4>1
    <3>2. QED
      BY <1>1, <1>4, <2>1, <3>1 DEF Announced
  <2>5. at + t = 0 /\ at + t + 1 = 1
    BY <2>1, <2>2
  <2>6. o[1] \in Bytes
    <3>1. 1 \in 1 .. Len(o)
      BY <1>4, <1>5, <2>2
    <3>2. QED
      BY <3>1, ElementOfSeq
  <2>7. Instructs(o, 0, 0, len, off, 2)
    BY <1>3, <2>2, <2>5
  <2>8. ASSUME NEW mask, NEW k, Counted(o, 1, mask, k, 0) PROVE FALSE
    BY <2>8, CountedAt
  <2>9. 0 + 1 = 1 /\ 2 - 2 = 0
    OBVIOUS
  <2>10. ~\E mask, k : Counted(o, 1, mask, k, 0)
    BY <2>8
  <2>11. ~(o[1] >= 64)
    <3>1. \A x \in Bytes : x <= 17 => ~(x >= 64)
      BY DEF Bytes
    <3>2. QED
      BY <2>4, <2>6, <3>1
  <2>12. \/ o[1] >= 64
         \/ \E n1 : Counted(o, 1, 31, n1, 0)
         \/ \E n1 : Counted(o, 1, 7, n1, 0)
    <3>1. \/ o[0 + 1] >= 64 \/ 0 > 0
          \/ \E n1 : Counted(o, 0 + 1, 31, n1, 2 - 2)
          \/ \E n1 : Counted(o, 0 + 1, 7, n1, 2 - 2)
      BY <2>7, InstructsForms
    <3>2. QED
      BY <2>9, <3>1
  <2>13. QED
    BY <2>10, <2>11, <2>12
<1>8. Announced(o2, m[1], t, at)
  BY <1>1, <1>4, <1>6, <1>7, AnnouncedKept
<1>9. Literals(o2, s, at, m[2], t)
  BY <1>1, <1>4, <1>6, LiteralsKept
<1>10. Instructs(o2, at + t, t, len, off, n[1])
  <2> DEFINE d == at + t
             b == n[1]
  <2>1. d \in Nat /\ b \in Nat /\ (b = Len(o) \/ b + 2 <= Len(o)) /\ Instructs(o, d, t, len, off, b)
    BY <1>3, <1>4
  <2> HIDE DEF d, b
  <2>2. Instructs(o2, d, t, len, off, b)
    BY <2>1, InstructsKept
  <2>3. QED
    BY <2>2 DEF d, b
<1>11. GoesOn(o2, s, M2, at + t, m[2] + t, t)
  BY <1>3, <1>10 DEF GoesOn
<1>12. QED
  BY <1>8, <1>9, <1>11 DEF Continues

-----------------------------------------------------------------------------
(* What the compressor writes says what it should.                         *)
LEMMA RunAnnounces ==
    ASSUME NEW o \in Seq(Bytes), NEW o2 \in Seq(Bytes), NEW t \in Nat,
           o = <<>> => t >= 4, o # <<>> => Len(o) >= 2 /\ o[Len(o) - 1] % 4 = 0,
           Len(LiteralRun(o, t)) <= Len(o2),
           \A i \in 1 .. Len(LiteralRun(o, t)) : o2[i] = LiteralRun(o, t)[i]
    PROVE  Announced(o2, Len(o), t, Len(LiteralRun(o, t)))
<1> DEFINE run == LiteralRun(o, t)
           a == Len(o)
<1>1. a \in Nat /\ Len(o2) \in Nat
  BY LenProperties
<1>2. t \in 1..3 => a >= 2
  <2>1. t \in 1..3 => ~(t >= 4)
    OBVIOUS
  <2>2. QED
    BY <2>1
<1>3. /\ run \in Seq(Bytes) /\ Len(run) = a + RunSize(t)
      /\ \A i \in 1..a : t \notin 1..3 \/ i # a - 1 => run[i] = o[i]
      /\ t \in 1..3 => run[a - 1] = WithLowBits(o[a - 1], t)
      /\ t \in 4..18 => run[a + 1] = t - 3
      /\ t > 18 => /\ run[a + 1] = 0
                   /\ \A i \in 1 .. ExtendedSize(t - 18) : run[a + 1 + i] = Extended(t - 18)[i]
  BY <1>2, LiteralRunFacts
<1>4. RunSize(t) \in Nat
  BY RunSizes
<1>5. a >= 2 => /\ a - 1 \in 1 .. Len(run) /\ a - 1 \in 1..a /\ o[a - 1] \in Bytes
                /\ o2[a - 1] = run[a - 1]
  <2>1. ASSUME a >= 2 PROVE a - 1 \in 1 .. Len(run) /\ a - 1 \in 1..a
    BY <1>1, <1>3, <1>4, <2>1
  <2>2. ASSUME a >= 2 PROVE o[a - 1] \in Bytes /\ o2[a - 1] = run[a - 1]
    BY <2>1, <2>2, ElementOfSeq
  <2>3. QED
    BY <2>1, <2>2
<1>6. a >= 2 => o[a - 1] % 4 = 0
  <2>1. o = <<>> => a = 0
    OBVIOUS
  <2>2. QED
    BY <2>1
<1>7. a >= 2 /\ t \notin 1..3 => o2[a - 1] % 4 = 0
  BY <1>3, <1>5, <1>6
<1>8. CASE t <= 3
  <2>1. a >= 2
    <3>1. ~(t >= 4)
      BY <1>8
    <3>2. QED
      BY <3>1
  <2>2. Len(run) = a
    <3>1. RunSize(t) = 0
      BY <1>8 DEF RunSize
    <3>2. QED
      BY <1>1, <1>3, <3>1
  <2>3. o2[a - 1] % 4 = t
    <3>1. CASE t = 0
      BY <1>7, <2>1, <3>1
    <3>2. CASE t # 0
      <4>1. t \in 1..3 /\ t \in 0..3
        BY <1>8, <3>2
      <4>2. o2[a - 1] = WithLowBits(o[a - 1], t)
        BY <1>3, <1>5, <2>1, <4>1
      <4>3. WithLowBits(o[a - 1], t) % 4 = t
        BY <1>5, <1>6, <2>1, <4>1, LowBits
      <4>4. QED
        BY <4>2, <4>3
    <3>3. QED
      BY <3>1, <3>2
  <2>4. t \in 0..3
    BY <1>8
  <2> HIDE DEF run, a
  <2>5. Announced(o2, a, t, Len(run))
    BY <2>1, <2>2, <2>3, <2>4 DEF Announced
  <2>6. QED
    BY <2>5 DEF run, a
<1>9. CASE t > 3
  <2>1. t \notin 1..3
    BY <1>9
  <2>2. a >= 2 => o2[a - 1] % 4 = 0
    BY <1>7, <2>1
  <2>3. a + 1 <= Len(run) /\ a + 1 \in 1 .. Len(run) /\ a + 1 <= Len(o2)
    <3>1. RunSize(t) >= 1
      <4>1. t > 18 => ExtendedSize(t - 18) \in Nat
        <5>1. t > 18 => t - 18 \in Nat \ {0}
          OBVIOUS
        <5>2. QED
          BY <5>1, ExtendedSizes
      <4>2. QED
        BY <1>9, <4>1 DEF RunSize
    <3>2. QED
      BY <1>1, <1>3, <1>4, <3>1
  <2>4. o2[a + 1] < 16 /\ \E n \in Nat \ {0} : Counted(o2, a + 1, 15, n, Len(run)) /\ t = n + 3
    <3>1. CASE t <= 18
      <4>1. t \in 4..18 /\ t - 3 \in Nat \ {0} /\ t = (t - 3) + 3 /\ (t - 3) % (15 + 1) = t - 3
        BY <1>9, <3>1
      <4>2. o2[a + 1] = t - 3
        BY <1>3, <2>3, <4>1
      <4>3. Len(run) = a + 1
        <5>1. RunSize(t) = 1
          BY <1>9, <3>1 DEF RunSize
        <5>2. QED
          BY <1>1, <1>3, <5>1
      <4>4. t - 3 < 16 /\ t - 3 # 0
        BY <3>1, <4>1
      <4> HIDE DEF run, a
      <4>5. Counted(o2, a + 1, 15, t - 3, Len(run))
        BY <4>1, <4>2, <4>3, <4>4 DEF Counted
      <4>6. QED
        BY <4>1, <4>2, <4>4, <4>5
    <3>2. CASE t > 18
      <4> DEFINE k == t - 18
                 z == ExtendedSize(k)
                 at == Len(run)
      <4>1. k \in Nat \ {0} /\ t = (15 + k) + 3 /\ 15 + k \in Nat \ {0}
        BY <3>2
      <4>2. /\ z \in Nat \ {0}
            /\ \A i \in 1 .. z - 1 : Extended(k)[i] = 0
            /\ Extended(k)[z] = k - 255 * (z - 1)
            /\ Extended(k)[z] \in 1..255
        <5> HIDE DEF k
        <5>1. QED
          BY <4>1, ExtendedFacts
      <4>3. at = a + 1 + z /\ at \in Nat /\ at <= Len(o2) /\ a + 1 < at
        <5>1. RunSize(t) = 1 + z
          BY <3>2 DEF RunSize
        <5> HIDE DEF z
        <5>2. QED
          BY <1>1, <1>3, <4>2, <5>1
      <4>4. \A i \in 1..z : o2[a + 1 + i] = Extended(k)[i]
        <5>1. TAKE i \in 1..z
        <5>2. run[a + 1 + i] = Extended(k)[i]
          BY <1>3, <3>2
        <5> HIDE DEF z, k
        <5>3. a + 1 + i \in 1 .. Len(run)
          BY <1>1, <4>2, <4>3
        <5> HIDE DEF run
        <5>4. QED
          BY <5>2, <5>3 DEF run
      <4>5. o2[a + 1] = 0
        BY <1>3, <2>3, <3>2
      <4> HIDE DEF z, k, at, run
      <4>6. o2[at] = k - 255 * (z - 1) /\ o2[at] # 0
        <5>1. o2[a + 1 + z] = Extended(k)[z]
          BY <4>2, <4>4
        <5>2. o2[at] = Extended(k)[z]
          BY <4>3, <5>1
        <5>3. Extended(k)[z] # 0
          <6>1. 0 \notin 1..255
            OBVIOUS
          <6>2. Extended(k)[z] \in 1..255
            BY <4>2
          <6>3. QED
            BY <6>1, <6>2
        <5>4. QED
          BY <4>2, <5>2, <5>3
      <4>7. \A j \in Nat : a + 1 < j /\ j < at => o2[j] = 0
        <5>1. TAKE j \in Nat
        <5>2. HAVE a + 1 < j /\ j < at
        <5>3. j - (a + 1) \in 1 .. z - 1 /\ j - (a + 1) \in 1..z /\ a + 1 + (j - (a + 1)) = j
          BY <1>1, <4>2, <4>3, <5>2
        <5> DEFINE i == j - (a + 1)
        <5>4. o2[a + 1 + i] = Extended(k)[i] /\ Extended(k)[i] = 0
          BY <4>2, <4>4, <5>3
        <5>5. QED
          BY <5>3, <5>4
      <4>8. k = 255 * (at - (a + 1) - 1) + o2[at]
        <5>1. at - (a + 1) - 1 = z - 1
          BY <1>1, <4>2, <4>3
        <5>2. k = 255 * (z - 1) + (k - 255 * (z - 1))
          BY <4>1, <4>2
        <5>3. QED
          BY <4>6, <5>1, <5>2
      <4>9. AddedUp(o2, a + 1, k, at)
        BY <4>3, <4>6, <4>7, <4>8 DEF AddedUp
      <4>10. o2[a + 1] % (15 + 1) = 0
        BY <4>5
      <4>11. Counted(o2, a + 1, 15, 15 + k, at)
        BY <4>1, <4>9, <4>10 DEF Counted
      <4>12. o2[a + 1] < 16
        BY <4>5
      <4>13. QED
        BY <4>1, <4>11, <4>12 DEF at, run
    <3>3. QED
      BY <3>1, <3>2
  <2> HIDE DEF run, a
  <2>5. Announced(o2, a, t, Len(run))
    BY <2>2, <2>3, <2>4 DEF Announced
  <2>6. QED
    BY <2>5 DEF run, a
<1>10. QED
  BY <1>8, <1>9

LEMMA NearForm ==
    ASSUME NEW o, NEW d, NEW t, NEW len, NEW off, NEW b, d + 2 <= b, b <= Len(o),
           o[d + 1] >= 64, b = d + 2, len = o[d + 1] \div 32 + 1,
           off = 1 + ((o[d + 1] \div 4) % 8) + o[b] * 8
    PROVE  Instructs(o, d, t, len, off, b)
  BY DEF Instructs

LEMMA MiddleForm ==
    ASSUME NEW o, NEW d, NEW t, NEW len, NEW off, NEW b, d + 2 <= b, b <= Len(o),
           o[d + 1] >= 32, o[d + 1] < 64,
           NEW n \in Nat \ {0}, Counted(o, d + 1, 31, n, b - 2), len = n + 2,
           off = 1 + (o[b - 1] \div 4) + o[b] * 64
    PROVE  Instructs(o, d, t, len, off, b)
  BY DEF Instructs

LEMMA FarForm ==
    ASSUME NEW o, NEW d, NEW t, NEW len, NEW off, NEW b, d + 2 <= b, b <= Len(o),
           o[d + 1] >= 16, o[d + 1] < 32,
           NEW n \in Nat \ {0}, Counted(o, d + 1, 7, n, b - 2), len = n + 2,
           off = 16384 + 16384 * ((o[d + 1] \div 8) % 2) + (o[b - 1] \div 4) + o[b] * 64,
           off > 16384
    PROVE  Instructs(o, d, t, len, off, b)
  BY DEF Instructs

LEMMA NearInstructs ==
    ASSUME NEW o2 \in Seq(Bytes), NEW d \in Nat, NEW t, NEW len \in Nat, len >= 4,
           NEW off \in Offsets, Near(len, off), Len(o2) = d + 2,
           o2[d + 1] = Match(len, off)[1], o2[d + 2] = Match(len, off)[2]
    PROVE  Instructs(o2, d, t, len, off, d + 2)
<1> DEFINE x == o2[d + 1]
           r == (off - 1) % 8
           h == (off - 1) \div 8
<1>1. len \in 4..8 /\ off \in Nat /\ 1 <= off
  BY DEF Near, Offsets, M2MaxLen
<1>2. r \in 0..7 /\ off = 1 + r + h * 8
  BY <1>1
<1>3. x = (len - 1) * 32 + r * 4 /\ o2[d + 2] = h
  BY NearMatchFacts
<1> HIDE DEF x, r, h
<1>4. x >= 64 /\ len = x \div 32 + 1 /\ (x \div 4) % 8 = r
  BY <1>1, <1>2, <1>3
<1>5. off = 1 + ((x \div 4) % 8) + o2[d + 2] * 8
  BY <1>2, <1>3, <1>4
<1>6. d + 2 <= d + 2 /\ d + 2 <= Len(o2)
  OBVIOUS
<1> DEFINE b == d + 2
<1>7. /\ d + 2 <= b /\ b <= Len(o2) /\ o2[d + 1] >= 64 /\ b = d + 2
      /\ len = o2[d + 1] \div 32 + 1 /\ off = 1 + ((o2[d + 1] \div 4) % 8) + o2[b] * 8
  BY <1>4, <1>5, <1>6 DEF x
<1> HIDE DEF b
<1>8. Instructs(o2, d, t, len, off, b)
  BY <1>7, NearForm
<1>9. QED
  BY <1>8 DEF b

(* A length, as much of it as fits and the rest behind it.                 *)
Kind(marker, most, mask) ==
    \/ marker \in {16, 24} /\ most = 9 /\ mask = 7
    \/ marker = 32 /\ most = 33 /\ mask = 31
LengthAt(o, d, len, marker, most, size) ==
    /\ size \in Nat /\ d + size <= Len(o)
    /\ len <= most => size = 1 /\ o[d + 1] = marker + (len - 2)
    /\ len > most => /\ size = 1 + ExtendedSize(len - most)
                     /\ o[d + 1] = marker
                     /\ \A i \in 1 .. ExtendedSize(len - most) :
                           o[d + 1 + i] = Extended(len - most)[i]

LEMMA LengthCounted ==
    ASSUME NEW o2 \in Seq(Bytes), NEW d \in Nat, NEW len \in Nat, len >= 4,
           NEW marker, NEW most, NEW mask, Kind(marker, most, mask),
           NEW size, LengthAt(o2, d, len, marker, most, size)
    PROVE  /\ \A i, n, at : i = d + 1 /\ n = len - 2 /\ at = d + size => Counted(o2, i, mask, n, at)
           /\ o2[d + 1] \div 8 = marker \div 8 \/ marker = 32
           /\ o2[d + 1] >= marker /\ o2[d + 1] < (IF marker = 32 THEN 64 ELSE 32)
<1>00. /\ marker \in {16, 24, 32} /\ most \in {9, 33} /\ mask \in {7, 31}
       /\ (marker = 32 <=> most = 33) /\ mask = most - 2 /\ size \in Nat
       /\ d + size <= Len(o2)
  BY DEF Kind, LengthAt
<1>01. /\ len <= most => size = 1 /\ o2[d + 1] = marker + (len - 2)
       /\ len > most => /\ size = 1 + ExtendedSize(len - most)
                        /\ o2[d + 1] = marker
                        /\ \A i \in 1 .. ExtendedSize(len - most) :
                              o2[d + 1 + i] = Extended(len - most)[i]
  BY DEF LengthAt
<1>0. Len(o2) \in Nat
  BY LenProperties
<1>1. CASE len <= most
  <2>1. size = 1 /\ o2[d + 1] = marker + (len - 2)
    BY <1>00, <1>01, <1>1
  <2>2. (marker + (len - 2)) % (mask + 1) = len - 2 /\ len - 2 # 0
    <3>1. CASE marker = 32
      BY <1>00, <1>1, <3>1
    <3>2. CASE marker = 16
      BY <1>00, <1>1, <3>2
    <3>3. CASE marker = 24
      BY <1>00, <1>1, <3>3
    <3>4. QED
      BY <1>00, <3>1, <3>2, <3>3
  <2>3. (marker + (len - 2)) \div 8 = marker \div 8 \/ marker = 32
    BY <1>00, <1>01, <1>1
  <2>4. marker + (len - 2) >= marker /\ marker + (len - 2) < (IF marker = 32 THEN 64 ELSE 32)
    BY <1>00, <1>01, <1>1
  <2>5. Counted(o2, d + 1, mask, len - 2, d + size)
    BY <2>1, <2>2 DEF Counted
  <2>6. \A i, n, at : i = d + 1 /\ n = len - 2 /\ at = d + size => Counted(o2, i, mask, n, at)
    BY <2>5
  <2>7. QED
    BY <2>1, <2>3, <2>4, <2>6
<1>2. CASE len > most
  <2> DEFINE k == len - most
             z == ExtendedSize(k)
             at == d + size
  <2>1. k \in Nat \ {0} /\ len - 2 = mask + k
    BY <1>00, <1>01, <1>2
  <2>2. /\ z \in Nat \ {0}
        /\ \A i \in 1 .. z - 1 : Extended(k)[i] = 0
        /\ Extended(k)[z] = k - 255 * (z - 1)
        /\ Extended(k)[z] \in 1..255
    <3> HIDE DEF k
    <3>1. QED
      BY <2>1, ExtendedFacts
  <2>3. size = 1 + z /\ o2[d + 1] = marker /\ \A i \in 1..z : o2[d + 1 + i] = Extended(k)[i]
    BY <1>00, <1>01, <1>2
  <2> HIDE DEF k, z
  <2>4. at = d + 1 + z /\ at \in Nat /\ at <= Len(o2) /\ d + 1 < at
    BY <1>0, <1>00, <2>2, <2>3
  <2> HIDE DEF at
  <2>5. o2[at] = k - 255 * (z - 1) /\ o2[at] # 0
    <3>1. o2[d + 1 + z] = Extended(k)[z]
      BY <2>2, <2>3
    <3>2. o2[at] = Extended(k)[z]
      BY <2>4, <3>1
    <3>3. Extended(k)[z] # 0
      <4>1. 0 \notin 1..255
        OBVIOUS
      <4>2. Extended(k)[z] \in 1..255
        BY <2>2
      <4>3. QED
        BY <4>1, <4>2
    <3>4. QED
      BY <2>2, <3>2, <3>3
  <2>6. \A j \in Nat : d + 1 < j /\ j < at => o2[j] = 0
    <3>1. TAKE j \in Nat
    <3>2. HAVE d + 1 < j /\ j < at
    <3>3. j - (d + 1) \in 1 .. z - 1 /\ j - (d + 1) \in 1..z /\ d + 1 + (j - (d + 1)) = j
      BY <2>2, <2>4, <3>2
    <3> DEFINE i == j - (d + 1)
    <3>4. o2[d + 1 + i] = Extended(k)[i] /\ Extended(k)[i] = 0
      BY <2>2, <2>3, <3>3
    <3>5. QED
      BY <3>3, <3>4
  <2>7. k = 255 * (at - (d + 1) - 1) + o2[at]
    <3>1. at - (d + 1) - 1 = z - 1
      BY <2>2, <2>4
    <3>2. k = 255 * (z - 1) + (k - 255 * (z - 1))
      BY <2>1, <2>2
    <3>3. QED
      BY <2>5, <3>1, <3>2
  <2>8. AddedUp(o2, d + 1, k, at)
    BY <2>4, <2>5, <2>6, <2>7 DEF AddedUp
  <2>9. o2[d + 1] % (mask + 1) = 0
    <3>1. CASE marker = 32
      BY <1>00, <2>3, <3>1
    <3>2. CASE marker = 16 \/ marker = 24
      BY <1>00, <2>3, <3>2
    <3>3. QED
      BY <1>00, <3>1, <3>2
  <2>10. Counted(o2, d + 1, mask, len - 2, at)
    BY <2>1, <2>8, <2>9 DEF Counted
  <2>11. \A i, n, e : i = d + 1 /\ n = len - 2 /\ e = d + size => Counted(o2, i, mask, n, e)
    BY <2>10 DEF at
  <2>12. QED
    BY <1>00, <2>3, <2>11
<1>3. QED
  BY <1>00, <1>1, <1>2

LEMMA OtherInstructs ==
    ASSUME NEW o2 \in Seq(Bytes), NEW d \in Nat, NEW t, NEW len \in Nat, len >= 4,
           NEW off \in Offsets, ~Near(len, off), Len(o2) = d + MatchSize(len, off),
           \A i \in 1 .. MatchSize(len, off) : o2[d + i] = Match(len, off)[i]
    PROVE  Instructs(o2, d, t, len, off, Len(o2))
<1> DEFINE size == LengthSize(len, off)
           marker == Marker(off)
           most == Most(off)
           rest == Rest(off)
           b == Len(o2)
           mask == most - 2
<1>1. /\ marker \in {16, 24, 32} /\ most \in {9, 33}
      /\ marker # 32 => most = 9
      /\ rest \in Nat /\ rest < 32768
      /\ off > M3MaxOffset => rest > 0 /\ marker = IF rest < 16384 THEN 16 ELSE 24
  BY OffsetFacts
<1>2. /\ size \in Nat \ {0}
      /\ len <= most => Match(len, off)[1] = marker + (len - 2)
      /\ len > most => /\ Match(len, off)[1] = marker
                       /\ \A i \in 1 .. ExtendedSize(len - most) :
                             Match(len, off)[1 + i] = Extended(len - most)[i]
      /\ Match(len, off)[size + 1] = (rest * 4) % 256
      /\ Match(len, off)[size + 2] = (rest \div 64) % 256
  BY OtherMatchFacts
<1>3. MatchSize(len, off) = size + 2 /\ size = IF len <= most THEN 1 ELSE 1 + ExtendedSize(len - most)
  BY DEF MatchSize, LengthSize
<1>4. /\ off <= 16384 => marker = 32 /\ most = 33 /\ rest = off - 1
      /\ off > 16384 => marker \in {16, 24} /\ most = 9 /\ rest = off - 16384
  <2>1. off <= 16384 => marker = 32 /\ most = 33 /\ rest = off - 1
    BY DEF Marker, Most, Rest, M3MaxOffset, M3Marker, M3MaxLen
  <2>2. off > 16384 => ~(off <= 16384)
    BY DEF Offsets
  <2>3. off > 16384 => most = 9 /\ rest = off - 16384
    BY <2>2 DEF Most, Rest, M3MaxOffset, M4MaxLen
  <2>4. off > 16384 => marker \in {16, 24}
    BY <1>1 DEF M3MaxOffset
  <2>5. QED
    BY <2>1, <2>3, <2>4
<1>5. off \in Nat /\ 1 <= off
  BY DEF Offsets
<1>6. b \in Nat /\ b = d + size + 2 /\ b - 2 = d + size /\ d + size <= b
  BY <1>2, <1>3, LenProperties
<1> HIDE DEF size, marker, most, rest
<1>7. /\ len <= most => size = 1 /\ o2[d + 1] = marker + (len - 2)
      /\ len > most => /\ size = 1 + ExtendedSize(len - most)
                       /\ o2[d + 1] = marker
                       /\ \A i \in 1 .. ExtendedSize(len - most) :
                             o2[d + 1 + i] = Extended(len - most)[i]
      /\ o2[b - 1] = (rest * 4) % 256
      /\ o2[b] = (rest \div 64) % 256
  <2>1. 1 \in 1 .. MatchSize(len, off) /\ size + 1 \in 1 .. MatchSize(len, off)
        /\ size + 2 \in 1 .. MatchSize(len, off)
    BY <1>2, <1>3
  <2>2. /\ o2[d + 1] = Match(len, off)[1] /\ o2[d + (size + 1)] = Match(len, off)[size + 1]
        /\ o2[d + (size + 2)] = Match(len, off)[size + 2]
    BY <2>1
  <2>3. d + (size + 1) = b - 1 /\ d + (size + 2) = b
    BY <1>2, <1>6
  <2>4. ASSUME len > most, NEW i \in 1 .. ExtendedSize(len - most)
        PROVE  o2[d + 1 + i] = Extended(len - most)[i]
    <3>1. len - most \in Nat \ {0}
      BY <1>1, <2>4
    <3>2. ExtendedSize(len - most) \in Nat /\ size = 1 + ExtendedSize(len - most)
      BY <1>1, <1>3, <2>4, <3>1, ExtendedSizes
    <3>3. 1 + i \in 1 .. MatchSize(len, off) /\ d + (1 + i) = d + 1 + i
      BY <1>3, <3>2
    <3>4. o2[d + (1 + i)] = Match(len, off)[1 + i]
      BY <3>3
    <3>5. Match(len, off)[1 + i] = Extended(len - most)[i]
      BY <1>2, <2>4
    <3>6. QED
      BY <3>3, <3>4, <3>5
  <2>5. len > most => ~(len <= most)
    BY <1>1
  <2>6. len <= most => size = 1 /\ o2[d + 1] = marker + (len - 2)
    BY <1>2, <1>3, <2>2
  <2>7. len > most => size = 1 + ExtendedSize(len - most) /\ o2[d + 1] = marker
    BY <1>2, <1>3, <2>2, <2>5
  <2>8. QED
    BY <1>2, <2>2, <2>3, <2>4, <2>6, <2>7
<1>8. mask \in {7, 31} /\ (marker = 32 <=> most = 33) /\ d + size <= Len(o2) /\ size \in Nat
  BY <1>1, <1>2, <1>4, <1>5, <1>6
<1> DEFINE x == o2[d + 1]
<1>9. Counted(o2, d + 1, mask, len - 2, d + size)
      /\ (x \div 8 = marker \div 8 \/ marker = 32)
      /\ x >= marker /\ x < (IF marker = 32 THEN 64 ELSE 32)
  <2> HIDE DEF mask, b
  <2>1. Kind(marker, most, mask)
    BY <1>1, <1>8 DEF Kind, mask
  <2>2. LengthAt(o2, d, len, marker, most, size)
    BY <1>7, <1>8 DEF LengthAt
  <2>3. /\ \A i, n, at : i = d + 1 /\ n = len - 2 /\ at = d + size => Counted(o2, i, mask, n, at)
        /\ o2[d + 1] \div 8 = marker \div 8 \/ marker = 32
        /\ o2[d + 1] >= marker /\ o2[d + 1] < (IF marker = 32 THEN 64 ELSE 32)
    BY <2>1, <2>2, LengthCounted
  <2>4. QED
    BY <2>3
<1>10. Counted(o2, d + 1, mask, len - 2, b - 2) /\ len - 2 \in Nat \ {0} /\ len = (len - 2) + 2
  BY <1>6, <1>9
<1>11. d + 2 <= b /\ b <= Len(o2)
  BY <1>2, <1>6
<1>12. /\ x \div 8 = marker \div 8 \/ marker = 32
       /\ x >= marker /\ x < (IF marker = 32 THEN 64 ELSE 32)
  BY <1>9
<1>13. o2[b - 1] = (rest * 4) % 256 /\ o2[b] = (rest \div 64) % 256
  BY <1>7
<1> HIDE DEF b, x
<1>14. CASE off <= 16384
  <2>1. marker = 32 /\ most = 33 /\ rest = off - 1
    BY <1>4, <1>14
  <2>2. mask = 31 /\ x >= 32 /\ x < 64
    BY <1>12, <2>1
  <2>3. ((rest * 4) % 256) \div 4 + ((rest \div 64) % 256) * 64 = rest
    BY <1>1, <1>5, <1>14, <2>1
  <2>4. off = 1 + rest
    BY <1>5, <2>1
  <2>5. off = 1 + (((rest * 4) % 256) \div 4) + ((rest \div 64) % 256) * 64
    BY <1>1, <2>3, <2>4
  <2>6. off = 1 + (o2[b - 1] \div 4) + o2[b] * 64
    BY <1>13, <2>5
  <2>7. o2[d + 1] >= 32 /\ o2[d + 1] < 64
    BY <2>2 DEF x
  <2>8. Counted(o2, d + 1, 31, len - 2, b - 2)
    BY <1>10, <2>2
  <2>9. QED
    BY <1>10, <1>11, <2>6, <2>7, <2>8, MiddleForm DEF b
<1>15. CASE off > 16384
  <2>1. marker \in {16, 24} /\ most = 9 /\ rest = off - 16384
    BY <1>4, <1>15
  <2>2. mask = 7
    BY <2>1
  <2>3. x >= 16 /\ x < 32 /\ x \div 8 = marker \div 8
    <3>1. marker # 32 /\ marker >= 16
      BY <2>1
    <3>2. x \div 8 = marker \div 8 /\ x >= marker /\ x < 32
      BY <1>12, <3>1
    <3>3. x >= 16
      <4>1. marker = 16 \/ marker = 24
        BY <2>1
      <4>2. d + 1 \in 1 .. Len(o2)
        BY <1>2, <1>6, <1>8
      <4>3. x \in Bytes
        BY <4>2, ElementOfSeq DEF x
      <4>4. QED
        BY <3>2, <4>1, <4>3 DEF Bytes
    <3>4. QED
      BY <3>2, <3>3
  <2>4. rest > 0 /\ marker = IF rest < 16384 THEN 16 ELSE 24
    BY <1>1, <1>15 DEF M3MaxOffset
  <2>5. 16384 * ((marker \div 8) % 2) + (((rest * 4) % 256) \div 4) + ((rest \div 64) % 256) * 64 = rest
    <3>1. CASE rest < 16384
      BY <1>1, <2>4, <3>1
    <3>2. CASE ~(rest < 16384)
      BY <1>1, <2>4, <3>2
    <3>3. QED
      BY <3>1, <3>2
  <2>6. off = 16384 + rest /\ off > 16384
    BY <1>5, <1>15, <2>1
  <2>7. off = 16384 + 16384 * ((marker \div 8) % 2) + (((rest * 4) % 256) \div 4)
              + ((rest \div 64) % 256) * 64
    <3>1. marker \in Nat
      BY <2>1
    <3>2. QED
      BY <1>1, <2>5, <2>6, <3>1
  <2>8. off = 16384 + 16384 * ((o2[d + 1] \div 8) % 2) + (o2[b - 1] \div 4) + o2[b] * 64
    <3>1. o2[d + 1] \div 8 = marker \div 8
      BY <2>3 DEF x
    <3>2. QED
      BY <1>13, <2>7, <3>1
  <2>9. o2[d + 1] >= 16 /\ o2[d + 1] < 32
    BY <2>3 DEF x
  <2>10. Counted(o2, d + 1, 7, len - 2, b - 2)
    BY <1>10, <2>2
  <2> DEFINE n == len - 2
  <2>11. n \in Nat \ {0} /\ Counted(o2, d + 1, 7, n, b - 2) /\ len = n + 2
    BY <1>10, <2>10
  <2> HIDE DEF n
  <2>12. Instructs(o2, d, t, len, off, b)
    BY <1>11, <2>6, <2>8, <2>9, <2>11, FarForm, SMTT(60)
  <2>13. QED
    BY <2>12 DEF b
<1>16. QED
  BY <1>5, <1>14, <1>15

LEMMA MatchInstructs ==
    ASSUME NEW o2 \in Seq(Bytes), NEW d \in Nat, NEW t, NEW len \in Nat, len >= 4,
           NEW off \in Offsets, Len(o2) = d + MatchSize(len, off),
           \A i \in 1 .. MatchSize(len, off) : o2[d + i] = Match(len, off)[i]
    PROVE  Instructs(o2, d, t, len, off, Len(o2))
<1>1. CASE Near(len, off)
  <2>1. MatchSize(len, off) = 2
    BY <1>1 DEF MatchSize
  <2>2. o2[d + 1] = Match(len, off)[1] /\ o2[d + 2] = Match(len, off)[2] /\ Len(o2) = d + 2
    BY <2>1
  <2>3. Instructs(o2, d, t, len, off, d + 2)
    BY <1>1, <2>2, NearInstructs
  <2>4. QED
    BY <2>2, <2>3
<1>2. CASE ~Near(len, off)
  BY <1>2, OtherInstructs
<1>3. QED
  BY <1>1, <1>2

-----------------------------------------------------------------------------
(* The stream as far as it goes stands for the first p bytes: only what    *)
(* follows its end is open.                                                *)
Begins(o, s, p, M) ==
    /\ M \subseteq Nat \X Nat /\ <<0, 0>> \in M /\ <<Len(o), p>> \in M
    /\ \A m \in M : m # <<Len(o), p>> => m[1] + 2 <= Len(o) /\ Continues(o, s, M, m)

(* What is behind o in o2: the literals of s after p, announced.           *)
RunBehind(o, o2, s, p, t) ==
    /\ Len(LiteralRun(o, t)) + t <= Len(o2)
    /\ \A i \in 1 .. Len(LiteralRun(o, t)) : o2[i] = LiteralRun(o, t)[i]
    /\ \A i \in 1..t : o2[Len(LiteralRun(o, t)) + i] = s[p + i]

(* The two low bits that LiteralRun may set are free.                      *)
Open(o, t) ==
    /\ o = <<>> => t >= 4
    /\ o # <<>> => Len(o) >= 2 /\ o[Len(o) - 1] % 4 = 0

LEMMA OpenRun ==
    ASSUME NEW o \in Seq(Bytes), NEW t \in Nat, Open(o, t)
    PROVE  t \in 1..3 => Len(o) >= 2
<1>1. t \in 1..3 => ~(t >= 4)
  OBVIOUS
<1>2. QED
  BY <1>1 DEF Open

LEMMA RunGrows ==
    ASSUME NEW o \in Seq(Bytes), NEW o2 \in Seq(Bytes), NEW s, NEW p, NEW t \in Nat,
           t \in 1..3 => Len(o) >= 2, RunBehind(o, o2, s, p, t)
    PROVE  Grows(o, o2) /\ Len(LiteralRun(o, t)) \in Nat /\ Len(o) <= Len(LiteralRun(o, t))
<1> DEFINE run == LiteralRun(o, t)
<1>1. Len(o) \in Nat /\ Len(o2) \in Nat
  BY LenProperties
<1>2. /\ run \in Seq(Bytes) /\ Len(run) = Len(o) + RunSize(t)
      /\ \A i \in 1 .. Len(o) : t \notin 1..3 \/ i # Len(o) - 1 => run[i] = o[i]
      /\ t \in 1..3 => run[Len(o) - 1] = WithLowBits(o[Len(o) - 1], t)
  BY LiteralRunFacts
<1>3. RunSize(t) \in Nat
  BY RunSizes
<1>4. Len(run) \in Nat /\ Len(o) <= Len(run) /\ Len(run) <= Len(o2)
  <2>1. Len(run) + t <= Len(o2)
    BY DEF RunBehind
  <2> HIDE DEF run
  <2>2. QED
    BY <1>1, <1>2, <1>3, <2>1
<1>5. \A i \in 1 .. Len(o) : o2[i] = run[i]
  <2>1. TAKE i \in 1 .. Len(o)
  <2>2. i \in 1 .. Len(run)
    <3> HIDE DEF run
    <3>1. QED
      BY <1>1, <1>4
  <2>3. QED
    BY <2>2 DEF RunBehind
<1>6. ASSUME Len(o) >= 2 PROVE o2[Len(o) - 1] \div 4 = o[Len(o) - 1] \div 4
  <2>1. Len(o) - 1 \in 1 .. Len(o)
    BY <1>1, <1>6
  <2>2. o[Len(o) - 1] \in Bytes
    BY <2>1, ElementOfSeq
  <2>3. o2[Len(o) - 1] = run[Len(o) - 1]
    BY <1>5, <2>1
  <2> HIDE DEF run
  <2>4. CASE t \in 1..3
    <3>1. o2[Len(o) - 1] = WithLowBits(o[Len(o) - 1], t)
      BY <1>2, <2>3, <2>4
    <3>2. WithLowBits(o[Len(o) - 1], t) \div 4 = o[Len(o) - 1] \div 4
      <4>1. t \in 0..3
        BY <2>4
      <4>2. QED
        BY <2>2, <4>1, LowBits
    <3>3. QED
      BY <3>1, <3>2
  <2>5. CASE t \notin 1..3
    BY <1>2, <2>1, <2>3, <2>5
  <2>6. QED
    BY <2>4, <2>5
<1>7. \A i \in 1 .. Len(o) : i # Len(o) - 1 => o2[i] = o[i]
  <2> HIDE DEF run
  <2>1. QED
    BY <1>2, <1>5
<1>8. Len(o) <= Len(o2)
  <2> HIDE DEF run
  <2>1. QED
    BY <1>1, <1>4
<1>9. QED
  BY <1>4, <1>6, <1>7, <1>8 DEF Grows

LEMMA BegunKept ==
    ASSUME NEW o \in Seq(Bytes), NEW o2 \in Seq(Bytes), Grows(o, o2), NEW s, NEW p \in Nat,
           NEW M, NEW M2, Begins(o, s, p, M), M \subseteq M2,
           NEW m \in M, m # <<Len(o), p>>
    PROVE  m[1] + 2 <= Len(o2) /\ Continues(o2, s, M2, m)
<1>1. Len(o) \in Nat /\ Len(o2) \in Nat /\ Len(o) <= Len(o2)
  BY LenProperties DEF Grows
<1>2. M \subseteq Nat \X Nat /\ m[1] + 2 <= Len(o) /\ Continues(o, s, M, m)
  BY DEF Begins
<1>3. \A n \in M : n[1] = Len(o) \/ n[1] + 2 <= Len(o)
  <2>1. TAKE n \in M
  <2>2. CASE n = <<Len(o), p>>
    BY <2>2
  <2>3. CASE n # <<Len(o), p>>
    BY <2>3 DEF Begins
  <2>4. QED
    BY <2>2, <2>3
<1>4. Continues(o2, s, M2, m)
  BY <1>2, <1>3, ContinuesKept
<1>5. m[1] \in Nat
  BY <1>2
<1>6. QED
  BY <1>1, <1>2, <1>4, <1>5

LEMMA MatchContinues ==
    ASSUME NEW o \in Seq(Bytes), NEW o2 \in Seq(Bytes), NEW s \in Seq(Bytes),
           NEW p \in Nat, NEW t \in Nat, p + t <= Len(s), Open(o, t), RunBehind(o, o2, s, p, t),
           NEW len \in Nat, len >= 4, NEW off \in Offsets,
           Len(o2) = Len(LiteralRun(o, t)) + t + MatchSize(len, off),
           \A i \in 1 .. MatchSize(len, off) :
              o2[Len(LiteralRun(o, t)) + t + i] = Match(len, off)[i],
           Repeats(s, p + t, len, off),
           NEW M, Begins(o, s, p, M)
    PROVE  \E M2 : Begins(o2, s, p + t + len, M2)
<1> DEFINE at == Len(LiteralRun(o, t))
           q == p + t + len
           m == <<Len(o), p>>
           n == <<Len(o2), q>>
           M2 == M \cup {n}
<1>1. Grows(o, o2) /\ at \in Nat /\ Len(o) <= at
  BY OpenRun, RunGrows
<1>2. Len(o) \in Nat /\ Len(o2) \in Nat /\ q \in Nat
  BY LenProperties
<1>3. MatchSize(len, off) \in Nat /\ MatchSize(len, off) >= 2
  BY MatchSizes
<1>4. Len(o2) = at + t + MatchSize(len, off) /\ at + t <= Len(o2) /\ Len(o) + 2 <= Len(o2)
  <2>1. Len(o2) = at + t + MatchSize(len, off)
    OBVIOUS
  <2> HIDE DEF at
  <2>2. QED
    BY <1>1, <1>2, <1>3, <2>1
<1>5. Announced(o2, Len(o), t, at)
  <2>1. at <= Len(o2)
    <3> HIDE DEF at
    <3>1. QED
      BY <1>1, <1>2, <1>4
  <2>2. \A i \in 1..at : o2[i] = LiteralRun(o, t)[i]
    BY DEF RunBehind
  <2>3. QED
    BY <2>1, <2>2, RunAnnounces DEF Open
<1>6. Literals(o2, s, at, p, t)
  BY <1>4 DEF Literals, RunBehind
<1>7. Instructs(o2, at + t, t, len, off, Len(o2))
  <2> DEFINE d == at + t
  <2>1. d \in Nat /\ Len(o2) = d + MatchSize(len, off)
        /\ \A i \in 1 .. MatchSize(len, off) : o2[d + i] = Match(len, off)[i]
    BY <1>1, <1>4
  <2> HIDE DEF d
  <2>2. Instructs(o2, d, t, len, off, Len(o2))
    BY <2>1, MatchInstructs
  <2>3. QED
    BY <2>2 DEF d
<1> HIDE DEF at
<1>8. GoesOn(o2, s, M2, at + t, p + t, t)
  <2>1. n \in M2 /\ n[1] = Len(o2) /\ n[2] = p + t + len
    OBVIOUS
  <2>2. len \in Nat \ {0} /\ off \in Nat \ {0}
    BY DEF Offsets
  <2> HIDE DEF n, M2
  <2>3. Instructs(o2, at + t, t, len, off, n[1])
    BY <1>7, <2>1
  <2>4. QED
    BY <2>1, <2>2, <2>3 DEF GoesOn
<1>9. Continues(o2, s, M2, m)
  <2>1. m[1] = Len(o) /\ m[2] = p
    OBVIOUS
  <2> HIDE DEF m, M2
  <2>2. QED
    BY <1>1, <1>5, <1>6, <1>8, <2>1 DEF Continues
<1>10. ASSUME NEW k \in M2, k # n PROVE k[1] + 2 <= Len(o2) /\ Continues(o2, s, M2, k)
  <2>1. k \in M /\ M \subseteq M2
    BY <1>10
  <2>2. CASE k = m
    BY <1>4, <1>9, <2>2
  <2>3. CASE k # m
    <3> HIDE DEF M2
    <3>1. k # <<Len(o), p>>
      BY <2>3
    <3>2. QED
      BY <1>1, <2>1, <3>1, BegunKept
  <2>4. QED
    BY <2>2, <2>3
<1>11. M2 \subseteq Nat \X Nat /\ <<0, 0>> \in M2 /\ n \in M2
  <2>1. M \subseteq Nat \X Nat /\ <<0, 0>> \in M
    BY DEF Begins
  <2>2. n \in Nat \X Nat
    BY <1>2
  <2>3. QED
    BY <2>1, <2>2
<1> HIDE DEF M2
<1>12. Begins(o2, s, q, M2)
  BY <1>10, <1>11 DEF Begins
<1>13. QED
  BY <1>12

LEMMA EndTells ==
    ASSUME NEW o \in Seq(Bytes), NEW o2 \in Seq(Bytes), Grows(o, o2), NEW s \in Seq(Bytes),
           NEW p \in Nat, NEW t \in Nat, NEW at \in Nat, NEW M, Begins(o, s, p, M),
           Announced(o2, Len(o), t, at), Literals(o2, s, at, p, t),
           Ends(o2, at + t), p + t = Len(s)
    PROVE  Tells(o2, s, M)
<1> DEFINE e == <<Len(o), p>>
<1>1. ASSUME NEW m \in M PROVE Reads(o2, s, M, m)
  <2>1. CASE m = e
    <3>1. m[1] = Len(o) /\ m[2] = p
      BY <2>1
    <3>2. Follows(o2, s, M, at + t, p + t, t)
      BY DEF Follows
    <3>3. QED
      BY <3>1, <3>2 DEF Reads
  <2>2. CASE m # e
    <3>1. Continues(o2, s, M, m)
      BY <2>2, BegunKept
    <3>2. PICK t2 \in Nat, at2 \in Nat : /\ Announced(o2, m[1], t2, at2)
                                         /\ Literals(o2, s, at2, m[2], t2)
                                         /\ GoesOn(o2, s, M, at2 + t2, m[2] + t2, t2)
      BY <3>1 DEF Continues
    <3>3. Follows(o2, s, M, at2 + t2, m[2] + t2, t2)
      BY <3>2 DEF Follows
    <3>4. QED
      BY <3>2, <3>3 DEF Reads
  <2>3. QED
    BY <2>1, <2>2
<1>2. QED
  BY <1>1 DEF Tells, Begins

(* o2 is o, which stands for the first p bytes of s, with the instruction  *)
(* run for the t others, the t others, and the end.                        *)
Finished(o, o2, s, p, t, run) ==
    /\ p + t = Len(s)
    /\ o # <<>> => Len(o) >= 2 /\ o[Len(o) - 1] % 4 = 0
    /\ run = IF o = <<>> /\ t \in 1..238 THEN <<17 + t>> ELSE LiteralRun(o, t)
    /\ Len(run) \in Nat /\ Len(o2) = Len(run) + t + 3
    /\ \A i \in 1 .. Len(run) : o2[i] = run[i]
    /\ \A i \in 1..t : o2[Len(run) + i] = s[p + i]
    /\ o2[Len(run) + t + 1] = 17 /\ o2[Len(run) + t + 2] = 0 /\ o2[Len(run) + t + 3] = 0

LEMMA StreamTells ==
    ASSUME NEW o \in Seq(Bytes), NEW o2 \in Seq(Bytes), NEW s \in Seq(Bytes),
           NEW p \in Nat, NEW t \in Nat, NEW run, Finished(o, o2, s, p, t, run),
           NEW M, Begins(o, s, p, M)
    PROVE  Tells(o2, s, M)
<1> p + t = Len(s) /\ (o # <<>> => Len(o) >= 2 /\ o[Len(o) - 1] % 4 = 0)
  BY DEF Finished
<1> run = IF o = <<>> /\ t \in 1..238 THEN <<17 + t>> ELSE LiteralRun(o, t)
  BY DEF Finished
<1> Len(run) \in Nat /\ Len(o2) = Len(run) + t + 3
  BY DEF Finished
<1> \A i \in 1 .. Len(run) : o2[i] = run[i]
  BY DEF Finished
<1> \A i \in 1..t : o2[Len(run) + i] = s[p + i]
  BY DEF Finished
<1> o2[Len(run) + t + 1] = 17 /\ o2[Len(run) + t + 2] = 0 /\ o2[Len(run) + t + 3] = 0
  BY DEF Finished
<1>0. Len(o) \in Nat /\ Len(o2) \in Nat /\ (o = <<>> => Len(o) = 0)
  BY LenProperties
<1>1. Literals(o2, s, Len(run), p, t)
  BY <1>0 DEF Literals
<1>2. Ends(o2, Len(run) + t)
  BY DEF Ends
<1>3. o = <<>> => Grows(o, o2)
  BY <1>0 DEF Grows
<1>4. CASE o = <<>> /\ t \in 1..238
  <2>1. run = <<17 + t>>
    BY <1>4
  <2>2. Len(run) = 1 /\ run[1] = 17 + t
    BY <2>1
  <2>3. o2[1] = 17 + t /\ 1 <= Len(o2)
    BY <1>0, <2>2
  <2>4. Announced(o2, Len(o), t, Len(run))
    BY <1>0, <1>4, <2>2, <2>3 DEF Announced
  <2>5. QED
    BY <1>1, <1>2, <1>3, <1>4, <2>4, EndTells
<1>5. CASE o = <<>> /\ t = 0
  <2>1. run = LiteralRun(o, t)
    BY <1>5
  <2>2. run = <<>>
    BY <1>5, <2>1 DEF LiteralRun
  <2>3. Len(run) = 0
    BY <2>2
  <2>4. o2[1] = 17 /\ 1 <= Len(o2)
    BY <1>0, <1>5, <2>3
  <2>5. Announced(o2, Len(o), t, Len(run))
    BY <1>0, <1>5, <2>3, <2>4 DEF Announced
  <2>6. QED
    BY <1>1, <1>2, <1>3, <1>5, <2>5, EndTells
<1>6. CASE ~(o = <<>> /\ (t \in 1..238 \/ t = 0))
  <2>1. run = LiteralRun(o, t)
    BY <1>6
  <2>2. Open(o, t)
    <3>1. o = <<>> => t >= 4
      BY <1>6
    <3>2. QED
      BY <3>1 DEF Open
  <2>3. Len(run) + t <= Len(o2) /\ Len(run) <= Len(o2)
    <3> DEFINE r == Len(run)
    <3>1. r \in Nat /\ Len(o2) = r + t + 3
      OBVIOUS
    <3> HIDE DEF r
    <3>2. r + t <= Len(o2) /\ r <= Len(o2)
      BY <3>1
    <3>3. QED
      BY <3>2 DEF r
  <2>4. RunBehind(o, o2, s, p, t)
    BY <2>1, <2>3 DEF RunBehind
  <2>5. Grows(o, o2)
    BY <2>2, <2>4, OpenRun, RunGrows
  <2>6. Announced(o2, Len(o), t, Len(run))
    <3>1. Announced(o2, Len(o), t, Len(LiteralRun(o, t)))
      BY <2>1, <2>2, <2>3, RunAnnounces DEF Open
    <3>2. QED
      BY <2>1, <3>1
  <2>7. QED
    BY <1>1, <1>2, <2>5, <2>6, EndTells
<1>7. QED
  BY <1>4, <1>5, <1>6

-----------------------------------------------------------------------------
(* What the decompressor takes from the stream.                            *)
LEMMA InIs ==
    ASSUME out \in Seq(Bytes), NEW i \in Nat, i + 1 <= Len(out)
    PROVE  In(i) = out[i + 1] /\ In(i) \in Bytes
<1>1. Len(out) \in Nat /\ DOMAIN out = 1 .. Len(out)
  BY LenProperties
<1>2. i + 1 \in 1 .. Len(out)
  BY <1>1
<1>3. In(i) = out[i + 1]
  BY <1>1, <1>2 DEF In
<1>4. QED
  BY <1>2, <1>3, ElementOfSeq

LEMMA ByteOf ==
    ASSUME NEW o \in Seq(Bytes), NEW i \in Nat, 1 <= i, i <= Len(o)
    PROVE  o[i] \in Bytes /\ o[i] \in Nat
<1>1. i \in 1 .. Len(o)
  BY LenProperties
<1>2. o[i] \in Bytes
  BY <1>1, ElementOfSeq
<1>3. \A x \in Bytes : x \in Nat
  BY DEF Bytes
<1>4. QED
  BY <1>2, <1>3

LEMMA LongRead ==
    ASSUME out \in Seq(Bytes), NEW d \in Nat, 1 <= d, NEW k \in Nat, NEW at,
           AddedUp(out, d, k, at), NEW base \in Nat
    PROVE  Long(d, base) = [t |-> base + k, ip |-> at]
<1> DEFINE z == at - d - 1
           Is(n) == In(d + n) # 0 /\ \A j \in 0 .. n - 1 : In(d + j) = 0
           zeros == CHOOSE n \in 0 .. Len(out) : Is(n)
<1>1. /\ at \in Nat /\ d < at /\ at <= Len(out) /\ Len(out) \in Nat
      /\ \A j \in Nat : d < j /\ j < at => out[j] = 0
      /\ out[at] # 0 /\ k = 255 * z + out[at]
  BY LenProperties DEF AddedUp
<1>2. z \in 0 .. Len(out) /\ d + z + 1 = at /\ z \in Nat
  BY <1>1
<1>3. \A j \in 0..z : In(d + j) = out[d + j + 1]
  <2>1. TAKE j \in 0..z
  <2>2. d + j \in Nat /\ d + j + 1 <= Len(out)
    BY <1>1, <1>2
  <2>3. QED
    BY <2>2, InIs
<1>4. Is(z)
  <2>1. In(d + z) # 0
    <3>1. z \in 0..z
      BY <1>2
    <3>2. In(d + z) = out[d + z + 1]
      BY <1>3, <3>1
    <3>3. out[d + z + 1] = out[at]
      BY <1>2
    <3>4. QED
      BY <1>1, <3>2, <3>3
  <2>2. \A j \in 0 .. z - 1 : In(d + j) = 0
    <3>1. TAKE j \in 0 .. z - 1
    <3>2. j \in 0..z /\ d + j + 1 \in Nat /\ d < d + j + 1 /\ d + j + 1 < at
      BY <1>1, <1>2
    <3>3. QED
      BY <1>1, <1>3, <3>2
  <2>3. QED
    BY <2>1, <2>2
<1>5. ASSUME NEW n \in 0 .. Len(out), Is(n) PROVE n = z
  <2>1. CASE n < z
    <3>1. n \in 0 .. z - 1
      BY <1>2, <2>1
    <3>2. In(d + n) = 0
      BY <1>4, <3>1
    <3>3. QED
      BY <1>5, <3>2
  <2>2. CASE z < n
    <3>1. z \in 0 .. n - 1
      BY <1>2, <2>2
    <3>2. In(d + z) = 0
      BY <1>5, <3>1
    <3>3. QED
      BY <1>4, <3>2
  <2>3. QED
    BY <1>2, <2>1, <2>2
<1> HIDE DEF z
<1>6. zeros = z
  <2> HIDE DEF Is
  <2>1. \E n \in 0 .. Len(out) : Is(n)
    BY <1>2, <1>4
  <2>2. zeros \in 0 .. Len(out) /\ Is(zeros)
    BY <2>1
  <2>3. QED
    BY <1>5, <2>2
<1>7. Long(d, base) = [t |-> 255 * zeros + base + In(d + zeros), ip |-> d + zeros + 1]
  BY DEF Long
<1> HIDE DEF zeros
<1>8. In(d + z) = out[at] /\ out[at] \in Nat
  <2>1. In(d + z) = out[at]
    <3>1. z \in 0..z
      BY <1>2
    <3>2. In(d + z) = out[d + z + 1]
      BY <1>3, <3>1
    <3>3. QED
      BY <1>2, <3>2
  <2>2. 1 <= at
    BY <1>1
  <2>3. out[at] \in Nat
    BY <1>1, <2>2, ByteOf
  <2>4. QED
    BY <2>1, <2>3
<1>9. 255 * z + base + out[at] = base + k
  BY <1>1, <1>2, <1>8 DEF z
<1>10. QED
  BY <1>2, <1>6, <1>7, <1>8, <1>9

LEMMA CountRead ==
    ASSUME out \in Seq(Bytes), NEW d \in Nat, 1 <= d, NEW mask \in Nat, NEW n, NEW at,
           Counted(out, d, mask, n, at), NEW x, x = out[d]
    PROVE  LengthOf(x, mask, d) = [t |-> n, ip |-> at]
<1>1. CASE x % (mask + 1) # 0 /\ n = x % (mask + 1) /\ at = d
  BY <1>1 DEF LengthOf
<1>2. CASE x % (mask + 1) = 0 /\ \E k \in Nat : AddedUp(out, d, k, at) /\ n = mask + k
  <2>1. PICK k \in Nat : AddedUp(out, d, k, at) /\ n = mask + k
    BY <1>2
  <2>2. LengthOf(x, mask, d) = Long(d, mask)
    BY <1>2 DEF LengthOf
  <2>3. QED
    BY <2>1, <2>2, LongRead
<1>3. QED
  BY <1>1, <1>2 DEF Counted

-----------------------------------------------------------------------------
(* What it writes.                                                         *)

(* x is the first p bytes of the source.                                   *)
Prefix(x, p) ==
    /\ p \in Nat /\ p <= Len(source)
    /\ x \in Seq(Bytes) /\ Len(x) = p
    /\ \A i \in 1..p : x[i] = source[i]

LEMMA PrefixGrows ==
    ASSUME source \in Seq(Bytes), NEW x, NEW p, Prefix(x, p), NEW t \in Nat, p + t <= Len(source),
           NEW f, f = [i \in 1..t |-> f[i]], \A i \in 1..t : f[i] = source[p + i]
    PROVE  Prefix(x \o f, p + t)
<1>1. p \in Nat /\ Len(source) \in Nat /\ x \in Seq(Bytes) /\ Len(x) = p
      /\ \A i \in 1..p : x[i] = source[i]
  BY LenProperties DEF Prefix
<1>2. f \in Seq(Bytes) /\ Len(f) = t
  <2>1. ASSUME NEW i \in 1..t PROVE f[i] \in Bytes
    <3>1. p + i \in Nat /\ 1 <= p + i /\ p + i <= Len(source)
      BY <1>1
    <3>2. QED
      BY <3>1, ByteOf
  <2>2. f \in [1..t -> Bytes]
    BY <2>1
  <2>3. QED
    BY <2>2
<1>3. /\ x \o f \in Seq(Bytes)
      /\ Len(x \o f) = p + t
      /\ \A i \in 1..p : (x \o f)[i] = x[i]
      /\ \A i \in 1..t : (x \o f)[p + i] = f[i]
  BY <1>1, <1>2, Joined
<1>4. \A i \in 1 .. p + t : (x \o f)[i] = source[i]
  <2>1. TAKE i \in 1 .. p + t
  <2>2. CASE i <= p
    <3>1. i \in 1..p
      BY <1>1, <2>2
    <3>2. QED
      BY <1>1, <1>3, <3>1
  <2>3. CASE i > p
    <3> DEFINE j == i - p
    <3>1. j \in 1..t /\ p + j = i
      BY <1>1, <2>3
    <3> HIDE DEF j
    <3>2. QED
      BY <1>3, <3>1
  <2>4. QED
    BY <1>1, <2>2, <2>3
<1>5. p + t \in Nat
  BY <1>1
<1>6. QED
  BY <1>3, <1>4, <1>5 DEF Prefix

LEMMA LiteralsCopied ==
    ASSUME source \in Seq(Bytes), out \in Seq(Bytes), NEW p, Prefix(dst, p),
           NEW at \in Nat, NEW t \in Nat, Literals(out, source, at, p, t)
    PROVE  Prefix(CopyLiterals(at, t), p + t)
<1> DEFINE f == [i \in 1..t |-> In(at + i - 1)]
<1>1. p \in Nat /\ at + t <= Len(out) /\ Len(out) \in Nat
  BY LenProperties DEF Prefix, Literals
<1>2. \A i \in 1..t : f[i] = source[p + i]
  <2>1. TAKE i \in 1..t
  <2>2. at + i - 1 \in Nat /\ (at + i - 1) + 1 = at + i /\ (at + i - 1) + 1 <= Len(out)
    BY <1>1
  <2>3. In(at + i - 1) = out[at + i]
    BY <2>2, InIs
  <2>4. f[i] = out[at + i]
    BY <2>3
  <2>5. QED
    BY <2>4 DEF Literals
<1>3. f = [i \in 1..t |-> f[i]]
  OBVIOUS
<1>4. CopyLiterals(at, t) = dst \o f
  BY DEF CopyLiterals
<1> HIDE DEF f
<1>5. p + t <= Len(source)
  BY DEF Literals
<1>6. QED
  BY <1>2, <1>3, <1>4, <1>5, PrefixGrows

(* A match that overlaps itself repeats its first off bytes.               *)
LEMMA Quotient ==
    ASSUME NEW x \in Nat, NEW y \in Nat, 1 <= y
    PROVE  x \div y \in Nat /\ x = y * (x \div y) + (x % y) /\ x % y \in Nat /\ x % y < y
  OBVIOUS

LEMMA OneRemainder ==
    ASSUME NEW y \in Nat, NEW a \in Nat, NEW b \in Nat, NEW r \in Nat, NEW s \in Nat,
           r < y, s < y, y * a + r = y * b + s
    PROVE  r = s
<1>1. CASE a = b
  BY <1>1
<1>2. ASSUME NEW u \in Nat, NEW v \in Nat, u < v PROVE y * u + y <= y * v
  <2>1. PICK c \in Nat : v = u + 1 + c
    <3>1. v - u - 1 \in Nat /\ v = u + 1 + (v - u - 1)
      BY <1>2
    <3>2. QED
      BY <3>1
  <2>2. y * v = y * u + y + y * c /\ y * c \in Nat /\ y * u \in Nat
    BY <2>1
  <2>3. QED
    BY <2>2
<1>3. y * a \in Nat /\ y * b \in Nat
  OBVIOUS
<1>4. CASE a < b
  <2>1. y * a + y <= y * b
    BY <1>2, <1>4
  <2>2. QED
    BY <1>3, <2>1
<1>5. CASE b < a
  <2>1. y * b + y <= y * a
    BY <1>2, <1>5
  <2>2. QED
    BY <1>3, <2>1
<1>6. QED
  BY <1>1, <1>4, <1>5

LEMMA LessByOne ==
    ASSUME NEW x \in Nat, NEW y \in Nat, 1 <= y, y <= x
    PROVE  (x - y) % y = x % y
<1> DEFINE z == x - y
           a == z \div y
           b == x \div y
           r == z % y
           s == x % y
<1>1. z \in Nat /\ x = z + y
  OBVIOUS
<1>2. a \in Nat /\ z = y * a + r /\ r \in Nat /\ r < y
  BY <1>1, Quotient
<1>3. b \in Nat /\ x = y * b + s /\ s \in Nat /\ s < y
  BY Quotient
<1> SUFFICES r = s
  OBVIOUS
<1> HIDE DEF z, a, b, r, s
<1>4. y * (a + 1) + r = y * b + s
  <2>1. y * (a + 1) = y * a + y
    BY <1>2
  <2>2. y * a \in Nat
    BY <1>2
  <2>3. QED
    BY <1>1, <1>2, <1>3, <2>1, <2>2
<1>5. a + 1 \in Nat
  BY <1>2
<1>6. QED
  BY <1>2, <1>3, <1>4, <1>5, OneRemainder

LEMMA Periods ==
    ASSUME source \in Seq(Bytes), NEW q \in Nat, NEW len \in Nat, NEW off \in Nat,
           Repeats(source, q, len, off)
    PROVE  \A i \in 1..len : source[q + i] = source[q - off + ((i - 1) % off) + 1]
<1> DEFINE Same(i) == source[q + i] = source[q - off + ((i - 1) % off) + 1]
           S == {i \in Nat : 1 <= i /\ i <= len /\ ~Same(i)}
<1>1. 1 <= off /\ off <= q
  BY DEF Repeats
<1>2. \A i \in 1..len : source[q + i] = source[q + i - off]
  BY DEF Repeats
<1>3. SUFFICES ASSUME S # {} PROVE FALSE
  <2>1. S = {}
    BY <1>3
  <2>2. ASSUME NEW i \in 1..len PROVE Same(i)
    <3> HIDE DEF Same
    <3>1. i \in Nat /\ 1 <= i /\ i <= len
      OBVIOUS
    <3>2. i \notin S
      BY <2>1
    <3>3. QED
      BY <3>1, <3>2
  <2>3. QED
    BY <2>2
<1>4. PICK k \in S : \A j \in S : k <= j
  <2>1. S \subseteq Nat
    OBVIOUS
  <2> HIDE DEF S
  <2>2. QED
    BY <1>3, <2>1, LeastExists
<1>5. k \in Nat /\ 1 <= k /\ k <= len /\ ~Same(k)
  <2> HIDE DEF Same
  <2>1. QED
    OBVIOUS
<1>6. source[q + k] = source[q + k - off]
  BY <1>2, <1>5
<1>7. CASE k <= off
  <2>1. k - 1 \in Nat /\ k - 1 < off
    BY <1>5, <1>7
  <2>2. (k - 1) % off = k - 1
    BY <1>1, <2>1
  <2>3. q - off + ((k - 1) % off) + 1 = q + k - off
    BY <1>1, <1>5, <2>2
  <2>4. QED
    BY <1>5, <1>6, <2>3
<1>8. CASE off < k
  <2> DEFINE j == k - off
  <2>1. j \in Nat /\ 1 <= j /\ j <= len /\ ~(k <= j)
    BY <1>1, <1>5, <1>8
  <2>2. Same(j)
    <3> HIDE DEF Same, j
    <3>1. j \notin S
      BY <1>4, <2>1
    <3>2. QED
      BY <2>1, <3>1
  <2>3. (j - 1) % off = (k - 1) % off
    <3>1. k - 1 \in Nat /\ off <= k - 1 /\ (k - 1) - off = j - 1
      BY <1>1, <1>5, <1>8
    <3>2. ((k - 1) - off) % off = (k - 1) % off
      BY <1>1, <3>1, LessByOne
    <3> HIDE DEF j
    <3>3. QED
      BY <3>1, <3>2
  <2>4. q + j = q + k - off
    BY <1>1, <1>5
  <2> HIDE DEF j
  <2>5. source[q + j] = source[q - off + ((k - 1) % off) + 1]
    BY <2>2, <2>3
  <2>6. QED
    BY <1>5, <1>6, <2>4, <2>5
<1>9. QED
  BY <1>1, <1>5, <1>7, <1>8

LEMMA MatchCopied ==
    ASSUME source \in Seq(Bytes), NEW q, Prefix(dst, q),
           NEW len \in Nat, NEW off \in Nat, Repeats(source, q, len, off)
    PROVE  Prefix(CopyMatch(off, len), q + len)
<1> DEFINE From(i) == Len(dst) - off + ((i - 1) % off) + 1
           f == [i \in 1..len |-> IF From(i) \in DOMAIN dst THEN dst[From(i)] ELSE Stray]
<1>1. q \in Nat /\ Len(dst) = q /\ DOMAIN dst = 1..q /\ \A i \in 1..q : dst[i] = source[i]
  BY LenProperties DEF Prefix
<1>2. 1 <= off /\ off <= q /\ q + len <= Len(source)
  BY DEF Repeats
<1>3. \A i \in 1..len : f[i] = source[q + i]
  <2>1. TAKE i \in 1..len
  <2>2. source[q + i] = source[q - off + ((i - 1) % off) + 1]
    BY <1>1, Periods
  <2>3. From(i) \in 1..q /\ From(i) = q - off + ((i - 1) % off) + 1
    <3>1. i - 1 \in Nat
      OBVIOUS
    <3> DEFINE r == (i - 1) % off
    <3>2. r \in Nat /\ r < off
      BY <1>2, <3>1, Quotient
    <3>3. From(i) = q - off + r + 1
      BY <1>1
    <3> HIDE DEF r
    <3>4. q - off + r + 1 \in 1..q
      BY <1>1, <1>2, <3>2
    <3>5. QED
      BY <3>3, <3>4 DEF r
  <2> HIDE DEF From
  <2>4. f[i] = dst[From(i)]
    BY <1>1, <2>3
  <2>5. QED
    BY <1>1, <2>2, <2>3, <2>4
<1>4. f = [i \in 1..len |-> f[i]]
  OBVIOUS
<1>5. CopyMatch(off, len) = dst \o f
  BY DEF CopyMatch
<1> HIDE DEF f
<1>6. QED
  BY <1>2, <1>3, <1>4, <1>5, PrefixGrows

-----------------------------------------------------------------------------
(* The states of the decompressor, u its registers and x what it has       *)
(* written, while it reads a stream that tells its source by M.            *)
AtStart(u, x) == u.pc = "start" /\ u.ip = 0 /\ Prefix(x, 0)
AtRun(M, u, x) ==
    /\ u.pc = "run"
    /\ \E m \in M : /\ m[1] = u.ip /\ Prefix(x, m[2])
                    /\ u.ip >= 2 => out[u.ip - 1] % 4 = 0
                    /\ u.ip = 0 => out[1] <= 17
AtFew(M, u, x) ==
    /\ u.pc = "few" /\ u.t \in 1..3
    /\ \E p \in Nat : /\ Prefix(x, p) /\ Literals(out, source, u.ip, p, u.t)
                      /\ Follows(out, source, M, u.ip + u.t, p + u.t, u.t)
AtFirst(M, u, x) ==
    /\ u.pc = "first"
    /\ \E p, t \in Nat : t > 3 /\ Prefix(x, p) /\ Follows(out, source, M, u.ip, p, t)
AtMatch(M, u, x) ==
    /\ u.pc = "match"
    /\ \E p, t, d \in Nat : /\ u.ip = d + 1 /\ u.t = out[d + 1] /\ (u.t < 16 => t \in 1..3)
                            /\ Prefix(x, p) /\ Follows(out, source, M, d, p, t)
AtEnd(u, x) == u.pc = "ok" /\ Prefix(x, Len(source))

Decoded(M, u, x) ==
    /\ u = [pc |-> u.pc, ip |-> u.ip, t |-> u.t] /\ u.ip \in Nat
    /\ \/ AtStart(u, x) \/ AtRun(M, u, x) \/ AtFew(M, u, x)
       \/ AtFirst(M, u, x) \/ AtMatch(M, u, x) \/ AtEnd(u, x)

Decodes(M) ==
    /\ source \in Seq(Bytes) /\ out \in Seq(Bytes)
    /\ M \subseteq Nat \X Nat /\ Tells(out, source, M)
    /\ Decoded(M, unpacker, dst)

LEMMA Instruction ==
    ASSUME out \in Seq(Bytes), NEW M, M \subseteq Nat \X Nat, NEW q, NEW d \in Nat, NEW t,
           Follows(out, source, M, d, q, t)
    PROVE  /\ d + 2 <= Len(out) /\ out[d + 1] \in Bytes
           /\ In(d) = out[d + 1] /\ In(d + 1) = out[d + 2]
<1>1. Len(out) \in Nat
  BY LenProperties
<1>2. d + 2 <= Len(out)
  <2>1. CASE Ends(out, d) /\ q = Len(source)
    BY <1>1, <2>1 DEF Ends
  <2>2. CASE GoesOn(out, source, M, d, q, t)
    <3>1. PICK m \in M : \E len, off \in Nat \ {0} : Instructs(out, d, t, len, off, m[1])
      BY <2>2 DEF GoesOn
    <3>2. d + 2 <= m[1] /\ m[1] <= Len(out)
      BY <3>1 DEF Instructs
    <3>3. m[1] \in Nat
      OBVIOUS
    <3>4. QED
      BY <1>1, <3>2, <3>3
  <2>3. QED
    BY <2>1, <2>2 DEF Follows
<1>3. d + 1 \in Nat /\ 1 <= d + 1 /\ d + 1 <= Len(out) /\ (d + 1) + 1 = d + 2
  BY <1>1, <1>2
<1>4. out[d + 1] \in Bytes
  BY <1>3, ByteOf
<1>5. In(d) = out[d + 1]
  BY <1>3, InIs
<1>6. In(d + 1) = out[(d + 1) + 1]
  <2> DEFINE i == d + 1
  <2>1. i \in Nat /\ i + 1 <= Len(out)
    BY <1>2, <1>3
  <2> HIDE DEF i
  <2>2. In(i) = out[i + 1]
    BY <2>1, InIs
  <2>3. QED
    BY <2>2 DEF i
<1>7. QED
  BY <1>2, <1>3, <1>4, <1>5, <1>6

(* match_done: the literals that follow are those of the next instruction. *)
LEMMA AfterMatchDecodes ==
    ASSUME source \in Seq(Bytes), out \in Seq(Bytes), NEW M, M \subseteq Nat \X Nat,
           Tells(out, source, M), NEW m \in M, 2 <= m[1], m[1] <= Len(out),
           NEW x, Prefix(x, m[2]), AfterMatch(m[1])
    PROVE  Decoded(M, unpacker', x)
<1> DEFINE b == m[1]
           t == out[b - 1] % 4
           u == unpacker'
<1>1. b \in Nat /\ m[2] \in Nat /\ 2 <= b /\ b <= Len(out)
  OBVIOUS
<1>2. In(b - 2) = out[b - 1]
  <2>1. b - 2 \in Nat /\ (b - 2) + 1 = b - 1 /\ (b - 2) + 1 <= Len(out)
    BY <1>1, LenProperties
  <2> HIDE DEF b
  <2>2. QED
    BY <2>1, InIs
<1>3. u = [pc |-> IF t = 0 THEN "run" ELSE "few", ip |-> b, t |-> t]
  BY <1>2 DEF AfterMatch
<1> HIDE DEF b, u
<1>4. u = [pc |-> u.pc, ip |-> u.ip, t |-> u.t] /\ u.ip \in Nat /\ u.ip = b /\ u.t = t
  BY <1>1, <1>3
<1>5. CASE t = 0
  <2>1. u.pc = "run"
    BY <1>3, <1>5
  <2>2. AtRun(M, u, x)
    BY <1>1, <1>4, <1>5, <2>1 DEF AtRun, b
  <2>3. QED
    BY <1>4, <2>2 DEF Decoded, u
<1>6. CASE t # 0
  <2>0. u.pc = "few"
    BY <1>3, <1>6
  <2>1. out[b - 1] \in Nat
    <3>1. b - 1 \in Nat /\ 1 <= b - 1 /\ b - 1 <= Len(out)
      BY <1>1, LenProperties
    <3>2. QED
      BY <3>1, ByteOf
  <2>2. t \in 1..3
    BY <1>6, <2>1
  <2>3. PICK t2 \in Nat, at \in Nat : /\ Announced(out, b, t2, at)
                                      /\ Literals(out, source, at, m[2], t2)
                                      /\ Follows(out, source, M, at + t2, m[2] + t2, t2)
    BY DEF Tells, Reads, b
  <2>4. t2 = t /\ at = b
    BY <1>1, <1>6, <2>3 DEF Announced
  <2> HIDE DEF t
  <2>5. /\ Literals(out, source, u.ip, m[2], u.t)
        /\ Follows(out, source, M, u.ip + u.t, m[2] + u.t, u.t)
    BY <1>4, <2>3, <2>4
  <2>6. AtFew(M, u, x)
    BY <1>1, <1>4, <2>0, <2>2, <2>5 DEF AtFew
  <2>7. QED
    BY <1>4, <2>6 DEF Decoded, u
<1>7. QED
  BY <1>5, <1>6

(* Which match an instruction is for goes by its first byte.               *)
LEMMA NearRead ==
    ASSUME NEW o, NEW d, NEW t, NEW len, NEW off, NEW b, Instructs(o, d, t, len, off, b),
           o[d + 1] \in Bytes, o[d + 1] >= 64
    PROVE  b = d + 2 /\ len = o[d + 1] \div 32 + 1 /\ off = 1 + ((o[d + 1] \div 4) % 8) + o[b] * 8
<1>1. ~(o[d + 1] < 64) /\ ~(o[d + 1] < 32) /\ ~(o[d + 1] < 16)
  BY DEF Bytes
<1>2. QED
  BY <1>1 DEF Instructs

LEMMA MiddleRead ==
    ASSUME NEW o, NEW d, NEW t, NEW len, NEW off, NEW b, Instructs(o, d, t, len, off, b),
           o[d + 1] \in Bytes, o[d + 1] >= 32, o[d + 1] < 64
    PROVE  \E n \in Nat \ {0} : /\ Counted(o, d + 1, 31, n, b - 2) /\ len = n + 2
                                /\ off = 1 + (o[b - 1] \div 4) + o[b] * 64
<1>1. ~(o[d + 1] >= 64) /\ ~(o[d + 1] < 32) /\ ~(o[d + 1] < 16)
  BY DEF Bytes
<1>2. QED
  BY <1>1 DEF Instructs

LEMMA FarRead ==
    ASSUME NEW o, NEW d, NEW t, NEW len, NEW off, NEW b, Instructs(o, d, t, len, off, b),
           o[d + 1] \in Bytes, o[d + 1] >= 16, o[d + 1] < 32
    PROVE  \E n \in Nat \ {0} :
              /\ Counted(o, d + 1, 7, n, b - 2) /\ len = n + 2
              /\ off = 16384 + 16384 * ((o[d + 1] \div 8) % 2) + (o[b - 1] \div 4) + o[b] * 64
              /\ off > 16384
<1>1. ~(o[d + 1] >= 64) /\ ~(o[d + 1] >= 32) /\ ~(o[d + 1] < 16)
  BY DEF Bytes
<1>2. QED
  BY <1>1 DEF Instructs

LEMMA ShortRead ==
    ASSUME NEW o, NEW d, NEW t \in 1..3, NEW len, NEW off, NEW b, Instructs(o, d, t, len, off, b),
           o[d + 1] \in Bytes, o[d + 1] < 16
    PROVE  b = d + 2 /\ len = 2 /\ off = 1 + (o[d + 1] \div 4) + o[b] * 4
<1>1. ~(o[d + 1] >= 64) /\ ~(o[d + 1] >= 32) /\ ~(o[d + 1] >= 16) /\ ~(t > 3)
  BY DEF Bytes
<1>2. QED
  BY <1>1 DEF Instructs

LEMMA AfterRunRead ==
    ASSUME NEW o, NEW d, NEW t, t \notin 1..3, NEW len, NEW off, NEW b,
           Instructs(o, d, t, len, off, b), o[d + 1] \in Bytes, o[d + 1] < 16
    PROVE  b = d + 2 /\ len = 3 /\ off = 2049 + (o[d + 1] \div 4) + o[b] * 4
<1>1. ~(o[d + 1] >= 64) /\ ~(o[d + 1] >= 32) /\ ~(o[d + 1] >= 16)
  BY DEF Bytes
<1>2. QED
  BY <1>1 DEF Instructs

LEMMA NoneRead ==
    ASSUME NEW o, NEW d, NEW len, NEW off, NEW b, Instructs(o, d, 0, len, off, b),
           o[d + 1] \in Bytes
    PROVE  o[d + 1] >= 16
<1>1. \A x \in Bytes : x >= 64 \/ x >= 32 => x >= 16
  BY DEF Bytes
<1>2. 0 \notin 1..3 /\ ~(0 > 3)
  OBVIOUS
<1>3. o[d + 1] >= 64 \/ o[d + 1] >= 32 \/ o[d + 1] >= 16
  BY <1>2 DEF Instructs
<1>4. QED
  BY <1>1, <1>3

LEMMA MatchDecodes ==
    ASSUME NEW M, Decodes(M), NEW q, Prefix(dst, q), NEW d \in Nat, NEW t,
           NEW m \in M, NEW len \in Nat \ {0}, NEW off \in Nat \ {0},
           Instructs(out, d, t, len, off, m[1]), Repeats(source, q, len, off), m[2] = q + len,
           NEW off2, NEW len2, NEW b, off2 = off, len2 = len, b = m[1],
           dst' = CopyMatch(off2, len2), AfterMatch(b)
    PROVE  Decoded(M, unpacker', dst')
<1>1. Prefix(dst', m[2])
  BY MatchCopied DEF Decodes
<1>2. m[1] \in Nat /\ d + 2 <= m[1] /\ m[1] <= Len(out) /\ 2 <= m[1]
  <2>1. m[1] \in Nat
    BY DEF Decodes
  <2>2. d + 2 <= m[1] /\ m[1] <= Len(out)
    BY DEF Instructs
  <2>3. QED
    BY <2>1, <2>2
<1> DEFINE x == dst'
<1>3. Prefix(x, m[2])
  BY <1>1
<1> HIDE DEF x
<1>4. Decoded(M, unpacker', x)
  BY <1>2, <1>3, AfterMatchDecodes DEF Decodes
<1>5. QED
  BY <1>4 DEF x

LEMMA AtMatchFacts ==
    ASSUME NEW M, Decodes(M), unpacker.pc = "match"
    PROVE  \E p, t, d \in Nat :
              /\ unpacker.ip = d + 1 /\ unpacker.t = out[d + 1] /\ (unpacker.t < 16 => t \in 1..3)
              /\ Prefix(dst, p) /\ Follows(out, source, M, d, p, t)
              /\ d + 2 <= Len(out) /\ out[d + 1] \in Bytes
              /\ In(d) = out[d + 1] /\ In(d + 1) = out[d + 2]
<1>1. AtMatch(M, unpacker, dst)
  BY DEF Decodes, Decoded, AtStart, AtRun, AtFew, AtFirst, AtEnd
<1>2. PICK p \in Nat, t \in Nat, d \in Nat :
         /\ unpacker.ip = d + 1 /\ unpacker.t = out[d + 1] /\ (unpacker.t < 16 => t \in 1..3)
         /\ Prefix(dst, p) /\ Follows(out, source, M, d, p, t)
  BY <1>1 DEF AtMatch
<1>3. /\ d + 2 <= Len(out) /\ out[d + 1] \in Bytes
      /\ In(d) = out[d + 1] /\ In(d + 1) = out[d + 2]
  BY <1>2, Instruction DEF Decodes
<1>4. QED
  BY <1>2, <1>3

LEMMA NearMatchDecodes ==
    ASSUME NEW M, Decodes(M), NearMatch
    PROVE  Decoded(M, unpacker', dst')
<1>1. PICK p \in Nat, t \in Nat, d \in Nat :
         /\ unpacker.ip = d + 1 /\ unpacker.t = out[d + 1]
         /\ Prefix(dst, p) /\ Follows(out, source, M, d, p, t)
         /\ d + 2 <= Len(out) /\ out[d + 1] \in Bytes
         /\ In(d) = out[d + 1] /\ In(d + 1) = out[d + 2]
  BY AtMatchFacts DEF NearMatch, Running
<1>2. out[d + 1] >= 64
  BY <1>1 DEF NearMatch
<1>3. GoesOn(out, source, M, d, p, t)
  BY <1>1, <1>2 DEF Follows, Ends
<1>4. PICK m \in M, len \in Nat \ {0}, off \in Nat \ {0} :
         Instructs(out, d, t, len, off, m[1]) /\ Repeats(source, p, len, off) /\ m[2] = p + len
  BY <1>3 DEF GoesOn
<1>5. /\ m[1] = d + 2 /\ len = out[d + 1] \div 32 + 1
      /\ off = 1 + ((out[d + 1] \div 4) % 8) + out[m[1]] * 8
  BY <1>1, <1>2, <1>4, NearRead
<1> DEFINE off2 == 1 + ((unpacker.t \div 4) % 8) + In(unpacker.ip) * 8
           len2 == unpacker.t \div 32 + 1
           b == unpacker.ip + 1
<1>6. off2 = off /\ len2 = len /\ b = m[1]
  BY <1>1, <1>5
<1>7. dst' = CopyMatch(off2, len2) /\ AfterMatch(b)
  BY DEF NearMatch
<1> HIDE DEF off2, len2, b
<1>8. QED
  BY <1>1, <1>4, <1>6, <1>7, MatchDecodes

LEMMA OffsetRead ==
    ASSUME out \in Seq(Bytes), NEW b \in Nat, 2 <= b, b <= Len(out)
    PROVE  OffsetAt(b - 2) = out[b - 1] \div 4 + out[b] * 64
<1>1. Len(out) \in Nat
  BY LenProperties
<1>2. b - 2 \in Nat /\ (b - 2) + 1 = b - 1 /\ b - 1 \in Nat /\ (b - 1) + 1 = b /\ b - 1 <= Len(out)
  BY <1>1
<1>3. In(b - 2) = out[(b - 2) + 1]
  <2> DEFINE i == b - 2
  <2>1. i \in Nat /\ i + 1 <= Len(out)
    BY <1>2
  <2> HIDE DEF i
  <2>2. In(i) = out[i + 1]
    BY <2>1, InIs
  <2>3. QED
    BY <2>2 DEF i
<1>4. In(b - 1) = out[(b - 1) + 1]
  <2> DEFINE i == b - 1
  <2>1. i \in Nat /\ i + 1 <= Len(out)
    BY <1>2
  <2> HIDE DEF i
  <2>2. In(i) = out[i + 1]
    BY <2>1, InIs
  <2>3. QED
    BY <2>2 DEF i
<1>5. OffsetAt(b - 2) = In(b - 2) \div 4 + In((b - 2) + 1) * 64
  BY DEF OffsetAt
<1>6. QED
  BY <1>2, <1>3, <1>4, <1>5

(* The length of a match as the decompressor comes to it.                  *)
LEMMA LengthRead ==
    ASSUME out \in Seq(Bytes), NEW d \in Nat, d + 2 <= Len(out), NEW mask \in Nat, NEW n, NEW b,
           Counted(out, d + 1, mask, n, b - 2), NEW x, x = out[d + 1], NEW ip, ip = d + 1
    PROVE  LengthOf(x, mask, ip) = [t |-> n, ip |-> b - 2]
<1> DEFINE i == d + 1
           at == b - 2
<1>1. i \in Nat /\ 1 <= i /\ Counted(out, i, mask, n, at) /\ x = out[i] /\ ip = i
  OBVIOUS
<1> HIDE DEF i, at
<1>2. LengthOf(x, mask, i) = [t |-> n, ip |-> at]
  BY <1>1, CountRead
<1>3. QED
  BY <1>1, <1>2 DEF at

(* The instruction after d bytes, its number n, is for a match off bytes   *)
(* back; it ends where m is.                                               *)
MiddleTaken(p, t, d, m, n, off) ==
    /\ unpacker.ip = d + 1 /\ unpacker.t = out[d + 1]
    /\ Prefix(dst, p) /\ Counted(out, d + 1, 31, n, m[1] - 2)
    /\ m[1] \in Nat /\ 2 <= m[1] /\ m[1] <= Len(out)
    /\ LengthOf(unpacker.t, 31, unpacker.ip) = [t |-> n, ip |-> m[1] - 2]
    /\ off = 1 + OffsetAt(m[1] - 2)
    /\ Instructs(out, d, t, n + 2, off, m[1])
    /\ Repeats(source, p, n + 2, off) /\ m[2] = p + (n + 2)

LEMMA MiddleInstruction ==
    ASSUME NEW M, Decodes(M), unpacker.pc = "match", unpacker.t \in 32..63
    PROVE  \E p, t, d \in Nat : \E m \in M : \E n \in Nat \ {0} : \E off \in Nat \ {0} :
              MiddleTaken(p, t, d, m, n, off)
<1>0. out \in Seq(Bytes) /\ M \subseteq Nat \X Nat
  BY DEF Decodes
<1>1. PICK p \in Nat, t \in Nat, d \in Nat :
         /\ unpacker.ip = d + 1 /\ unpacker.t = out[d + 1]
         /\ Prefix(dst, p) /\ Follows(out, source, M, d, p, t)
         /\ d + 2 <= Len(out) /\ out[d + 1] \in Bytes
  BY AtMatchFacts
<1>2. out[d + 1] >= 32 /\ out[d + 1] < 64
  <2>1. out[d + 1] \in 32..63
    BY <1>1
  <2>2. \A x \in 32..63 : x >= 32 /\ x < 64
    OBVIOUS
  <2>3. QED
    BY <2>1, <2>2
<1>3. GoesOn(out, source, M, d, p, t)
  BY <1>1, <1>2 DEF Follows, Ends
<1>4. PICK m \in M, len \in Nat \ {0}, off \in Nat \ {0} :
         Instructs(out, d, t, len, off, m[1]) /\ Repeats(source, p, len, off) /\ m[2] = p + len
  BY <1>3 DEF GoesOn
<1>5. PICK n \in Nat \ {0} : /\ Counted(out, d + 1, 31, n, m[1] - 2) /\ len = n + 2
                             /\ off = 1 + (out[m[1] - 1] \div 4) + out[m[1]] * 64
  <2> DEFINE b == m[1]
  <2>1. Instructs(out, d, t, len, off, b)
    BY <1>4
  <2> HIDE DEF b
  <2>2. \E n \in Nat \ {0} : /\ Counted(out, d + 1, 31, n, b - 2) /\ len = n + 2
                            /\ off = 1 + (out[b - 1] \div 4) + out[b] * 64
    BY <1>1, <1>2, <2>1, MiddleRead
  <2>3. QED
    BY <2>2 DEF b
<1>6. m[1] \in Nat /\ d + 2 <= m[1] /\ m[1] <= Len(out) /\ 2 <= m[1]
  <2>1. m[1] \in Nat
    BY <1>0
  <2>2. d + 2 <= m[1] /\ m[1] <= Len(out)
    BY <1>4 DEF Instructs
  <2>3. QED
    BY <2>1, <2>2
<1>7. LengthOf(unpacker.t, 31, unpacker.ip) = [t |-> n, ip |-> m[1] - 2]
  <2> DEFINE b == m[1]
             x == unpacker.t
             ip == unpacker.ip
  <2>1. Counted(out, d + 1, 31, n, b - 2) /\ x = out[d + 1] /\ ip = d + 1
    BY <1>1, <1>5
  <2> HIDE DEF b, x, ip
  <2>2. 31 \in Nat /\ d \in Nat /\ d + 2 <= Len(out)
    BY <1>1
  <2>3. LengthOf(x, 31, ip) = [t |-> n, ip |-> b - 2]
    BY <1>0, <2>1, <2>2, LengthRead
  <2>4. QED
    BY <2>3 DEF b, x, ip
<1>8. OffsetAt(m[1] - 2) = (out[m[1] - 1] \div 4) + out[m[1]] * 64
  BY <1>0, <1>6, OffsetRead
<1>9. off = 1 + OffsetAt(m[1] - 2)
  <2>1. out[m[1] - 1] \in Nat /\ out[m[1]] \in Nat
    <3>1. m[1] - 1 \in Nat /\ 1 <= m[1] - 1 /\ m[1] - 1 <= Len(out) /\ 1 <= m[1]
      BY <1>0, <1>6, LenProperties
    <3>2. QED
      BY <1>0, <1>6, <3>1, ByteOf
  <2>2. QED
    BY <1>5, <1>8, <2>1
<1> DEFINE b == m[1]
<1>10. /\ Counted(out, d + 1, 31, n, b - 2) /\ b \in Nat /\ 2 <= b /\ b <= Len(out)
       /\ LengthOf(unpacker.t, 31, unpacker.ip) = [t |-> n, ip |-> b - 2]
       /\ off = 1 + OffsetAt(b - 2)
       /\ Instructs(out, d, t, n + 2, off, b) /\ Repeats(source, p, n + 2, off)
       /\ m[2] = p + (n + 2)
  BY <1>4, <1>5, <1>6, <1>7, <1>9
<1> HIDE DEF b
<1>11. MiddleTaken(p, t, d, m, n, off)
  BY <1>1, <1>10 DEF b, MiddleTaken
<1>12. QED
  BY <1>11

LEMMA MiddleMatchDecodes ==
    ASSUME NEW M, Decodes(M), MiddleMatch
    PROVE  Decoded(M, unpacker', dst')
<1>0. unpacker.pc = "match" /\ unpacker.t \in 32..63
  BY DEF MiddleMatch, Running
<1>a. PICK p \in Nat, t \in Nat, d \in Nat, m \in M, n \in Nat \ {0}, off \in Nat \ {0} :
         MiddleTaken(p, t, d, m, n, off)
  BY <1>0, MiddleInstruction
<1>1. /\ Prefix(dst, p) /\ m[1] \in Nat
      /\ LengthOf(unpacker.t, 31, unpacker.ip) = [t |-> n, ip |-> m[1] - 2]
      /\ off = 1 + OffsetAt(m[1] - 2)
      /\ Instructs(out, d, t, n + 2, off, m[1])
      /\ Repeats(source, p, n + 2, off) /\ m[2] = p + (n + 2)
  BY <1>a DEF MiddleTaken
<1> DEFINE off2 == 1 + OffsetAt(m[1] - 2)
           len2 == n + 2
           b == (m[1] - 2) + 2
<1>2. dst' = CopyMatch(off2, len2) /\ AfterMatch(b)
  BY <1>1 DEF MiddleMatch
<1> DEFINE len == n + 2
<1>3. /\ len \in Nat \ {0} /\ off2 = off /\ len2 = len /\ b = m[1]
      /\ Instructs(out, d, t, len, off, m[1]) /\ Repeats(source, p, len, off) /\ m[2] = p + len
  BY <1>1
<1> HIDE DEF off2, len2, len, b
<1>4. QED
  BY <1>1, <1>2, <1>3, MatchDecodes

LEMMA ShortMatchDecodes ==
    ASSUME NEW M, Decodes(M), ShortMatch
    PROVE  Decoded(M, unpacker', dst')
<1>1. PICK p \in Nat, t \in Nat, d \in Nat :
         /\ unpacker.ip = d + 1 /\ unpacker.t = out[d + 1] /\ (unpacker.t < 16 => t \in 1..3)
         /\ Prefix(dst, p) /\ Follows(out, source, M, d, p, t)
         /\ d + 2 <= Len(out) /\ out[d + 1] \in Bytes
         /\ In(d) = out[d + 1] /\ In(d + 1) = out[d + 2]
  BY AtMatchFacts DEF ShortMatch, Running
<1>2. out[d + 1] < 16 /\ t \in 1..3
  BY <1>1 DEF ShortMatch
<1>3. GoesOn(out, source, M, d, p, t)
  BY <1>1, <1>2 DEF Follows, Ends
<1>4. PICK m \in M, len \in Nat \ {0}, off \in Nat \ {0} :
         Instructs(out, d, t, len, off, m[1]) /\ Repeats(source, p, len, off) /\ m[2] = p + len
  BY <1>3 DEF GoesOn
<1>5. m[1] = d + 2 /\ len = 2 /\ off = 1 + (out[d + 1] \div 4) + out[m[1]] * 4
  BY <1>1, <1>2, <1>4, ShortRead
<1> DEFINE off2 == 1 + unpacker.t \div 4 + In(unpacker.ip) * 4
           len2 == 2
           b == unpacker.ip + 1
<1>6. off2 = off /\ len2 = len /\ b = m[1]
  BY <1>1, <1>5
<1>7. dst' = CopyMatch(off2, len2) /\ AfterMatch(b)
  BY DEF ShortMatch
<1> HIDE DEF off2, len2, b
<1>8. QED
  BY <1>1, <1>4, <1>6, <1>7, MatchDecodes

(* The distance of a far match but for its 16384, which is 0 at the end.   *)
LowFar == 16384 * ((unpacker.t \div 8) % 2) + OffsetAt(LengthOf(unpacker.t, 7, unpacker.ip).ip)

LEMMA EndInstruction ==
    ASSUME out \in Seq(Bytes), NEW d \in Nat, Ends(out, d),
           unpacker.ip = d + 1, unpacker.t = out[d + 1]
    PROVE  /\ LengthOf(unpacker.t, 7, unpacker.ip) = [t |-> 1, ip |-> d + 1]
           /\ LowFar = 0 /\ (d + 1) + 2 = Len(out)
<1>1. Len(out) = d + 3 /\ out[d + 1] = 17 /\ out[d + 2] = 0 /\ out[d + 3] = 0
  BY DEF Ends
<1>2. LengthOf(unpacker.t, 7, unpacker.ip) = [t |-> 1, ip |-> d + 1]
  BY <1>1 DEF LengthOf
<1>3. OffsetAt(d + 1) = 0
  <2> DEFINE b == d + 3
  <2>1. b \in Nat /\ 2 <= b /\ b <= Len(out) /\ b - 2 = d + 1 /\ b - 1 = d + 2
        /\ out[b] = 0 /\ out[b - 1] = 0
    BY <1>1
  <2> HIDE DEF b
  <2>2. OffsetAt(b - 2) = out[b - 1] \div 4 + out[b] * 64
    BY <2>1, OffsetRead
  <2>3. QED
    BY <2>1, <2>2
<1>4. LowFar = 16384 * ((unpacker.t \div 8) % 2) + OffsetAt(d + 1)
  BY <1>2 DEF LowFar
<1>5. QED
  BY <1>1, <1>2, <1>3, <1>4

FarTaken(p, t, d, m, n, far) ==
    /\ Counted(out, d + 1, 7, n, m[1] - 2)
    /\ m[1] \in Nat /\ 2 <= m[1] /\ m[1] <= Len(out)
    /\ LengthOf(unpacker.t, 7, unpacker.ip) = [t |-> n, ip |-> m[1] - 2]
    /\ LowFar = far
    /\ Instructs(out, d, t, n + 2, far + 16384, m[1])
    /\ Repeats(source, p, n + 2, far + 16384) /\ m[2] = p + (n + 2)

LEMMA FarInstruction ==
    ASSUME NEW M, Decodes(M), unpacker.pc = "match", unpacker.t \in 16..31,
           NEW p \in Nat, NEW t \in Nat, NEW d \in Nat, GoesOn(out, source, M, d, p, t),
           unpacker.ip = d + 1, unpacker.t = out[d + 1], d + 2 <= Len(out), out[d + 1] \in Bytes
    PROVE  \E m \in M : \E n \in Nat \ {0} : \E far \in Nat \ {0} : FarTaken(p, t, d, m, n, far)
<1>0. out \in Seq(Bytes) /\ M \subseteq Nat \X Nat /\ Len(out) \in Nat
  BY LenProperties DEF Decodes
<1>1. out[d + 1] >= 16 /\ out[d + 1] < 32
  <2>1. out[d + 1] \in 16..31
    OBVIOUS
  <2>2. \A x \in 16..31 : x >= 16 /\ x < 32
    OBVIOUS
  <2>3. QED
    BY <2>1, <2>2
<1>2. PICK m \in M, len \in Nat \ {0}, off \in Nat \ {0} :
         Instructs(out, d, t, len, off, m[1]) /\ Repeats(source, p, len, off) /\ m[2] = p + len
  BY DEF GoesOn
<1>5. PICK n \in Nat \ {0} :
         /\ Counted(out, d + 1, 7, n, m[1] - 2) /\ len = n + 2
         /\ off = 16384 + 16384 * ((out[d + 1] \div 8) % 2) + (out[m[1] - 1] \div 4) + out[m[1]] * 64
         /\ off > 16384
  <2> DEFINE b == m[1]
  <2>1. Instructs(out, d, t, len, off, b)
    BY <1>2
  <2> HIDE DEF b
  <2>2. \E n \in Nat \ {0} :
           /\ Counted(out, d + 1, 7, n, b - 2) /\ len = n + 2
           /\ off = 16384 + 16384 * ((out[d + 1] \div 8) % 2) + (out[b - 1] \div 4) + out[b] * 64
           /\ off > 16384
    BY <1>1, <2>1, FarRead
  <2>3. QED
    BY <2>2 DEF b
<1>6. m[1] \in Nat /\ d + 2 <= m[1] /\ m[1] <= Len(out) /\ 2 <= m[1]
  <2>1. m[1] \in Nat
    BY <1>0
  <2>2. d + 2 <= m[1] /\ m[1] <= Len(out)
    BY <1>2 DEF Instructs
  <2>3. QED
    BY <2>1, <2>2
<1>7. LengthOf(unpacker.t, 7, unpacker.ip) = [t |-> n, ip |-> m[1] - 2]
  <2> DEFINE b == m[1]
  <2>1. Counted(out, d + 1, 7, n, b - 2)
    BY <1>5
  <2> HIDE DEF b
  <2>2. LengthOf(unpacker.t, 7, unpacker.ip) = [t |-> n, ip |-> b - 2]
    BY <1>0, <2>1, LengthRead
  <2>3. QED
    BY <2>2 DEF b
<1>8. OffsetAt(m[1] - 2) = (out[m[1] - 1] \div 4) + out[m[1]] * 64
  BY <1>0, <1>6, OffsetRead
<1> DEFINE far == off - 16384
           b == m[1]
<1>9. far \in Nat \ {0} /\ off = far + 16384
  <2>1. off \in Nat /\ off > 16384
    BY <1>5
  <2>2. QED
    BY <2>1
<1>10. LowFar = far
  <2> DEFINE bit == 16384 * ((out[d + 1] \div 8) % 2)
             low == out[b - 1] \div 4
             high == out[b] * 64
  <2>1. LowFar = bit + OffsetAt(b - 2)
    BY <1>7 DEF LowFar
  <2>2. OffsetAt(b - 2) = low + high
    BY <1>8
  <2>3. off = 16384 + bit + low + high
    BY <1>5
  <2>4. bit \in Nat
    <3>1. \A x \in Bytes : 16384 * ((x \div 8) % 2) \in Nat
      BY DEF Bytes
    <3>2. QED
      BY <3>1
  <2>5. low \in Nat /\ high \in Nat
    <3>1. b - 1 \in Nat /\ 1 <= b - 1 /\ b - 1 <= Len(out) /\ 1 <= b
      BY <1>0, <1>6
    <3>2. out[b - 1] \in Nat /\ out[b] \in Nat
      BY <1>0, <1>6, <3>1, ByteOf
    <3>3. \A x \in Nat : x \div 4 \in Nat /\ x * 64 \in Nat
      OBVIOUS
    <3> HIDE DEF b
    <3>4. QED
      BY <3>2, <3>3
  <2> HIDE DEF bit, low, high
  <2>6. QED
    BY <2>1, <2>2, <2>3, <2>4, <2>5
<1>11. Instructs(out, d, t, len, off, b) /\ Repeats(source, p, len, off) /\ m[2] = p + len
  BY <1>2
<1>12. len = n + 2 /\ Counted(out, d + 1, 7, n, b - 2)
  BY <1>5
<1>13. /\ b \in Nat /\ 2 <= b /\ b <= Len(out)
       /\ LengthOf(unpacker.t, 7, unpacker.ip) = [t |-> n, ip |-> b - 2]
  BY <1>6, <1>7
<1> HIDE DEF far, b
<1>14. /\ Instructs(out, d, t, n + 2, far + 16384, b)
       /\ Repeats(source, p, n + 2, far + 16384) /\ m[2] = p + (n + 2)
  BY <1>9, <1>11, <1>12
<1>15. FarTaken(p, t, d, m, n, far)
  BY <1>10, <1>12, <1>13, <1>14 DEF b, FarTaken
<1>16. QED
  BY <1>9, <1>15

LEMMA FarMatchDecodes ==
    ASSUME NEW M, Decodes(M), FarMatch
    PROVE  Decoded(M, unpacker', dst')
<1>1. PICK p \in Nat, t \in Nat, d \in Nat :
         /\ unpacker.ip = d + 1 /\ unpacker.t = out[d + 1]
         /\ Prefix(dst, p) /\ Follows(out, source, M, d, p, t)
         /\ d + 2 <= Len(out) /\ out[d + 1] \in Bytes
  BY AtMatchFacts DEF FarMatch, Running
<1>2. unpacker.pc = "match" /\ unpacker.t \in 16..31
  BY DEF FarMatch, Running
<1> DEFINE r == LengthOf(unpacker.t, 7, unpacker.ip)
<1>3. IF LowFar = 0
      THEN /\ unpacker' = [pc |-> IF r.ip + 2 = Len(out) THEN "ok" ELSE "error",
                           ip |-> r.ip + 2, t |-> 0]
           /\ dst' = dst
      ELSE dst' = CopyMatch(LowFar + 16384, r.t + 2) /\ AfterMatch(r.ip + 2)
  BY DEF FarMatch, LowFar
<1>4. CASE Ends(out, d) /\ p = Len(source)
  <2>1. /\ LengthOf(unpacker.t, 7, unpacker.ip) = [t |-> 1, ip |-> d + 1]
        /\ LowFar = 0 /\ (d + 1) + 2 = Len(out)
    BY <1>1, <1>4, EndInstruction DEF Decodes
  <2>2. unpacker' = [pc |-> "ok", ip |-> (d + 1) + 2, t |-> 0] /\ dst' = dst
    BY <1>3, <2>1
  <2>3. AtEnd(unpacker', dst')
    BY <1>1, <1>4, <2>2 DEF AtEnd
  <2>4. (d + 1) + 2 \in Nat
    OBVIOUS
  <2>5. QED
    BY <2>2, <2>3, <2>4 DEF Decoded
<1>5. CASE GoesOn(out, source, M, d, p, t)
  <2>a. PICK m \in M, n \in Nat \ {0}, far \in Nat \ {0} : FarTaken(p, t, d, m, n, far)
    BY <1>1, <1>2, <1>5, FarInstruction
  <2>1. /\ m[1] \in Nat /\ 2 <= m[1]
        /\ LengthOf(unpacker.t, 7, unpacker.ip) = [t |-> n, ip |-> m[1] - 2]
        /\ LowFar = far
        /\ Instructs(out, d, t, n + 2, far + 16384, m[1])
        /\ Repeats(source, p, n + 2, far + 16384) /\ m[2] = p + (n + 2)
    BY <2>a DEF FarTaken
  <2> DEFINE off2 == LowFar + 16384
             off == far + 16384
             len2 == n + 2
             len == n + 2
             b == (m[1] - 2) + 2
  <2>2. dst' = CopyMatch(off2, len2) /\ AfterMatch(b)
    <3>1. LowFar # 0
      BY <2>1
    <3>2. r.t = n /\ r.ip = m[1] - 2
      BY <2>1
    <3> HIDE DEF r
    <3>3. QED
      BY <1>3, <3>1, <3>2
  <2>3. /\ len \in Nat \ {0} /\ off \in Nat \ {0} /\ off2 = off /\ len2 = len /\ b = m[1]
        /\ Instructs(out, d, t, len, off, m[1]) /\ Repeats(source, p, len, off) /\ m[2] = p + len
    BY <2>1
  <2> HIDE DEF off2, off, len2, len, b
  <2>4. QED
    BY <1>1, <2>2, <2>3, MatchDecodes
<1>6. QED
  BY <1>1, <1>4, <1>5 DEF Follows

-----------------------------------------------------------------------------
(* Literals, and the way to the next match.                                *)
LEMMA ToMatch ==
    ASSUME out \in Seq(Bytes), NEW M, M \subseteq Nat \X Nat, NEW x, NEW p, Prefix(x, p),
           NEW d \in Nat, NEW t \in Nat, Follows(out, source, M, d, p, t),
           out[d + 1] < 16 => t \in 1..3,
           unpacker' = [pc |-> "match", ip |-> d + 1, t |-> In(d)]
    PROVE  Decoded(M, unpacker', x)
<1> DEFINE u == unpacker'
<1>1. In(d) = out[d + 1]
  BY Instruction
<1>2. u = [pc |-> "match", ip |-> d + 1, t |-> out[d + 1]]
  BY <1>1
<1> HIDE DEF u
<1>3. /\ u = [pc |-> u.pc, ip |-> u.ip, t |-> u.t] /\ u.ip \in Nat
      /\ u.pc = "match" /\ u.ip = d + 1 /\ u.t = out[d + 1]
  BY <1>2
<1>4. p \in Nat
  BY DEF Prefix
<1>5. AtMatch(M, u, x)
  BY <1>3, <1>4 DEF AtMatch
<1>6. QED
  BY <1>3, <1>5 DEF Decoded, u

LEMMA ToFirst ==
    ASSUME NEW M, NEW x, NEW p, Prefix(x, p), NEW d \in Nat, NEW t \in Nat, t > 3,
           Follows(out, source, M, d, p, t),
           unpacker' = [pc |-> "first", ip |-> d, t |-> 0]
    PROVE  Decoded(M, unpacker', x)
<1> DEFINE u == unpacker'
<1>1. /\ u = [pc |-> u.pc, ip |-> u.ip, t |-> u.t] /\ u.ip \in Nat
      /\ u.pc = "first" /\ u.ip = d
  OBVIOUS
<1> HIDE DEF u
<1>2. p \in Nat
  BY DEF Prefix
<1>3. AtFirst(M, u, x)
  BY <1>1, <1>2 DEF AtFirst
<1>4. QED
  BY <1>1, <1>3 DEF Decoded, u

LEMMA FewLiteralsDecodes ==
    ASSUME NEW M, Decodes(M), FewLiterals
    PROVE  Decoded(M, unpacker', dst')
<1>1. AtFew(M, unpacker, dst)
  BY DEF Decodes, Decoded, AtStart, AtRun, AtFirst, AtMatch, AtEnd, FewLiterals, Running
<1> DEFINE ip == unpacker.ip
           t == unpacker.t
           d == ip + t
<1>2. ip \in Nat /\ t \in 1..3
  BY <1>1 DEF AtFew, Decodes, Decoded
<1>3. PICK p \in Nat : /\ Prefix(dst, p) /\ Literals(out, source, ip, p, t)
                       /\ Follows(out, source, M, ip + t, p + t, t)
  BY <1>1 DEF AtFew
<1>4. dst' = CopyLiterals(ip, t) /\ unpacker' = [pc |-> "match", ip |-> d + 1, t |-> In(d)]
  BY DEF FewLiterals
<1>5. d \in Nat /\ t \in Nat /\ Follows(out, source, M, d, p + t, t)
  BY <1>2, <1>3
<1>6. source \in Seq(Bytes) /\ out \in Seq(Bytes) /\ M \subseteq Nat \X Nat
  BY DEF Decodes
<1> HIDE DEF ip, t, d
<1>7. Prefix(CopyLiterals(ip, t), p + t)
  BY <1>2, <1>3, <1>5, <1>6, LiteralsCopied
<1> DEFINE q == p + t
           x == dst'
<1>8. Prefix(x, q) /\ Follows(out, source, M, d, q, t)
  BY <1>4, <1>5, <1>7
<1> HIDE DEF q, x
<1>9. Decoded(M, unpacker', x)
  BY <1>2, <1>4, <1>5, <1>6, <1>8, ToMatch
<1>10. QED
  BY <1>9 DEF x

LEMMA AfterRunDecodes ==
    ASSUME NEW M, Decodes(M), AfterRun
    PROVE  Decoded(M, unpacker', dst')
<1>1. AtFirst(M, unpacker, dst)
  BY DEF Decodes, Decoded, AtStart, AtRun, AtFew, AtMatch, AtEnd, AfterRun, Running
<1> DEFINE d == unpacker.ip
<1>2. d \in Nat /\ source \in Seq(Bytes) /\ out \in Seq(Bytes) /\ M \subseteq Nat \X Nat
  BY DEF Decodes, Decoded
<1>3. PICK p \in Nat, t \in Nat : t > 3 /\ Prefix(dst, p) /\ Follows(out, source, M, d, p, t)
  BY <1>1 DEF AtFirst
<1>4. IF In(d) >= 16
      THEN unpacker' = [pc |-> "match", ip |-> d + 1, t |-> In(d)] /\ dst' = dst
      ELSE /\ dst' = CopyMatch(1 + M2MaxOffset + In(d) \div 4 + In(d + 1) * 4, 3)
           /\ AfterMatch(d + 2)
  BY DEF AfterRun
<1> HIDE DEF d
<1>5. out[d + 1] \in Bytes /\ In(d) = out[d + 1] /\ In(d + 1) = out[d + 2]
  BY <1>2, <1>3, Instruction
<1>6. CASE In(d) >= 16
  <2>1. ~(out[d + 1] < 16)
    <3>1. \A x \in Bytes : x >= 16 => ~(x < 16)
      BY DEF Bytes
    <3>2. QED
      BY <1>5, <1>6, <3>1
  <2>2. unpacker' = [pc |-> "match", ip |-> d + 1, t |-> In(d)] /\ dst' = dst
    BY <1>4, <1>6
  <2>3. Decoded(M, unpacker', dst)
    BY <1>2, <1>3, <2>1, <2>2, ToMatch
  <2>4. QED
    BY <2>2, <2>3
<1>7. CASE ~(In(d) >= 16)
  <2>1. out[d + 1] < 16
    <3>1. \A x \in Bytes : x >= 16 \/ x < 16
      BY DEF Bytes
    <3>2. QED
      BY <1>5, <1>7, <3>1
  <2>2. GoesOn(out, source, M, d, p, t)
    BY <1>3, <2>1 DEF Follows, Ends
  <2>3. PICK m \in M, len \in Nat \ {0}, off \in Nat \ {0} :
           Instructs(out, d, t, len, off, m[1]) /\ Repeats(source, p, len, off) /\ m[2] = p + len
    BY <2>2 DEF GoesOn
  <2>4. m[1] = d + 2 /\ len = 3 /\ off = 2049 + (out[d + 1] \div 4) + out[m[1]] * 4
    <3> DEFINE b == m[1]
    <3>1. Instructs(out, d, t, len, off, b)
      BY <2>3
    <3> HIDE DEF b
    <3>2. t \notin 1..3 /\ out[d + 1] \in Bytes /\ out[d + 1] < 16
      BY <1>3, <1>5, <2>1
    <3>3. b = d + 2 /\ len = 3 /\ off = 2049 + (out[d + 1] \div 4) + out[b] * 4
      BY <3>1, <3>2, AfterRunRead
    <3>4. QED
      BY <3>3 DEF b
  <2> DEFINE off2 == 1 + M2MaxOffset + In(d) \div 4 + In(d + 1) * 4
             len2 == 3
             b == d + 2
  <2>5. off2 = off /\ len2 = len /\ b = m[1]
    BY <1>5, <2>4 DEF M2MaxOffset
  <2>6. dst' = CopyMatch(off2, len2) /\ AfterMatch(b)
    BY <1>4, <1>7
  <2>7. Prefix(dst, p)
    BY <1>3
  <2> HIDE DEF off2, len2, b
  <2>8. QED
    BY <1>2, <2>3, <2>5, <2>6, <2>7, MatchDecodes
<1>8. QED
  BY <1>6, <1>7

LEMMA RunDecodes ==
    ASSUME NEW M, Decodes(M), Run
    PROVE  Decoded(M, unpacker', dst')
<1>1. AtRun(M, unpacker, dst)
  BY DEF Decodes, Decoded, AtStart, AtFew, AtFirst, AtMatch, AtEnd, Run, Running
<1> DEFINE a == unpacker.ip
<1>2. a \in Nat /\ source \in Seq(Bytes) /\ out \in Seq(Bytes) /\ M \subseteq Nat \X Nat
  BY DEF Decodes, Decoded
<1>3. PICK m \in M : /\ m[1] = a /\ Prefix(dst, m[2])
                     /\ a >= 2 => out[a - 1] % 4 = 0
                     /\ a = 0 => out[1] <= 17
  BY <1>1 DEF AtRun
<1>4. IF In(a) >= 16
      THEN unpacker' = [pc |-> "match", ip |-> a + 1, t |-> In(a)] /\ dst' = dst
      ELSE \E run \in {LengthOf(In(a), 15, a + 1)} :
              /\ dst' = CopyLiterals(run.ip, run.t + 3)
              /\ unpacker' = [pc |-> "first", ip |-> run.ip + run.t + 3, t |-> 0]
  BY DEF Run
<1> HIDE DEF a
<1> DEFINE p == m[2]
<1>5. p \in Nat /\ Prefix(dst, p)
  BY <1>2, <1>3
<1>6. PICK t \in Nat, at \in Nat : /\ Announced(out, a, t, at)
                                   /\ Literals(out, source, at, p, t)
                                   /\ Follows(out, source, M, at + t, p + t, t)
  BY <1>3 DEF Decodes, Tells, Reads
<1> HIDE DEF p
<1>7. CASE t = 0 /\ at = a
  <2>1. Follows(out, source, M, a, p, 0)
    <3>1. at + t = a /\ p + t = p
      BY <1>2, <1>5, <1>7
    <3>2. QED
      BY <1>6, <1>7, <3>1
  <2>2. out[a + 1] \in Bytes /\ In(a) = out[a + 1]
    BY <1>2, <2>1, Instruction
  <2>3. out[a + 1] >= 16
    <3>1. CASE Ends(out, a) /\ p = Len(source)
      BY <3>1 DEF Ends
    <3>2. CASE GoesOn(out, source, M, a, p, 0)
      BY <2>2, <3>2, NoneRead DEF GoesOn
    <3>3. QED
      BY <2>1, <3>1, <3>2 DEF Follows
  <2>4. ~(out[a + 1] < 16)
    <3>1. \A x \in Bytes : x >= 16 => ~(x < 16)
      BY DEF Bytes
    <3>2. QED
      BY <2>2, <2>3, <3>1
  <2>5. unpacker' = [pc |-> "match", ip |-> a + 1, t |-> In(a)] /\ dst' = dst
    BY <1>4, <2>2, <2>3
  <2>6. Decoded(M, unpacker', dst)
    BY <1>2, <1>5, <2>1, <2>4, <2>5, ToMatch
  <2>7. QED
    BY <2>5, <2>6
<1>8. CASE /\ a + 1 <= Len(out) /\ out[a + 1] < 16
           /\ \E n \in Nat \ {0} : Counted(out, a + 1, 15, n, at) /\ t = n + 3
  <2>1. PICK n \in Nat \ {0} : Counted(out, a + 1, 15, n, at) /\ t = n + 3
    BY <1>8
  <2>2. In(a) = out[a + 1]
    BY <1>2, <1>8, InIs
  <2>3. ~(In(a) >= 16)
    <3>1. out[a + 1] \in Bytes
      <4> DEFINE i == a + 1
      <4>1. i \in Nat /\ 1 <= i /\ i <= Len(out)
        BY <1>2, <1>8
      <4> HIDE DEF i
      <4>2. out[i] \in Bytes
        BY <1>2, <4>1, ByteOf
      <4>3. QED
        BY <4>2 DEF i
    <3>2. \A x \in Bytes : x < 16 => ~(x >= 16)
      BY DEF Bytes
    <3>3. QED
      BY <1>8, <2>2, <3>1, <3>2
  <2>4. LengthOf(In(a), 15, a + 1) = [t |-> n, ip |-> at]
    <3> DEFINE d == a + 1
               x == In(a)
    <3>1. d \in Nat /\ 1 <= d /\ Counted(out, d, 15, n, at) /\ x = out[d] /\ 15 \in Nat
      BY <1>2, <2>1, <2>2
    <3> HIDE DEF d, x
    <3>2. LengthOf(x, 15, d) = [t |-> n, ip |-> at]
      BY <1>2, <3>1, CountRead
    <3>3. QED
      BY <3>2 DEF d, x
  <2>5. dst' = CopyLiterals(at, n + 3) /\ unpacker' = [pc |-> "first", ip |-> at + n + 3, t |-> 0]
    BY <1>4, <2>3, <2>4
  <2>6. dst' = CopyLiterals(at, t) /\ unpacker' = [pc |-> "first", ip |-> at + t, t |-> 0]
    <3>1. at + n + 3 = at + t
      BY <2>1
    <3>2. QED
      BY <2>1, <2>5, <3>1
  <2>7. Prefix(CopyLiterals(at, t), p + t)
    BY <1>2, <1>5, <1>6, LiteralsCopied
  <2>8. t > 3 /\ at + t \in Nat
    BY <2>1
  <2> DEFINE x == dst'
             q == p + t
             d == at + t
  <2>9. /\ Prefix(x, q) /\ Follows(out, source, M, d, q, t)
        /\ unpacker' = [pc |-> "first", ip |-> d, t |-> 0] /\ d \in Nat
    BY <1>6, <2>6, <2>7, <2>8
  <2> HIDE DEF x, q, d
  <2>10. Decoded(M, unpacker', x)
    BY <2>8, <2>9, ToFirst
  <2>11. QED
    BY <2>10 DEF x
<1>9. QED
  <2>1. CASE a >= 2 /\ t \in 0..3 /\ out[a - 1] % 4 = t /\ at = a
    BY <1>3, <1>7, <2>1
  <2>2. CASE a = 0 /\ 1 <= Len(out) /\ out[1] <= 17 /\ t = 0 /\ at = 0
    BY <1>7, <2>2
  <2>3. CASE a = 0 /\ 1 <= Len(out) /\ t \in 1..238 /\ out[1] = 17 + t /\ at = 1
    <3>1. out[1] <= 17
      BY <1>3, <2>3
    <3>2. QED
      BY <2>3, <3>1
  <2>4. QED
    BY <1>6, <1>8, <2>1, <2>2, <2>3 DEF Announced

LEMMA StartDecodes ==
    ASSUME NEW M, Decodes(M), Start
    PROVE  Decoded(M, unpacker', dst')
<1>1. AtStart(unpacker, dst)
  BY DEF Decodes, Decoded, AtRun, AtFew, AtFirst, AtMatch, AtEnd, Start, Running
<1>2. source \in Seq(Bytes) /\ out \in Seq(Bytes) /\ M \subseteq Nat \X Nat
      /\ unpacker = [pc |-> unpacker.pc, ip |-> unpacker.ip, t |-> unpacker.t]
  BY DEF Decodes, Decoded
<1>3. unpacker.ip = 0 /\ Prefix(dst, 0)
  BY <1>1 DEF AtStart
<1>4. <<0, 0>> \in M /\ Reads(out, source, M, <<0, 0>>)
  BY DEF Decodes, Tells
<1>5. PICK t \in Nat, at \in Nat : /\ Announced(out, 0, t, at)
                                   /\ Literals(out, source, at, 0, t)
                                   /\ Follows(out, source, M, at + t, 0 + t, t)
  <2>1. <<0, 0>>[1] = 0 /\ <<0, 0>>[2] = 0
    OBVIOUS
  <2>2. QED
    BY <1>4, <2>1 DEF Reads
<1>6. 1 <= Len(out) /\ (out[1] <= 17 \/ (t \in 1..238 /\ out[1] = 17 + t /\ at = 1))
  <2>1. ~(0 >= 2) /\ 0 + 1 = 1
    OBVIOUS
  <2>2. 1 <= Len(out)
    BY <1>5, <2>1 DEF Announced
  <2>3. out[1] < 16 \/ out[1] <= 17 \/ (t \in 1..238 /\ out[1] = 17 + t /\ at = 1)
    BY <1>5, <2>1 DEF Announced
  <2>4. out[1] \in Nat
    BY <1>2, <2>2, ByteOf
  <2>5. out[1] < 16 => out[1] <= 17
    BY <2>4
  <2>6. QED
    BY <2>2, <2>3, <2>5
<1>7. In(0) = out[1] /\ out[1] \in Nat
  <2>1. In(0) = out[0 + 1]
    <3>1. 0 \in Nat /\ 0 + 1 <= Len(out)
      BY <1>6
    <3>2. QED
      BY <1>2, <3>1, InIs
  <2>2. out[1] \in Nat
    BY <1>2, <1>6, ByteOf
  <2>3. QED
    BY <2>1, <2>2
<1>8. CASE out[1] <= 17
  <2>1. unpacker' = [unpacker EXCEPT !.pc = "run"] /\ dst' = dst
    BY <1>7, <1>8 DEF Start
  <2> DEFINE u == unpacker'
  <2>2. u = [pc |-> "run", ip |-> 0, t |-> unpacker.t]
    BY <1>2, <1>3, <2>1
  <2> HIDE DEF u
  <2>3. u = [pc |-> u.pc, ip |-> u.ip, t |-> u.t] /\ u.ip \in Nat /\ u.ip = 0 /\ u.pc = "run"
    BY <2>2
  <2>4. AtRun(M, u, dst)
    <3> DEFINE m == <<0, 0>>
    <3>1. m[1] = 0 /\ m[2] = 0 /\ m \in M
      BY <1>4
    <3> HIDE DEF m
    <3>2. QED
      BY <1>3, <1>8, <2>3, <3>1 DEF AtRun
  <2>5. QED
    BY <2>1, <2>3, <2>4 DEF Decoded, u
<1>9. CASE ~(out[1] <= 17)
  <2>1. t \in 1..238 /\ out[1] = 17 + t /\ at = 1
    BY <1>6, <1>9
  <2>2. In(0) - 17 = t
    BY <1>7, <2>1
  <2>3. ~(t <= 0) /\ 0 + t = t
    BY <2>1
  <2>4. Literals(out, source, 1, 0, t) /\ Follows(out, source, M, 1 + t, t, t)
    BY <1>5, <2>1, <2>3
  <2>5. CASE t < 4
    <3>1. unpacker' = [pc |-> "few", ip |-> 1, t |-> t] /\ dst' = dst
      BY <2>2, <2>3, <2>5 DEF Start
    <3> DEFINE u == unpacker'
    <3>2. /\ u = [pc |-> u.pc, ip |-> u.ip, t |-> u.t] /\ u.ip \in Nat
          /\ u.ip = 1 /\ u.pc = "few" /\ u.t = t
      BY <3>1
    <3> HIDE DEF u
    <3>3. t \in 1..3
      BY <2>1, <2>5
    <3>4. AtFew(M, u, dst)
      <4>1. /\ Prefix(dst, 0) /\ Literals(out, source, u.ip, 0, u.t)
            /\ Follows(out, source, M, u.ip + u.t, 0 + u.t, u.t)
        BY <1>3, <2>3, <2>4, <3>2
      <4>2. QED
        BY <3>2, <3>3, <4>1 DEF AtFew
    <3>5. QED
      BY <3>1, <3>2, <3>4 DEF Decoded, u
  <2>6. CASE ~(t < 4)
    <3>1. dst' = CopyLiterals(1, t) /\ unpacker' = [pc |-> "first", ip |-> 1 + t, t |-> 0]
      BY <2>2, <2>3, <2>6 DEF Start
    <3>2. Prefix(CopyLiterals(1, t), 0 + t)
      BY <1>2, <1>3, <2>4, LiteralsCopied
    <3> DEFINE x == dst'
               d == 1 + t
    <3>3. /\ Prefix(x, t) /\ d \in Nat /\ t > 3 /\ Follows(out, source, M, d, t, t)
          /\ unpacker' = [pc |-> "first", ip |-> d, t |-> 0]
      BY <2>3, <2>4, <2>6, <3>1, <3>2
    <3> HIDE DEF x, d
    <3>4. Decoded(M, unpacker', x)
      BY <3>3, ToFirst
    <3>5. QED
      BY <3>4 DEF x
  <2>7. QED
    BY <2>5, <2>6
<1>10. QED
  BY <1>8, <1>9

-----------------------------------------------------------------------------
(* What a stream that tells its source has for the next step: the bytes    *)
(* the step reads and three more, what a match copies, and no more in all  *)
(* than the source.  A decompressor that tests for these finds them.       *)
LEMMA More ==
    ASSUME out \in Seq(Bytes), NEW M, M \subseteq Nat \X Nat, Tells(out, source, M),
           NEW d \in Nat, NEW q, NEW t, Follows(out, source, M, d, q, t)
    PROVE  d + 3 <= Len(out)
<1>1. CASE Ends(out, d)
  BY <1>1 DEF Ends
<1>2. CASE GoesOn(out, source, M, d, q, t)
  <2>1. PICK m \in M : \E len, off \in Nat \ {0} : Instructs(out, d, t, len, off, m[1])
    BY <1>2 DEF GoesOn
  <2> DEFINE b == m[1]
             p == m[2]
  <2>2. b \in Nat /\ d + 2 <= b
    BY <2>1 DEF Instructs
  <2>3. PICK t2 \in Nat, at \in Nat : /\ Announced(out, b, t2, at)
                                      /\ Follows(out, source, M, at + t2, p + t2, t2)
    BY DEF Tells, Reads
  <2> HIDE DEF b, p
  <2>4. at >= b
    <3>1. CASE at = b
      BY <2>2, <3>1
    <3>2. CASE \E n \in Nat \ {0} : Counted(out, b + 1, 15, n, at)
      <4>1. at = b + 1 \/ b + 1 < at
        BY <3>2 DEF Counted, AddedUp
      <4>2. QED
        BY <2>2, <4>1
    <3>3. b >= 2 /\ b # 0
      BY <2>2
    <3>4. QED
      BY <2>3, <3>1, <3>2, <3>3 DEF Announced
  <2> DEFINE e == at + t2
             r == p + t2
  <2>5. e \in Nat /\ e >= b /\ Follows(out, source, M, e, r, t2)
    BY <2>2, <2>3, <2>4
  <2> HIDE DEF e, r
  <2>6. e + 2 <= Len(out)
    BY <2>5, Instruction
  <2>7. Len(out) \in Nat
    BY LenProperties
  <2>8. QED
    BY <2>2, <2>5, <2>6, <2>7
<1>3. QED
  BY <1>1, <1>2 DEF Follows

LEMMA CopyFits ==
    ASSUME NEW q, Prefix(dst, q), NEW len \in Nat, NEW off \in Nat, Repeats(source, q, len, off)
    PROVE  off <= Len(dst) /\ Len(dst) + len <= Len(source)
  BY DEF Prefix, Repeats

(* The zero bytes of a long number come to an end.                         *)
LEMMA CountEnds ==
    ASSUME out \in Seq(Bytes), NEW d \in Nat, NEW mask, NEW n, NEW at, Counted(out, d, mask, n, at),
           out[d] % (mask + 1) = 0
    PROVE  \E j \in d + 1 .. Len(out) : out[j] # 0
<1>1. at \in Nat /\ d < at /\ at <= Len(out) /\ out[at] # 0
  BY DEF Counted, AddedUp
<1>2. at \in d + 1 .. Len(out)
  BY <1>1, LenProperties
<1>3. QED
  BY <1>1, <1>2

LEMMA StartHas ==
    ASSUME NEW M, Decodes(M), unpacker.pc = "start", NEW t, t = In(0) - 17
    PROVE  /\ 1 <= Len(out) /\ t \in Int
           /\ t > 0 => 1 + t + 3 <= Len(out) /\ Len(dst) + t <= Len(source)
<1>1. AtStart(unpacker, dst)
  BY DEF Decodes, Decoded, AtRun, AtFew, AtFirst, AtMatch, AtEnd
<1>2. source \in Seq(Bytes) /\ out \in Seq(Bytes) /\ M \subseteq Nat \X Nat
      /\ Tells(out, source, M) /\ Len(dst) = 0
  BY <1>1 DEF Decodes, AtStart, Prefix
<1>3. PICK k \in Nat, at \in Nat : /\ Announced(out, 0, k, at)
                                   /\ Literals(out, source, at, 0, k)
                                   /\ Follows(out, source, M, at + k, 0 + k, k)
  <2>1. <<0, 0>>[1] = 0 /\ <<0, 0>>[2] = 0 /\ Reads(out, source, M, <<0, 0>>)
    BY <1>2 DEF Tells
  <2>2. QED
    BY <2>1 DEF Reads
<1>4. 1 <= Len(out) /\ (out[1] <= 17 \/ (k \in 1..238 /\ out[1] = 17 + k /\ at = 1))
  <2>1. ~(0 >= 2) /\ 0 + 1 = 1
    OBVIOUS
  <2>2. 1 <= Len(out)
    BY <1>3, <2>1 DEF Announced
  <2>3. out[1] < 16 \/ out[1] <= 17 \/ (k \in 1..238 /\ out[1] = 17 + k /\ at = 1)
    BY <1>3, <2>1 DEF Announced
  <2>4. out[1] \in Nat
    BY <1>2, <2>2, ByteOf
  <2>5. out[1] < 16 => out[1] <= 17
    BY <2>4
  <2>6. QED
    BY <2>2, <2>3, <2>5
<1>5. In(0) = out[1] /\ out[1] \in Nat
  <2>1. In(0) = out[0 + 1]
    <3>1. 0 \in Nat /\ 0 + 1 <= Len(out)
      BY <1>4
    <3>2. QED
      BY <1>2, <3>1, InIs
  <2>2. out[1] \in Nat
    BY <1>2, <1>4, ByteOf
  <2>3. QED
    BY <2>1, <2>2
<1>6. ASSUME t > 0 PROVE 1 + t + 3 <= Len(out) /\ Len(dst) + t <= Len(source)
  <2>1. t = k /\ at = 1
    BY <1>4, <1>5, <1>6
  <2> DEFINE d == at + k
             q == 0 + k
  <2>2. d \in Nat /\ Follows(out, source, M, d, q, k)
    BY <1>3
  <2> HIDE DEF d, q
  <2>3. d + 3 <= Len(out)
    BY <1>2, <2>2, More
  <2>4. 0 + k <= Len(source)
    BY <1>3 DEF Literals
  <2>5. QED
    BY <1>2, <2>1, <2>3, <2>4 DEF d
<1>7. QED
  BY <1>4, <1>5, <1>6

LEMMA FewHas ==
    ASSUME NEW M, Decodes(M), unpacker.pc = "few"
    PROVE  unpacker.ip + unpacker.t + 3 <= Len(out) /\ Len(dst) + unpacker.t <= Len(source)
<1>1. AtFew(M, unpacker, dst) /\ unpacker.ip \in Nat
  BY DEF Decodes, Decoded, AtStart, AtRun, AtFirst, AtMatch, AtEnd
<1> DEFINE ip == unpacker.ip
           t == unpacker.t
           d == ip + t
<1>2. PICK p \in Nat : /\ Prefix(dst, p) /\ Literals(out, source, ip, p, t)
                       /\ Follows(out, source, M, ip + t, p + t, t)
  BY <1>1 DEF AtFew
<1>3. ip \in Nat /\ t \in 1..3 /\ d \in Nat
  BY <1>1 DEF AtFew
<1> DEFINE q == p + t
<1>4. Follows(out, source, M, d, q, t)
  BY <1>2
<1> HIDE DEF ip, t, d, q
<1>5. d + 3 <= Len(out)
  BY <1>3, <1>4, More DEF Decodes
<1>6. Len(dst) = p /\ p + t <= Len(source)
  BY <1>2 DEF Prefix, Literals
<1>7. QED
  BY <1>5, <1>6 DEF d, ip, t

LEMMA AfterRunHas ==
    ASSUME NEW M, Decodes(M), unpacker.pc = "first",
           NEW off, off = 1 + M2MaxOffset + In(unpacker.ip) \div 4 + In(unpacker.ip + 1) * 4
    PROVE  In(unpacker.ip) < 16 => off <= Len(dst) /\ Len(dst) + 3 <= Len(source)
<1>1. AtFirst(M, unpacker, dst)
  BY DEF Decodes, Decoded, AtStart, AtRun, AtFew, AtMatch, AtEnd
<1> DEFINE d == unpacker.ip
<1>2. d \in Nat /\ out \in Seq(Bytes) /\ M \subseteq Nat \X Nat
  BY DEF Decodes, Decoded
<1>3. PICK p \in Nat, t \in Nat : t > 3 /\ Prefix(dst, p) /\ Follows(out, source, M, d, p, t)
  BY <1>1 DEF AtFirst
<1>4. off = 1 + M2MaxOffset + In(d) \div 4 + In(d + 1) * 4
  OBVIOUS
<1> SUFFICES ASSUME In(d) < 16 PROVE off <= Len(dst) /\ Len(dst) + 3 <= Len(source)
  OBVIOUS
<1> HIDE DEF d
<1>5. out[d + 1] \in Bytes /\ In(d) = out[d + 1] /\ In(d + 1) = out[d + 2]
  BY <1>2, <1>3, Instruction
<1>6. out[d + 1] < 16
  BY <1>5
<1>7. GoesOn(out, source, M, d, p, t)
  BY <1>3, <1>6 DEF Follows, Ends
<1>8. PICK m \in M, len \in Nat \ {0}, off2 \in Nat \ {0} :
         Instructs(out, d, t, len, off2, m[1]) /\ Repeats(source, p, len, off2)
  BY <1>7 DEF GoesOn
<1>9. len = 3 /\ off2 = off
  <2> DEFINE b == m[1]
  <2>1. Instructs(out, d, t, len, off2, b)
    BY <1>8
  <2> HIDE DEF b
  <2>2. t \notin 1..3
    BY <1>3
  <2>3. b = d + 2 /\ len = 3 /\ off2 = 2049 + (out[d + 1] \div 4) + out[b] * 4
    BY <1>5, <1>6, <2>1, <2>2, AfterRunRead
  <2>4. QED
    BY <1>4, <1>5, <2>3 DEF M2MaxOffset
<1>10. off2 <= Len(dst) /\ Len(dst) + len <= Len(source)
  BY <1>3, <1>8, CopyFits
<1>11. QED
  BY <1>9, <1>10

LEMMA NearHas ==
    ASSUME NEW M, Decodes(M), unpacker.pc = "match", unpacker.t >= 64,
           NEW off, off = 1 + ((unpacker.t \div 4) % 8) + In(unpacker.ip) * 8
    PROVE  off <= Len(dst) /\ Len(dst) + (unpacker.t \div 32 + 1) <= Len(source)
<1>1. PICK p \in Nat, t \in Nat, d \in Nat :
         /\ unpacker.ip = d + 1 /\ unpacker.t = out[d + 1]
         /\ Prefix(dst, p) /\ Follows(out, source, M, d, p, t)
         /\ out[d + 1] \in Bytes /\ In(d + 1) = out[d + 2]
  BY AtMatchFacts
<1>2. GoesOn(out, source, M, d, p, t)
  BY <1>1 DEF Follows, Ends
<1>3. PICK m \in M, len \in Nat \ {0}, off2 \in Nat \ {0} :
         Instructs(out, d, t, len, off2, m[1]) /\ Repeats(source, p, len, off2)
  BY <1>2 DEF GoesOn
<1>4. /\ m[1] = d + 2 /\ len = out[d + 1] \div 32 + 1
      /\ off2 = 1 + ((out[d + 1] \div 4) % 8) + out[m[1]] * 8
  BY <1>1, <1>3, NearRead
<1>5. off2 <= Len(dst) /\ Len(dst) + len <= Len(source)
  BY <1>1, <1>3, CopyFits
<1>6. QED
  BY <1>1, <1>4, <1>5

LEMMA ShortHas ==
    ASSUME NEW M, Decodes(M), unpacker.pc = "match", unpacker.t < 16,
           NEW off, off = 1 + unpacker.t \div 4 + In(unpacker.ip) * 4
    PROVE  off <= Len(dst) /\ Len(dst) + 2 <= Len(source)
<1>1. PICK p \in Nat, t \in Nat, d \in Nat :
         /\ unpacker.ip = d + 1 /\ unpacker.t = out[d + 1] /\ (unpacker.t < 16 => t \in 1..3)
         /\ Prefix(dst, p) /\ Follows(out, source, M, d, p, t)
         /\ out[d + 1] \in Bytes /\ In(d + 1) = out[d + 2]
  BY AtMatchFacts
<1>2. out[d + 1] < 16 /\ t \in 1..3
  BY <1>1
<1>3. GoesOn(out, source, M, d, p, t)
  BY <1>1, <1>2 DEF Follows, Ends
<1>4. PICK m \in M, len \in Nat \ {0}, off2 \in Nat \ {0} :
         Instructs(out, d, t, len, off2, m[1]) /\ Repeats(source, p, len, off2)
  BY <1>3 DEF GoesOn
<1>5. m[1] = d + 2 /\ len = 2 /\ off2 = 1 + (out[d + 1] \div 4) + out[m[1]] * 4
  <2> DEFINE b == m[1]
  <2>1. Instructs(out, d, t, len, off2, b)
    BY <1>4
  <2> HIDE DEF b
  <2>2. b = d + 2 /\ len = 2 /\ off2 = 1 + (out[d + 1] \div 4) + out[b] * 4
    BY <1>1, <1>2, <2>1, ShortRead
  <2>3. QED
    BY <2>2 DEF b
<1>6. off2 <= Len(dst) /\ Len(dst) + len <= Len(source)
  BY <1>1, <1>4, CopyFits
<1>7. QED
  BY <1>1, <1>5, <1>6

LEMMA MiddleHas ==
    ASSUME NEW M, Decodes(M), unpacker.pc = "match", unpacker.t \in 32..63,
           NEW r, r = LengthOf(unpacker.t, 31, unpacker.ip)
    PROVE  /\ unpacker.t % 32 = 0 => \E j \in unpacker.ip + 1 .. Len(out) : out[j] # 0
           /\ r.t \in Nat /\ r.ip \in Nat /\ r.ip + 2 <= Len(out)
           /\ 1 + OffsetAt(r.ip) <= Len(dst) /\ Len(dst) + (r.t + 2) <= Len(source)
<1>a. PICK p \in Nat, t \in Nat, d \in Nat, m \in M, n \in Nat \ {0}, off \in Nat \ {0} :
         MiddleTaken(p, t, d, m, n, off)
  BY MiddleInstruction
<1>1. /\ unpacker.ip = d + 1 /\ unpacker.t = out[d + 1]
      /\ Prefix(dst, p) /\ Counted(out, d + 1, 31, n, m[1] - 2)
      /\ m[1] \in Nat /\ 2 <= m[1] /\ m[1] <= Len(out)
      /\ LengthOf(unpacker.t, 31, unpacker.ip) = [t |-> n, ip |-> m[1] - 2]
      /\ off = 1 + OffsetAt(m[1] - 2)
      /\ Repeats(source, p, n + 2, off)
  BY <1>a DEF MiddleTaken
<1> DEFINE b == m[1]
           len == n + 2
<1>2. /\ r.t = n /\ r.ip = b - 2 /\ b - 2 \in Nat /\ (b - 2) + 2 <= Len(out)
      /\ len \in Nat /\ Repeats(source, p, len, off)
  BY <1>1
<1>3. unpacker.t % 32 = 0 => \E j \in unpacker.ip + 1 .. Len(out) : out[j] # 0
  <2> DEFINE i == d + 1
             at == b - 2
  <2>1. out \in Seq(Bytes) /\ i \in Nat /\ Counted(out, i, 31, n, at)
        /\ unpacker.ip = i /\ unpacker.t = out[i] /\ 31 + 1 = 32
    BY <1>1 DEF Decodes
  <2> HIDE DEF i, at
  <2>2. out[i] % (31 + 1) = 0 => \E j \in i + 1 .. Len(out) : out[j] # 0
    BY <2>1, CountEnds
  <2>3. QED
    BY <2>1, <2>2
<1> HIDE DEF b, len
<1>4. off <= Len(dst) /\ Len(dst) + len <= Len(source)
  BY <1>1, <1>2, CopyFits
<1>5. QED
  BY <1>1, <1>2, <1>3, <1>4 DEF b, len

LEMMA FarHas ==
    ASSUME NEW M, Decodes(M), unpacker.pc = "match", unpacker.t \in 16..31,
           NEW r, r = LengthOf(unpacker.t, 7, unpacker.ip)
    PROVE  /\ unpacker.t % 8 = 0 => \E j \in unpacker.ip + 1 .. Len(out) : out[j] # 0
           /\ r.t \in Nat /\ r.ip \in Nat /\ r.ip + 2 <= Len(out) /\ LowFar \in Nat
           /\ LowFar = 0 => r.ip + 2 = Len(out)
           /\ LowFar # 0 => LowFar + 16384 <= Len(dst) /\ Len(dst) + (r.t + 2) <= Len(source)
<1>1. PICK p \in Nat, t \in Nat, d \in Nat :
         /\ unpacker.ip = d + 1 /\ unpacker.t = out[d + 1]
         /\ Prefix(dst, p) /\ Follows(out, source, M, d, p, t)
         /\ d + 2 <= Len(out) /\ out[d + 1] \in Bytes
  BY AtMatchFacts
<1>2. CASE Ends(out, d) /\ p = Len(source)
  <2>1. /\ LengthOf(unpacker.t, 7, unpacker.ip) = [t |-> 1, ip |-> d + 1]
        /\ LowFar = 0 /\ (d + 1) + 2 = Len(out)
    BY <1>1, <1>2, EndInstruction DEF Decodes
  <2>2. r.t = 1 /\ r.ip = d + 1
    BY <2>1
  <2>3. unpacker.t % 8 # 0
    BY <1>1, <1>2 DEF Ends
  <2>4. r.t \in Nat /\ r.ip \in Nat /\ r.ip + 2 = Len(out) /\ r.ip + 2 <= Len(out)
    BY <2>1, <2>2
  <2>5. QED
    BY <2>1, <2>3, <2>4
<1>3. CASE GoesOn(out, source, M, d, p, t)
  <2>a. PICK m \in M, n \in Nat \ {0}, far \in Nat \ {0} : FarTaken(p, t, d, m, n, far)
    BY <1>1, <1>3, FarInstruction
  <2>1. /\ Counted(out, d + 1, 7, n, m[1] - 2)
        /\ m[1] \in Nat /\ 2 <= m[1] /\ m[1] <= Len(out)
        /\ LengthOf(unpacker.t, 7, unpacker.ip) = [t |-> n, ip |-> m[1] - 2]
        /\ LowFar = far
        /\ Repeats(source, p, n + 2, far + 16384)
    BY <2>a DEF FarTaken
  <2> DEFINE b == m[1]
             len == n + 2
             off == far + 16384
  <2>2. /\ r.t = n /\ r.ip = b - 2 /\ b - 2 \in Nat /\ (b - 2) + 2 <= Len(out)
        /\ len \in Nat /\ off \in Nat /\ Repeats(source, p, len, off)
        /\ LowFar \in Nat /\ LowFar # 0 /\ LowFar + 16384 = off
    BY <2>1
  <2>3. unpacker.t % 8 = 0 => \E j \in unpacker.ip + 1 .. Len(out) : out[j] # 0
    <3> DEFINE i == d + 1
               at == b - 2
    <3>1. out \in Seq(Bytes) /\ i \in Nat /\ Counted(out, i, 7, n, at)
          /\ unpacker.ip = i /\ unpacker.t = out[i] /\ 7 + 1 = 8
      BY <1>1, <2>1 DEF Decodes
    <3> HIDE DEF i, at
    <3>2. out[i] % (7 + 1) = 0 => \E j \in i + 1 .. Len(out) : out[j] # 0
      BY <3>1, CountEnds
    <3>3. QED
      BY <3>1, <3>2
  <2> HIDE DEF b, len, off
  <2>4. off <= Len(dst) /\ Len(dst) + len <= Len(source)
    BY <1>1, <2>2, CopyFits
  <2>5. r.t \in Nat /\ r.ip \in Nat /\ r.ip + 2 <= Len(out)
    BY <2>2
  <2>6. Len(dst) + (r.t + 2) <= Len(source)
    BY <2>2, <2>4 DEF len
  <2>7. LowFar + 16384 <= Len(dst)
    BY <2>2, <2>4
  <2>8. QED
    BY <2>2, <2>3, <2>5, <2>6, <2>7
<1>4. QED
  BY <1>1, <1>2, <1>3 DEF Follows

LEMMA RunHas ==
    ASSUME NEW M, Decodes(M), unpacker.pc = "run",
           NEW r, r = LengthOf(In(unpacker.ip), 15, unpacker.ip + 1)
    PROVE  /\ unpacker.ip + 3 <= Len(out)
           /\ In(unpacker.ip) = 0 => \E j \in unpacker.ip + 2 .. Len(out) : out[j] # 0
           /\ In(unpacker.ip) < 16 =>
                 /\ r.t \in Nat /\ r.ip \in Nat /\ r.ip + (r.t + 6) <= Len(out)
                 /\ Len(dst) + (r.t + 3) <= Len(source)
<1>1. AtRun(M, unpacker, dst)
  BY DEF Decodes, Decoded, AtStart, AtFew, AtFirst, AtMatch, AtEnd
<1> DEFINE a == unpacker.ip
<1>2. a \in Nat /\ source \in Seq(Bytes) /\ out \in Seq(Bytes) /\ M \subseteq Nat \X Nat
      /\ Tells(out, source, M) /\ Len(out) \in Nat
  BY LenProperties DEF Decodes, Decoded
<1>3. PICK m \in M : /\ m[1] = a /\ Prefix(dst, m[2])
                     /\ a >= 2 => out[a - 1] % 4 = 0
                     /\ a = 0 => out[1] <= 17
  BY <1>1 DEF AtRun
<1>4. r = LengthOf(In(a), 15, a + 1)
  OBVIOUS
<1> SUFFICES /\ a + 3 <= Len(out)
             /\ In(a) = 0 => \E j \in a + 2 .. Len(out) : out[j] # 0
             /\ In(a) < 16 => /\ r.t \in Nat /\ r.ip \in Nat /\ r.ip + (r.t + 6) <= Len(out)
                              /\ Len(dst) + (r.t + 3) <= Len(source)
  OBVIOUS
<1> HIDE DEF a
<1> DEFINE p == m[2]
<1>5. p \in Nat /\ Prefix(dst, p) /\ Len(dst) = p
  BY <1>2, <1>3 DEF Prefix
<1>6. PICK t \in Nat, at \in Nat : /\ Announced(out, a, t, at)
                                   /\ Literals(out, source, at, p, t)
                                   /\ Follows(out, source, M, at + t, p + t, t)
  BY <1>3 DEF Decodes, Tells, Reads
<1> HIDE DEF p
<1>7. at + t + 3 <= Len(out) /\ p + t <= Len(source)
  <2> DEFINE d == at + t
             q == p + t
  <2>1. d \in Nat /\ Follows(out, source, M, d, q, t)
    BY <1>6
  <2> HIDE DEF d, q
  <2>2. d + 3 <= Len(out)
    BY <1>2, <2>1, More
  <2>3. QED
    BY <1>6, <2>2 DEF d, Literals
<1>8. CASE t = 0 /\ at = a
  <2>1. Follows(out, source, M, a, p, 0)
    <3>1. at + t = a /\ p + t = p
      BY <1>2, <1>5, <1>8
    <3>2. QED
      BY <1>6, <1>8, <3>1
  <2>2. out[a + 1] \in Bytes /\ In(a) = out[a + 1]
    BY <1>2, <2>1, Instruction
  <2>3. out[a + 1] >= 16
    <3>1. CASE Ends(out, a) /\ p = Len(source)
      BY <3>1 DEF Ends
    <3>2. CASE GoesOn(out, source, M, a, p, 0)
      BY <2>2, <3>2, NoneRead DEF GoesOn
    <3>3. QED
      BY <2>1, <3>1, <3>2 DEF Follows
  <2>4. ~(In(a) < 16) /\ In(a) # 0
    <3>1. \A x \in Bytes : x >= 16 => ~(x < 16) /\ x # 0
      BY DEF Bytes
    <3>2. QED
      BY <2>2, <2>3, <3>1
  <2>5. a + 3 <= Len(out)
    BY <1>2, <1>7, <1>8
  <2>6. QED
    BY <2>4, <2>5
<1>9. CASE /\ a + 1 <= Len(out) /\ out[a + 1] < 16
           /\ \E n \in Nat \ {0} : Counted(out, a + 1, 15, n, at) /\ t = n + 3
  <2>1. PICK n \in Nat \ {0} : Counted(out, a + 1, 15, n, at) /\ t = n + 3
    BY <1>9
  <2>2. In(a) = out[a + 1]
    BY <1>2, <1>9, InIs
  <2> DEFINE d == a + 1
             x == In(a)
  <2>3. d \in Nat /\ 1 <= d /\ Counted(out, d, 15, n, at) /\ x = out[d] /\ 15 \in Nat
        /\ a + 2 = d + 1 /\ a + 3 = d + 2 /\ r = LengthOf(x, 15, d)
    BY <1>2, <1>4, <2>1, <2>2
  <2> HIDE DEF d, x
  <2>4. LengthOf(x, 15, d) = [t |-> n, ip |-> at]
    BY <1>2, <2>3, CountRead
  <2>5. r.t = n /\ r.ip = at
    BY <2>3, <2>4
  <2>6. x = 0 => \E j \in d + 1 .. Len(out) : out[j] # 0
    <3>1. out[d] % (15 + 1) = 0 => \E j \in d + 1 .. Len(out) : out[j] # 0
      BY <1>2, <2>3, CountEnds
    <3>2. x = 0 => out[d] % (15 + 1) = 0
      BY <2>3
    <3>3. QED
      BY <3>1, <3>2
  <2>7. d <= at
    BY <2>3 DEF Counted, AddedUp
  <2>8. d + 2 <= Len(out)
    <3>1. t >= 4 /\ at + t + 3 <= Len(out) /\ d \in Nat
      BY <1>7, <2>1, <2>3
    <3>2. QED
      BY <1>2, <2>7, <3>1
  <2>a. r.t \in Nat /\ r.ip \in Nat
    BY <2>1, <2>5
  <2>b. r.ip + (r.t + 6) <= Len(out) /\ Len(dst) + (r.t + 3) <= Len(source)
    <3>1. t = r.t + 3 /\ at = r.ip
      BY <2>1, <2>5
    <3>2. r.ip + (r.t + 3) + 3 <= Len(out) /\ Len(dst) + (r.t + 3) <= Len(source)
      BY <1>5, <1>7, <3>1
    <3>3. QED
      BY <1>2, <2>a, <3>2
  <2>9. QED
    BY <2>3, <2>6, <2>8, <2>a, <2>b DEF x
<1>10. QED
  <2>1. CASE a >= 2 /\ t \in 0..3 /\ out[a - 1] % 4 = t /\ at = a
    BY <1>3, <1>8, <2>1
  <2>2. CASE a = 0 /\ 1 <= Len(out) /\ out[1] <= 17 /\ t = 0 /\ at = 0
    BY <1>8, <2>2
  <2>3. CASE a = 0 /\ 1 <= Len(out) /\ t \in 1..238 /\ out[1] = 17 + t /\ at = 1
    <3>1. out[1] <= 17
      BY <1>3, <2>3
    <3>2. QED
      BY <2>3, <3>1
  <2>4. QED
    BY <1>6, <1>9, <2>1, <2>2, <2>3 DEF Announced

-----------------------------------------------------------------------------
(* Every step.                                                             *)

(* What is out so far tells the source so far, and nothing is unpacked     *)
(* yet; later the stream tells the whole source, and the decompressor is   *)
(* at some place of it.                                                    *)
TripInv ==
    /\ PackInv
    /\ packer.pc # "done" =>
          dst = <<>> /\ unpacker = Unpacking /\ \E M : Begins(out, source, Packed, M)
    /\ packer.pc = "done" => \E M : Decodes(M)

ForeignStands == \A f \in Foreign : StandsFor(f.stream, f.source)

LEMMA AtTheStart ==
    ASSUME source \in Seq(Bytes), out \in Seq(Bytes), dst = <<>>, unpacker = Unpacking,
           NEW M, M \subseteq Nat \X Nat, Tells(out, source, M)
    PROVE  Decodes(M)
<1>1. Len(source) \in Nat
  BY LenProperties
<1>2. Prefix(dst, 0)
  <2>1. dst \in Seq(Bytes) /\ Len(dst) = 0
    OBVIOUS
  <2>2. QED
    BY <1>1, <2>1 DEF Prefix
<1>3. AtStart(unpacker, dst)
  BY <1>2 DEF AtStart, Unpacking
<1>4. unpacker = [pc |-> unpacker.pc, ip |-> unpacker.ip, t |-> unpacker.t] /\ unpacker.ip \in Nat
  BY DEF Unpacking
<1>5. QED
  BY <1>3, <1>4 DEF Decodes, Decoded

LEMMA InitTrips == ASSUME ForeignStands, LzoInit PROVE TripInv
<1>1. PackInv
  BY InitPacks
<1>2. ASSUME NEW s \in Sources, Packs(s) PROVE TripInv
  <2>1. packer.pc = "block" /\ packer.end = 0 /\ packer.ti = 0
    BY <1>2 DEF Packs, Packing
  <2>2. Packed = 0
    BY <2>1 DEF Packed
  <2>3. out = <<>> /\ Len(out) = 0 /\ dst = <<>> /\ unpacker = Unpacking
    BY <1>2 DEF Packs
  <2> DEFINE e == <<0, 0>>
             M == {e}
  <2>4. e \in Nat \X Nat /\ e = <<Len(out), 0>>
    BY <2>3
  <2>5. Begins(out, source, 0, M)
    <3> HIDE DEF e
    <3>1. M \subseteq Nat \X Nat /\ <<0, 0>> \in M /\ <<Len(out), 0>> \in M
      BY <2>4 DEF e
    <3>2. \A m \in M : m = <<Len(out), 0>>
      BY <2>4
    <3> HIDE DEF M
    <3>3. QED
      BY <3>1, <3>2 DEF Begins
  <2>6. packer.pc # "done"
    BY <2>1
  <2> HIDE DEF M
  <2>7. QED
    BY <1>1, <2>2, <2>3, <2>5, <2>6 DEF TripInv
<1>3. ASSUME NEW f \in Foreign, Unpacks(f) PROVE TripInv
  <2>1. packer.pc = "done" /\ source = f.source /\ out = f.stream /\ dst = <<>>
        /\ unpacker = Unpacking
    BY <1>3 DEF Unpacks, Packing
  <2>2. PICK M \in SUBSET (Nat \X Nat) : Tells(f.stream, f.source, M)
    BY <1>3 DEF ForeignStands, StandsFor
  <2>3. M \subseteq Nat \X Nat /\ Tells(out, source, M)
    BY <2>1, <2>2
  <2>4. Decodes(M)
    BY <1>1, <2>1, <2>3, AtTheStart DEF PackInv
  <2>5. QED
    BY <1>1, <2>1, <2>4 DEF TripInv
<1>4. QED
  BY <1>2, <1>3 DEF LzoInit

(* Steps that compress nothing yet.                                        *)
LEMMA NothingPacked ==
    ASSUME PackInv, BeginBlock \/ ProbeMisses \/ EndBlock
    PROVE  /\ packer.pc # "done" /\ packer'.pc # "done" /\ Packed' = Packed
           /\ UNCHANGED <<source, out, unpacker, dst>>
<1>1. PackerType
  BY DEF PackInv
<1>2. CASE BeginBlock
  <2>1. /\ packer.pc = "block" /\ packer'.pc = "probe" /\ packer'.ii = packer.end
        /\ packer'.ti = packer.ti /\ UNCHANGED <<source, out, unpacker, dst>>
    BY <1>1, <1>2 DEF BeginBlock, PackerType
  <2>2. QED
    BY <2>1 DEF Packed
<1>3. CASE ProbeMisses
  <2>1. /\ packer.pc = "probe" /\ packer'.pc = "probe" /\ packer'.ii = packer.ii
        /\ packer'.ti = packer.ti /\ UNCHANGED <<source, out, unpacker, dst>>
    BY <1>1, <1>3 DEF ProbeMisses, PackerType
  <2>2. QED
    BY <2>1 DEF Packed
<1>4. CASE EndBlock
  <2> DEFINE ti == packer.end - (packer.ii - packer.ti)
  <2>1. /\ packer.pc = "probe" /\ packer'.pc = "block" /\ packer'.end = packer.end
        /\ packer'.ti = ti /\ UNCHANGED <<source, out, unpacker, dst>>
    BY <1>1, <1>4 DEF EndBlock, PackerType
  <2>2. packer.end - ti = packer.ii - packer.ti
    BY <1>1 DEF PackerType
  <2> HIDE DEF ti
  <2>3. QED
    BY <2>1, <2>2 DEF Packed
<1>5. QED
  BY <1>2, <1>3, <1>4

LEMMA NothingPackedTrips ==
    ASSUME TripInv, BeginBlock \/ ProbeMisses \/ EndBlock
    PROVE  TripInv'
<1>1. PackInv'
  BY BeginBlockPacks, ProbeMissesPacks, EndBlockPacks DEF TripInv
<1>2. /\ packer.pc # "done" /\ packer'.pc # "done" /\ Packed' = Packed
      /\ source' = source /\ out' = out /\ unpacker' = unpacker /\ dst' = dst
  BY NothingPacked DEF TripInv
<1>3. PICK M : Begins(out, source, Packed, M)
  BY <1>2 DEF TripInv
<1>4. dst' = <<>> /\ unpacker' = Unpacking' /\ Begins(out', source', Packed', M)
  <2>1. Unpacking' = Unpacking
    BY DEF Unpacking
  <2>2. QED
    BY <1>2, <1>3, <2>1 DEF TripInv
<1>5. (\E N : Begins(out, source, Packed, N))'
  BY <1>4
<1>6. QED
  BY <1>1, <1>2, <1>4, <1>5 DEF TripInv

LEMMA ProbeMatchesTrips == ASSUME TripInv, ProbeMatches PROVE TripInv'
<1>0. PackInv /\ PackInv'
  BY ProbeMatchesPacks DEF TripInv
<1>1. PICK len \in Nat, off \in Offsets, t \in Nat :
         /\ packer.pc = "probe" /\ len >= 4 /\ off <= packer.ip
         /\ Packed \in Nat /\ packer.ip = Packed + t
         /\ out = <<>> => t >= 4
         /\ packer.ip + len <= packer.end
         /\ \A i \in 1..len : source[packer.ip + i] = source[packer.ip + i - off]
         /\ out' = LiteralRun(out, t) \o SourceBytes(Packed, t) \o Match(len, off)
         /\ packer' = [pc |-> "probe", block |-> packer.block, end |-> packer.end,
                       ip |-> packer.ip + len, ii |-> packer.ip + len, ti |-> 0,
                       dict |-> Entered(packer)]
         /\ UNCHANGED <<source, unpacker, dst>>
  BY <1>0, MatchTaken
<1>2. /\ source \in Seq(Bytes) /\ out \in Seq(Bytes) /\ out' \in Seq(Bytes)
      /\ packer.ip \in Nat /\ packer.end \in Nat /\ packer.end <= Len(source) /\ Len(source) \in Nat
  <2>1. source \in Seq(Bytes) /\ out \in Seq(Bytes) /\ out' \in Seq(Bytes)
    BY <1>0 DEF PackInv
  <2>2. packer.ip \in Nat /\ packer.end \in Nat /\ packer.end <= Len(source)
    BY <1>0, <1>1 DEF PackInv, PackerType, InBlock
  <2>3. QED
    BY <2>1, <2>2, LenProperties
<1>3. /\ dst = <<>> /\ unpacker = Unpacking
      /\ \E M : Begins(out, source, Packed, M)
      /\ out # <<>> => Len(out) >= 2 /\ out[Len(out) - 1] % 4 = 0
  BY <1>0, <1>1 DEF TripInv, PackInv, OfPacked
<1>4. Open(out, t)
  BY <1>1, <1>3 DEF Open
<1> DEFINE p == Packed
           run == LiteralRun(out, t)
           match == Match(len, off)
           size == MatchSize(len, off)
<1>5. PICK M : Begins(out, source, p, M)
  BY <1>3
<1>6. run \in Seq(Bytes)
  BY <1>2, <1>4, OpenRun, LiteralRunFacts
<1>7. match \in Seq(Bytes) /\ Len(match) = size
  BY <1>1, MatchBytes
<1>8. /\ p \in Nat /\ packer.ip = p + t /\ p + t <= Len(source) /\ (p + t) + len <= Len(source)
      /\ out' = run \o SourceBytes(p, t) \o match
  BY <1>1, <1>2
<1>9. Repeats(source, p + t, len, off)
  <2> DEFINE q == p + t
  <2>1. q = packer.ip /\ q + len <= Len(source)
    BY <1>8
  <2> HIDE DEF q, p
  <2>2. 1 <= off /\ off <= q
    BY <1>1, <2>1 DEF Offsets
  <2>3. \A i \in 1..len : source[q + i] = source[q + i - off]
    BY <1>1, <2>1
  <2>4. Repeats(source, q, len, off)
    BY <2>1, <2>2, <2>3 DEF Repeats
  <2>5. QED
    BY <2>4 DEF q
<1>10. Packed' = (p + t) + len
  <2>1. packer'.pc = "probe" /\ packer'.ii = packer.ip + len /\ packer'.ti = 0
    BY <1>1
  <2>2. packer.ip + len \in Nat
    BY <1>2
  <2>3. Packed' = packer.ip + len
    BY <2>1, <2>2 DEF Packed
  <2>4. QED
    BY <1>8, <2>3
<1>11. p + t + len = (p + t) + len
  OBVIOUS
<1> DEFINE o2 == out'
<1>12. o2 \in Seq(Bytes) /\ o2 = run \o SourceBytes(p, t) \o match
  BY <1>2, <1>8
<1> HIDE DEF p, run, match, size, o2
<1>13. /\ Len(o2) = Len(run) + t + size
       /\ \A i \in 1 .. Len(run) : o2[i] = run[i]
       /\ \A i \in 1..t : o2[Len(run) + i] = source[p + i]
       /\ \A i \in 1 .. size : o2[Len(run) + t + i] = match[i]
  <2>1. /\ source \in Seq(Bytes) /\ run \in Seq(Bytes) /\ match \in Seq(Bytes)
        /\ p \in Nat /\ t \in Nat /\ p + t <= Len(source)
    BY <1>2, <1>6, <1>7, <1>8
  <2>2. Len(run \o SourceBytes(p, t) \o match) = Len(run) + t + Len(match)
    BY <2>1, Emitted
  <2>3. \A i \in 1 .. Len(run) : (run \o SourceBytes(p, t) \o match)[i] = run[i]
    BY <2>1, EmittedRun
  <2>4. \A i \in 1..t : (run \o SourceBytes(p, t) \o match)[Len(run) + i] = source[p + i]
    BY <2>1, EmittedLiterals
  <2>5. \A i \in 1 .. Len(match) :
           (run \o SourceBytes(p, t) \o match)[Len(run) + t + i] = match[i]
    BY <2>1, EmittedRest
  <2>6. QED
    BY <1>7, <1>12, <2>2, <2>3, <2>4, <2>5
<1>15. Len(run) + t <= Len(o2)
  <2>1. Len(run) \in Nat
    BY <1>6, LenProperties
  <2>2. size \in Nat
    BY <1>7, LenProperties
  <2>3. QED
    BY <1>13, <2>1, <2>2
<1>16. RunBehind(out, o2, source, p, t)
  BY <1>13, <1>15 DEF RunBehind, run
<1>17. \E M2 : Begins(o2, source, p + t + len, M2)
  <2>1. /\ Len(o2) = Len(LiteralRun(out, t)) + t + MatchSize(len, off)
        /\ \A i \in 1 .. MatchSize(len, off) :
              o2[Len(LiteralRun(out, t)) + t + i] = Match(len, off)[i]
    BY <1>13 DEF run, size, match
  <2>2. len >= 4
    BY <1>1
  <2>3. QED
    BY <1>2, <1>4, <1>5, <1>8, <1>9, <1>12, <1>16, <2>1, <2>2, MatchContinues
<1>18. source' = source /\ unpacker' = Unpacking /\ dst' = <<>> /\ packer'.pc = "probe"
  BY <1>1, <1>3
<1>19. \E M2 : Begins(out', source', Packed', M2)
  BY <1>10, <1>11, <1>17, <1>18 DEF o2
<1>20. Unpacking' = Unpacking
  BY DEF Unpacking
<1>21. QED
  BY <1>0, <1>18, <1>19, <1>20 DEF TripInv

LEMMA EndStreamTrips == ASSUME TripInv, EndStream PROVE TripInv'
<1>0. PackInv /\ PackInv'
  BY EndStreamPacks DEF TripInv
<1>1. PICK t \in Nat :
         /\ packer.pc = "block" /\ Packed \in Nat /\ Packed + t = Len(source)
         /\ out' = (IF out = <<>> /\ t \in 1..238 THEN <<17 + t>> ELSE LiteralRun(out, t))
                   \o SourceBytes(Packed, t) \o <<17, 0, 0>>
         /\ packer' = [pc |-> "done", block |-> packer.block, end |-> packer.end,
                       ip |-> packer.ip, ii |-> packer.ii, ti |-> packer.ti,
                       dict |-> packer.dict]
         /\ UNCHANGED <<source, unpacker, dst>>
  BY <1>0, StreamEnded
<1>2. /\ source \in Seq(Bytes) /\ out \in Seq(Bytes) /\ out' \in Seq(Bytes)
      /\ Len(source) \in Nat
  BY <1>0, LenProperties DEF PackInv
<1>3. /\ dst = <<>> /\ unpacker = Unpacking
      /\ \E M : Begins(out, source, Packed, M)
      /\ 16 * Len(out) <= 17 * Packed
      /\ out # <<>> => Len(out) >= 2 /\ out[Len(out) - 1] % 4 = 0
  BY <1>0, <1>1 DEF TripInv, PackInv, OfPacked
<1> DEFINE p == Packed
           run == IF out = <<>> /\ t \in 1..238 THEN <<17 + t>> ELSE LiteralRun(out, t)
           rest == <<17, 0, 0>>
           o2 == out'
<1>4. PICK M : Begins(out, source, p, M)
  BY <1>3
<1>5. p \in Nat /\ p + t = Len(source) /\ p + t <= Len(source)
      /\ o2 = run \o SourceBytes(p, t) \o rest
  <2>1. o2 = run \o SourceBytes(p, t) \o rest /\ p \in Nat /\ p + t = Len(source)
    BY <1>1
  <2> HIDE DEF p, run, rest, o2
  <2>2. p + t <= Len(source)
    BY <1>2, <2>1
  <2>3. QED
    BY <2>1, <2>2
<1>6. run \in Seq(Bytes)
  <2> DEFINE r == run
  <2>1. r = IF out = <<>> /\ t \in 1..238 THEN <<17 + t>> ELSE LiteralRun(out, t)
    OBVIOUS
  <2>2. p \in Nat /\ 16 * Len(out) <= 17 * p /\ (out # <<>> => Len(out) >= 2)
    BY <1>3, <1>5
  <2> HIDE DEF r, p
  <2>3. r \in Seq(Bytes)
    BY <1>2, <2>1, <2>2, LastRun
  <2>4. QED
    BY <2>3 DEF r
<1>7. /\ rest \in Seq(Bytes) /\ Len(rest) = 3
      /\ rest[1] = 17 /\ rest[2] = 0 /\ rest[3] = 0
  BY DEF Bytes
<1>8. o2 \in Seq(Bytes) /\ source' = source /\ unpacker' = Unpacking /\ dst' = <<>>
      /\ packer'.pc = "done"
  BY <1>1, <1>2, <1>3
<1>9. run = IF out = <<>> /\ t \in 1..238 THEN <<17 + t>> ELSE LiteralRun(out, t)
  OBVIOUS
<1> HIDE DEF p, run, rest, o2
<1>10. /\ Len(o2) = Len(run) + t + 3
       /\ \A i \in 1 .. Len(run) : o2[i] = run[i]
       /\ \A i \in 1..t : o2[Len(run) + i] = source[p + i]
       /\ \A i \in 1 .. Len(rest) : o2[Len(run) + t + i] = rest[i]
  <2>1. /\ source \in Seq(Bytes) /\ run \in Seq(Bytes) /\ rest \in Seq(Bytes)
        /\ p \in Nat /\ t \in Nat /\ p + t <= Len(source)
    BY <1>2, <1>5, <1>6, <1>7
  <2>2. Len(run \o SourceBytes(p, t) \o rest) = Len(run) + t + Len(rest)
    BY <2>1, Emitted
  <2>3. \A i \in 1 .. Len(run) : (run \o SourceBytes(p, t) \o rest)[i] = run[i]
    BY <2>1, EmittedRun
  <2>4. \A i \in 1..t : (run \o SourceBytes(p, t) \o rest)[Len(run) + i] = source[p + i]
    BY <2>1, EmittedLiterals
  <2>5. \A i \in 1 .. Len(rest) :
           (run \o SourceBytes(p, t) \o rest)[Len(run) + t + i] = rest[i]
    BY <2>1, EmittedRest
  <2>6. QED
    BY <1>5, <1>7, <2>2, <2>3, <2>4, <2>5
<1>11. /\ o2[Len(run) + t + 1] = 17 /\ o2[Len(run) + t + 2] = 0 /\ o2[Len(run) + t + 3] = 0
  <2>1. 1 \in 1 .. Len(rest) /\ 2 \in 1 .. Len(rest) /\ 3 \in 1 .. Len(rest)
    BY <1>7
  <2>2. QED
    BY <1>7, <1>10, <2>1
<1>12. Len(run) \in Nat
  BY <1>6, LenProperties
<1>13. Tells(o2, source, M)
  <2>1. /\ out \in Seq(Bytes) /\ o2 \in Seq(Bytes) /\ source \in Seq(Bytes)
        /\ p \in Nat /\ p + t = Len(source)
        /\ out # <<>> => Len(out) >= 2 /\ out[Len(out) - 1] % 4 = 0
    BY <1>2, <1>3, <1>5, <1>8
  <2>2. Len(o2) = Len(run) + t + 3
    BY <1>10
  <2>3. \A i \in 1 .. Len(run) : o2[i] = run[i]
    BY <1>10
  <2>4. \A i \in 1..t : o2[Len(run) + i] = source[p + i]
    BY <1>10
  <2>5. Finished(out, o2, source, p, t, run)
    BY <1>9, <1>11, <1>12, <2>1, <2>2, <2>3, <2>4 DEF Finished
  <2>6. QED
    BY <1>4, <2>1, <2>5, StreamTells
<1>14. M \subseteq Nat \X Nat
  BY <1>4 DEF Begins
<1>15. Decodes(M)'
  <2>1. Len(source') \in Nat
    BY <1>2, <1>8
  <2>2. dst' \in Seq(Bytes) /\ Len(dst') = 0
    BY <1>8
  <2>3. Prefix(dst, 0)'
    BY <2>1, <2>2 DEF Prefix
  <2>4. unpacker' = [pc |-> "start", ip |-> 0, t |-> 0]
    BY <1>8 DEF Unpacking
  <2>5. AtStart(unpacker, dst)'
    BY <2>3, <2>4 DEF AtStart
  <2>6. Decoded(M, unpacker, dst)'
    BY <2>4, <2>5 DEF Decoded
  <2>7. Tells(out, source, M)'
    <3>1. Tells(out', source', M)
      BY <1>8, <1>13 DEF o2
    <3>2. QED
      BY <3>1
  <2>8. QED
    BY <1>2, <1>8, <1>14, <2>6, <2>7 DEF Decodes, o2
<1>16. QED
  BY <1>0, <1>8, <1>15 DEF TripInv

LEMMA StreamKept ==
    ASSUME NEW M, Decodes(M), source' = source, out' = out, Decoded(M, unpacker', dst')
    PROVE  Decodes(M)'
  BY DEF Decodes, Decoded, AtStart, AtRun, AtFew, AtFirst, AtMatch, AtEnd, Prefix

LEMMA UnpackTrips == ASSUME TripInv, Unpack PROVE TripInv'
<1>1. packer.pc = "done" /\ source' = source /\ out' = out /\ packer' = packer /\ PackInv'
  BY UnpackKeeps, KeptPacks DEF TripInv
<1>2. PICK M : Decodes(M)
  BY <1>1 DEF TripInv
<1>3. Decoded(M, unpacker', dst')
  BY <1>2, StartDecodes, RunDecodes, AfterRunDecodes, FewLiteralsDecodes, NearMatchDecodes,
     MiddleMatchDecodes, FarMatchDecodes, ShortMatchDecodes DEF Unpack
<1>4. Decodes(M)'
  BY <1>1, <1>2, <1>3, StreamKept
<1>5. (\E N : Decodes(N))'
  BY <1>4
<1>6. packer'.pc = "done"
  BY <1>1
<1>7. QED
  BY <1>1, <1>5, <1>6 DEF TripInv

LEMMA NextTrips == ASSUME TripInv, [LzoNext]_lzoVars PROVE TripInv'
<1>1. CASE BeginBlock \/ ProbeMisses \/ EndBlock
  BY <1>1, NothingPackedTrips
<1>2. CASE ProbeMatches
  BY <1>2, ProbeMatchesTrips
<1>3. CASE EndStream
  BY <1>3, EndStreamTrips
<1>4. CASE Unpack
  BY <1>4, UnpackTrips
<1>5. CASE UNCHANGED lzoVars
  <2>1. /\ source' = source /\ out' = out /\ packer' = packer /\ reach' = reach
        /\ unpacker' = unpacker /\ dst' = dst
    BY <1>5 DEF lzoVars
  <2>2. PackInv'
    BY <2>1, KeptPacks DEF TripInv
  <2>3. CASE packer.pc = "done"
    <3>1. PICK M : Decodes(M)
      BY <2>3 DEF TripInv
    <3>2. Decoded(M, unpacker', dst')
      BY <2>1, <3>1 DEF Decodes
    <3>3. Decodes(M)'
      BY <2>1, <3>1, <3>2, StreamKept
    <3>4. packer'.pc = "done" /\ (\E N : Decodes(N))'
      BY <2>1, <2>3, <3>3
    <3>5. QED
      BY <2>2, <3>4 DEF TripInv
  <2>4. CASE packer.pc # "done"
    <3>1. Packed' = Packed /\ Unpacking' = Unpacking
      BY <2>1 DEF Packed, Unpacking
    <3>2. dst' = <<>> /\ unpacker' = Unpacking' /\ \E M : Begins(out', source', Packed', M)
      BY <2>1, <2>4, <3>1 DEF TripInv
    <3>3. packer'.pc # "done"
      BY <2>1, <2>4
    <3>4. QED
      BY <2>2, <3>2, <3>3 DEF TripInv
  <2>5. QED
    BY <2>3, <2>4
<1>6. QED
  BY <1>1, <1>2, <1>3, <1>4, <1>5 DEF LzoNext, Unpack

LEMMA PrefixIs ==
    ASSUME source \in Seq(Bytes), NEW x, NEW p, Prefix(x, p)
    PROVE  /\ Len(x) \in Nat /\ Len(x) <= Len(source) /\ x = SubSeq(source, 1, Len(x))
           /\ p = Len(source) => x = source
<1>1. /\ p \in Nat /\ p <= Len(source) /\ x \in Seq(Bytes) /\ Len(x) = p
      /\ \A i \in 1..p : x[i] = source[i]
  BY DEF Prefix
<1>2. Len(source) \in Nat
  BY LenProperties
<1> DEFINE y == SubSeq(source, 1, p)
<1>3. y \in Seq(Bytes) /\ Len(y) = p /\ \A i \in 1..p : y[i] = source[i]
  <2>1. 0 \in Nat /\ 0 + p <= Len(source) /\ 0 + 1 = 1 /\ 0 + p = p
    BY <1>1
  <2>2. SourceBytes(0, p) = y
    BY <2>1 DEF SourceBytes
  <2>3. /\ SourceBytes(0, p) \in Seq(Bytes) /\ Len(SourceBytes(0, p)) = p
        /\ \A i \in 1..p : SourceBytes(0, p)[i] = source[0 + i]
    BY <1>1, <2>1, SourceBytesFacts
  <2>4. \A i \in 1..p : 0 + i = i
    OBVIOUS
  <2>5. QED
    BY <2>2, <2>3, <2>4
<1> HIDE DEF y
<1>4. x = y
  <2>1. Len(x) = Len(y) /\ \A i \in 1 .. Len(x) : x[i] = y[i]
    BY <1>1, <1>3
  <2>2. QED
    BY <1>1, <1>3, <2>1, SeqEqual
<1>5. p = Len(source) => x = source
  <2>1. ASSUME p = Len(source) PROVE x = source
    <3>1. Len(x) = Len(source) /\ \A i \in 1 .. Len(x) : x[i] = source[i]
      BY <1>1, <2>1
    <3>2. QED
      BY <1>1, <3>1, SeqEqual
  <2>2. QED
    BY <2>1
<1>6. QED
  BY <1>1, <1>4, <1>5 DEF y

LEMMA TripReproduces == ASSUME TripInv PROVE Reproduces
<1>0. source \in Seq(Bytes) /\ Len(source) \in Nat
  BY LenProperties DEF TripInv, PackInv
<1>1. CASE packer.pc # "done"
  <2>1. dst = <<>> /\ unpacker.pc = "start"
    BY <1>1 DEF TripInv, Unpacking
  <2>2. Prefix(dst, 0)
    <3>1. dst \in Seq(Bytes) /\ Len(dst) = 0
      BY <2>1
    <3>2. QED
      BY <1>0, <3>1 DEF Prefix
  <2>3. Len(dst) <= Len(source) /\ dst = SubSeq(source, 1, Len(dst))
    BY <1>0, <2>2, PrefixIs
  <2>4. QED
    BY <2>1, <2>3 DEF Reproduces
<1>2. CASE packer.pc = "done"
  <2>1. PICK M : Decodes(M)
    BY <1>2 DEF TripInv
  <2>2. \E p : Prefix(dst, p)
    BY <2>1 DEF Decodes, Decoded, AtStart, AtRun, AtFew, AtFirst, AtMatch, AtEnd
  <2>3. /\ unpacker.pc # "error"
        /\ unpacker.pc = "ok" => Prefix(dst, Len(source))
    BY <2>1 DEF Decodes, Decoded, AtStart, AtRun, AtFew, AtFirst, AtMatch, AtEnd
  <2>4. Len(dst) <= Len(source) /\ dst = SubSeq(source, 1, Len(dst))
    BY <1>0, <2>2, PrefixIs
  <2>5. unpacker.pc = "ok" => dst = source
    BY <1>0, <2>3, PrefixIs
  <2>6. QED
    BY <2>3, <2>4, <2>5 DEF Reproduces
<1>3. QED
  BY <1>1, <1>2

THEOREM KeepsTheSource == ForeignStands /\ LzoSpec => []TripInv
<1>1. ForeignStands /\ LzoInit => TripInv
  BY InitTrips
<1>2. TripInv /\ [LzoNext]_lzoVars => TripInv'
  BY NextTrips
<1>3. QED
  BY <1>1, <1>2, PTL DEF LzoSpec

(* What lzo1x_1_compress writes is a stream of the format, and it stands   *)
(* for the source.                                                         *)
WritesTheFormat == packer.pc = "done" => StandsFor(out, source)

THEOREM WritesAStream == ForeignStands /\ LzoSpec => []WritesTheFormat
<1>1. TripInv => WritesTheFormat
  BY DEF TripInv, WritesTheFormat, StandsFor, Decodes
<1>2. QED
  BY <1>1, KeepsTheSource, PTL

(* lzo1x_decompress gives back what lzo1x_1_compress was given, byte for   *)
(* byte, for every source of whatever length; and from a stream of another *)
(* packer what that stream stands for.                                     *)
THEOREM ComesBackAsItWas == ForeignStands /\ LzoSpec => []Reproduces
<1>1. TripInv => Reproduces
  BY TripReproduces
<1>2. QED
  BY <1>1, KeepsTheSource, PTL
=============================================================================
