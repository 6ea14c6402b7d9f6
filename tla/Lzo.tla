-------------------------------- MODULE Lzo --------------------------------
(***************************************************************************)
(* The compressor and the decompressor both programs send their blocks     *)
(* through (minilzo.c: lzo1x_1_compress, lzo1x_decompress).  A behaviour   *)
(* compresses one source, one probe of the dictionary after another, and   *)
(* then decompresses what came out, one instruction of the stream after    *)
(* another.  It may also begin with a stream of some other LZO1X packer,   *)
(* whose instructions this compressor does not use.                        *)
(*                                                                         *)
(* Positions count from 0, as in the code: byte i of s is s[i + 1].  in,   *)
(* op and ip of the code are offsets here.  The unaligned 64-bit build of  *)
(* the host is modelled; the others read and write less at a time.         *)
(***************************************************************************)
EXTENDS Integers, Sequences

CONSTANTS
    Sources,    \* what is compressed: sequences of bytes
    Foreign     \* streams from elsewhere: [stream, source]

ASSUME LzoAssumption ==
    /\ \A s \in Sources : s \in Seq(0..255)
    /\ \A f \in Foreign : f.stream \in Seq(0..255) /\ f.source \in Seq(0..255)

VARIABLES
    source,     \* what the stream stands for
    out,        \* the compressed stream
    packer,     \* registers of lzo1x_1_compress
    reach,      \* how far it has read the source and written the stream
    unpacker,   \* registers of lzo1x_decompress
    dst         \* what it has written

lzoVars == <<source, out, packer, reach, unpacker, dst>>

W == INSTANCE Wire

Greatest(a, b) == IF a < b THEN b ELSE a
Least(a, b) == IF a < b THEN a ELSE b
Word4(s, i) == SubSeq(s, i + 1, i + 4)      \* UA_GET_LE32

M2MaxOffset == 2048     \* 0x0800
M3MaxOffset == 16384    \* 0x4000
M2MaxLen == 8
M3MaxLen == 33
M4MaxLen == 9
M3Marker == 32
M4Marker == 16
BlockMax == 49152       \* so that no offset is beyond 0xbfff
Margin == 20            \* no match starts in the last Margin bytes

-----------------------------------------------------------------------------
(* The compressor *)

(* DINDEX: bits 18..31 of 0x1824429d * dv, where dv is little endian.      *)
Hash(w) ==
    LET c0 == w[1] * 157
        c1 == w[1] * 66 + w[2] * 157 + c0 \div 256
        c2 == w[1] * 36 + w[2] * 66 + w[3] * 157 + c1 \div 256
        c3 == w[1] * 24 + w[2] * 36 + w[3] * 66 + w[4] * 157 + c2 \div 256
    IN  (c3 % 256) * 64 + (c2 % 256) \div 4

(* A slot nothing was entered in since the memset holds 0: the start of    *)
(* the block.                                                              *)
Candidate(p, slot) == p.block + (IF slot \in DOMAIN p.dict THEN p.dict[slot] ELSE 0)

(* How many bytes at ip are those at m: from the fourth on they are        *)
(* compared until they differ, eight at a time once the end is near.       *)
MatchLengthByTheEnd(ip, m, limit) ==    \* mutant: the end does not count
    LET Differs(k) == ip + k = Len(source) \/ source[ip + k + 1] # source[m + k + 1]
    IN  CHOOSE k \in 4 .. Len(source) : Differs(k) /\ \A j \in 4 .. k - 1 : ~Differs(j)
MatchLength(ip, m, limit) ==
    LET Stop(k) == \/ source[ip + k + 1] # source[m + k + 1]
                   \/ k > 4 /\ k % 8 = 4 /\ ip + k >= limit
    IN  CHOOSE k \in 4 .. Len(source) : Stop(k) /\ \A j \in 4 .. k - 1 : ~Stop(j)

(* n > 0 as bytes that are added up: 0 stands for 255 and goes on.         *)
Extended(n) == [i \in 1 .. (n - 1) \div 255 |-> 0] \o <<n - 255 * ((n - 1) \div 255)>>

(* b | t, for t of two bits.                                               *)
WithLowBits(b, t) ==
    LET Bit(v, n) == (v \div n) % 2 = 1
        Or(n) == IF Bit(b, n) \/ Bit(t, n) THEN n ELSE 0
    IN  4 * (b \div 4) + Or(2) + Or(1)

(* The instruction for t literals; up to 3 go into the last instruction.   *)
LiteralRun(o, t) ==
    IF t = 0 THEN o
    ELSE IF t <= 3 THEN [o EXCEPT ![Len(o) - 1] = WithLowBits(@, t)]
    ELSE IF t <= 18 THEN Append(o, t - 3)
    ELSE (Append(o, 0)) \o Extended(t - 18)

OffsetBytes(off) == <<(off * 4) % 256, (off \div 64) % 256>>
Lengthened(marker, len, most) ==
    IF len <= most THEN <<marker + (len - 2)>> ELSE <<marker>> \o Extended(len - most)

(* The instruction for a match of len bytes off bytes back.                *)
Match(len, off) ==
    IF len <= M2MaxLen /\ off <= M2MaxOffset
    THEN <<(len - 1) * 32 + ((off - 1) % 8) * 4, (off - 1) \div 8>>
    ELSE IF off <= M3MaxOffset
    THEN Lengthened(M3Marker, len, M3MaxLen) \o OffsetBytes(off - 1)
    ELSE LET far == off - 16384
         IN  Lengthened(M4Marker + 8 * ((far \div 16384) % 2), len, M4MaxLen) \o OffsetBytes(far)

(* How far the copy of t literals writes behind the stream o: up to 3 are  *)
(* copied as 4 bytes, up to 16 as 16.                                      *)
CopyReach(o, t) ==
    IF t = 0 THEN Len(o) ELSE IF t <= 3 THEN Len(o) + 4
    ELSE IF t <= 16 THEN Len(o) + 1 + 16 ELSE Len(LiteralRun(o, t)) + t

SourceBytes(from, t) == SubSeq(source, from + 1, from + t)

(* The next position to probe after a miss: the longer nothing matches,    *)
(* the larger the steps.                                                   *)
Step(ip, ii) == ip + 1 + (ip - ii) \div 32

Limit == packer.end - Margin

(* What is left is compressed in blocks of at most BlockMax bytes while    *)
(* it is more than Margin.  The test for an address that wraps round ends  *)
(* that as well when block and pending literals are fewer than 32.         *)
Left == Len(source) - packer.end
Compressible == Left > Margin /\ packer.ti + Least(Left, BlockMax) >= 32

(* do_compress begins; ti literals are left over from the block before.    *)
BeginBlock ==
    /\ packer.pc = "block"
    /\ Compressible
    /\ LET in == packer.end
           ip == in + (IF packer.ti < 4 THEN 4 - packer.ti ELSE 0)
       IN  packer' = [packer EXCEPT !.pc = "probe", !.block = in, !.ii = in,
                        !.end = in + Least(Left, BlockMax),
                        !.ip = Step(ip, in), !.dict = <<>>]
    /\ UNCHANGED <<source, out, reach, unpacker, dst>>

(* UPDATE_I *)
Entered(p) ==
    LET h == Hash(Word4(source, p.ip))
    IN  [slot \in DOMAIN p.dict \cup {h} |-> IF slot = h THEN p.ip - p.block ELSE p.dict[slot]]

ProbeMisses ==
    /\ packer.pc = "probe"
    /\ packer.ip < Limit
    /\ LET w == Word4(source, packer.ip)
       IN  w # Word4(source, Candidate(packer, Hash(w)))
    /\ packer' = [packer EXCEPT !.dict = Entered(packer), !.ip = Step(@, packer.ii)]
    /\ UNCHANGED <<source, out, reach, unpacker, dst>>

ProbeMatches ==
    /\ packer.pc = "probe"
    /\ packer.ip < Limit
    /\ LET ip == packer.ip
           w == Word4(source, ip)
           ii == packer.ii - packer.ti
       IN  \E m \in {Candidate(packer, Hash(w))} : \E len \in {MatchLength(ip, m, Limit)} :
           /\ w = Word4(source, m)
           /\ out' = LiteralRun(out, ip - ii) \o SourceBytes(ii, ip - ii) \o Match(len, ip - m)
           /\ reach' = [read |-> Greatest(reach.read, ip + 4 + 8 * ((len - 4) \div 8) + 8),
                        written |-> Greatest(reach.written,
                                             Greatest(CopyReach(out, ip - ii), Len(out')))]
           /\ packer' = [packer EXCEPT !.dict = Entered(packer), !.ti = 0,
                           !.ip = ip + len, !.ii = ip + len]
    /\ UNCHANGED <<source, unpacker, dst>>

EndBlock ==
    /\ packer.pc = "probe"
    /\ packer.ip >= Limit
    /\ packer' = [packer EXCEPT !.pc = "block", !.ti = packer.end - (packer.ii - @)]
    /\ UNCHANGED <<source, out, reach, unpacker, dst>>

(* The rest as literals, then the end of the stream.                       *)
EndStream ==
    /\ packer.pc = "block"
    /\ ~Compressible
    /\ LET t == packer.ti + Left
           run == IF out = <<>> /\ t \in 1..238 THEN <<17 + t>> ELSE LiteralRun(out, t)
       IN  out' = run \o SourceBytes(Len(source) - t, t) \o <<M4Marker + 1, 0, 0>>
    /\ reach' = [reach EXCEPT !.written = Greatest(@, Len(out'))]
    /\ packer' = [packer EXCEPT !.pc = "done"]
    /\ UNCHANGED <<source, unpacker, dst>>

-----------------------------------------------------------------------------
(* The decompressor *)

(* A byte of the stream or of what was written; outside of both there is   *)
(* something that is no byte of the source.                                *)
Stray == 256
In(i) == IF i + 1 \in DOMAIN out THEN out[i + 1] ELSE Stray

CopyLiterals(ip, t) == dst \o [i \in 1..t |-> In(ip + i - 1)]

(* t bytes from off back, one after the other: the two may overlap.        *)
CopyMatchAtOnce(off, t) ==      \* mutant: all read before one is written
    dst \o [i \in 1..t |-> IF Len(dst) - off + i \in DOMAIN dst
                           THEN dst[Len(dst) - off + i] ELSE Stray]
CopyMatch(off, t) ==
    dst \o [i \in 1..t |-> LET from == Len(dst) - off + ((i - 1) % off) + 1
                           IN  IF from \in DOMAIN dst THEN dst[from] ELSE Stray]

(* A length that did not fit: zero bytes count 255 each.                   *)
Long(ip, base) ==
    LET zeros == CHOOSE k \in 0 .. Len(out) :
                    In(ip + k) # 0 /\ \A j \in 0 .. k - 1 : In(ip + j) = 0
    IN  [t |-> 255 * zeros + base + In(ip + zeros), ip |-> ip + zeros + 1]

(* The length in the low bits of an instruction, and where what follows    *)
(* it is.                                                                  *)
LengthOf(t, mask, ip) ==
    IF t % (mask + 1) # 0 THEN [t |-> t % (mask + 1), ip |-> ip] ELSE Long(ip, mask)

Running(pc) == packer.pc = "done" /\ unpacker.pc = pc

(* match_done: the low bits of the byte before last count the literals     *)
(* that follow.                                                            *)
AfterMatch(ip) ==
    LET t == In(ip - 2) % 4
    IN  unpacker' = [pc |-> IF t = 0 THEN "run" ELSE "few", ip |-> ip, t |-> t]

Start ==
    /\ Running("start")
    /\ LET t == In(0) - 17
       IN  IF t <= 0
           THEN /\ unpacker' = [unpacker EXCEPT !.pc = "run"]
                /\ UNCHANGED dst
           ELSE IF t < 4
           THEN /\ unpacker' = [pc |-> "few", ip |-> 1, t |-> t]
                /\ UNCHANGED dst
           ELSE /\ dst' = CopyLiterals(1, t)
                /\ unpacker' = [pc |-> "first", ip |-> 1 + t, t |-> 0]
    /\ UNCHANGED <<source, out, packer, reach>>

(* The instruction after a match without literals: a run of literals or,   *)
(* from 16 on, another match.                                              *)
Run ==
    /\ Running("run")
    /\ LET b == In(unpacker.ip)
       IN  IF b >= 16
           THEN /\ unpacker' = [pc |-> "match", ip |-> unpacker.ip + 1, t |-> b]
                /\ UNCHANGED dst
           ELSE \E run \in {LengthOf(b, 15, unpacker.ip + 1)} :
                /\ dst' = CopyLiterals(run.ip, run.t + 3)
                /\ unpacker' = [pc |-> "first", ip |-> run.ip + run.t + 3, t |-> 0]
    /\ UNCHANGED <<source, out, packer, reach>>

(* first_literal_run: after a run a small instruction is a match of three  *)
(* bytes beyond the reach of M2.                                           *)
AfterRun ==
    /\ Running("first")
    /\ LET b == In(unpacker.ip)
       IN  IF b >= 16
           THEN /\ unpacker' = [pc |-> "match", ip |-> unpacker.ip + 1, t |-> b]
                /\ UNCHANGED dst
           ELSE /\ dst' = CopyMatch(1 + M2MaxOffset + b \div 4 + In(unpacker.ip + 1) * 4, 3)
                /\ AfterMatch(unpacker.ip + 2)
    /\ UNCHANGED <<source, out, packer, reach>>

NearMatch ==    \* t >= 64: M2
    /\ Running("match")
    /\ unpacker.t >= 64
    /\ LET off == 1 + ((unpacker.t \div 4) % 8) + In(unpacker.ip) * 8
       IN  dst' = CopyMatch(off, unpacker.t \div 32 + 1)
    /\ AfterMatch(unpacker.ip + 1)
    /\ UNCHANGED <<source, out, packer, reach>>

OffsetAt(ip) == In(ip) \div 4 + In(ip + 1) * 64

MiddleMatch ==  \* 32 <= t < 64: M3
    /\ Running("match")
    /\ unpacker.t \in 32..63
    /\ \E m \in {LengthOf(unpacker.t, 31, unpacker.ip)} :
          /\ \E off \in {1 + OffsetAt(m.ip)} : dst' = CopyMatch(off, m.t + 2)
          /\ AfterMatch(m.ip + 2)
    /\ UNCHANGED <<source, out, packer, reach>>

FarMatch ==     \* 16 <= t < 32: M4, and the end of the stream
    /\ Running("match")
    /\ unpacker.t \in 16..31
    /\ \E m \in {LengthOf(unpacker.t, 7, unpacker.ip)} :
       \E off \in {16384 * ((unpacker.t \div 8) % 2) + OffsetAt(m.ip)} :
          IF off = 0
          THEN /\ unpacker' = [pc |-> IF m.ip + 2 = Len(out) THEN "ok" ELSE "error",
                               ip |-> m.ip + 2, t |-> 0]
               /\ UNCHANGED dst
          ELSE /\ dst' = CopyMatch(off + 16384, m.t + 2)
               /\ AfterMatch(m.ip + 2)
    /\ UNCHANGED <<source, out, packer, reach>>

ShortMatch ==   \* t < 16: M1
    /\ Running("match")
    /\ unpacker.t < 16
    /\ dst' = CopyMatch(1 + unpacker.t \div 4 + In(unpacker.ip) * 4, 2)
    /\ AfterMatch(unpacker.ip + 1)
    /\ UNCHANGED <<source, out, packer, reach>>

FewLiterals ==  \* match_next: 1, 2 or 3 literals and then a match
    /\ Running("few")
    /\ LET after == unpacker.ip + unpacker.t
       IN  /\ dst' = CopyLiterals(unpacker.ip, unpacker.t)
           /\ unpacker' = [pc |-> "match", ip |-> after + 1, t |-> In(after)]
    /\ UNCHANGED <<source, out, packer, reach>>

-----------------------------------------------------------------------------
Unpacking == [pc |-> "start", ip |-> 0, t |-> 0]
Packing == [pc |-> "block", block |-> 0, end |-> 0, ip |-> 0, ii |-> 0, ti |-> 0, dict |-> <<>>]

Packs(s) ==
    /\ source = s /\ out = <<>> /\ dst = <<>>
    /\ packer = Packing /\ unpacker = Unpacking
    /\ reach = [read |-> 0, written |-> 0]
Unpacks(f) ==
    /\ source = f.source /\ out = f.stream /\ dst = <<>>
    /\ packer = [Packing EXCEPT !.pc = "done"] /\ unpacker = Unpacking
    /\ reach = [read |-> 0, written |-> 0]

LzoInit == (\E s \in Sources : Packs(s)) \/ (\E f \in Foreign : Unpacks(f))

LzoNext ==
    \/ BeginBlock \/ ProbeMisses \/ ProbeMatches \/ EndBlock \/ EndStream
    \/ Start \/ Run \/ AfterRun \/ FewLiterals
    \/ NearMatch \/ MiddleMatch \/ FarMatch \/ ShortMatch

LzoSpec == LzoInit /\ [][LzoNext]_lzoVars
-----------------------------------------------------------------------------
(* lzo1x_decompress writes, from the first byte to the last, what was      *)
(* compressed, and has read the whole stream and no more when it says so:  *)
(* the block arrives as it was, whatever matched what in it.               *)
Reproduces ==
    /\ Len(dst) <= Len(source)
    /\ dst = SubSeq(source, 1, Len(dst))
    /\ unpacker.pc = "ok" => dst = source
    /\ unpacker.pc # "error"

(* testmini.c provides n + n/16 + 64 + 3 bytes for what n bytes become:    *)
(* neither the stream nor the wide copies, which write more than they      *)
(* advance, leave them, and the compressor never reads behind its source.  *)
WithinBuffers ==
    /\ reach.read <= Len(source)
    /\ reach.written <= W!MostCompressed(Len(source))
=============================================================================
