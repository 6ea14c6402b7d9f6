------------------------------ MODULE LzoSafe ------------------------------
(***************************************************************************)
(* The decompressor that looks before it reads and writes (minilzo.c:      *)
(* lzo1x_decompress_safe): each step is the step of lzo1x_decompress, with *)
(* its tests in front.  It is given streams that are whole, cut short or   *)
(* damaged, and not always enough room.                                    *)
(***************************************************************************)
EXTENDS Integers, Sequences, TLC

CONSTANT Received   \* [stream, room, whole, source]: whole is the stream of
                    \* source, and stream what has come of it

ASSUME SafeAssumption ==
    \A r \in Received : r.stream \in Seq(0..255) /\ r.room \in Nat

VARIABLES
    received,   \* one of Received
    dec,        \* the registers of the decompressor
    got         \* what it has written

safeVars == <<received, dec, got>>

P == INSTANCE Lzo WITH
        Sources <- {}, Foreign <- {}, source <- received.source, out <- received.stream,
        packer <- [pc |-> "done"], reach <- 0, unpacker <- dec, dst <- got

(* NEED_IP, NEED_OP and TEST_LB.                                           *)
Test(holds, error) == [holds |-> holds, error |-> error]
NeedIp(ip, n) == Test(Len(received.stream) - ip >= n, "input overrun")
NeedOpOneMore(n) == Test(received.room - Len(got) >= n - 1, "output overrun")   \* mutant: off by one
NeedOp(n) == Test(received.room - Len(got) >= n, "output overrun")
TestLb(off) == Test(off <= Len(got), "lookbehind overrun")
(* The zero bytes of a length come to an end before the stream does.       *)
ZerosEnd(ip) == Test(\E j \in ip + 1 .. Len(received.stream) : received.stream[j] # 0,
                     "input overrun")

(* A test that is only made on a condition.                                *)
Only(condition, test) == Test(condition => test.holds, test.error)

(* The first test that does not hold ends everything.                      *)
Failing(tests) == {n \in DOMAIN tests : ~tests[n].holds}
Stopped(tests) ==
    \E n \in Failing(tests) :
       /\ \A k \in Failing(tests) : n <= k
       /\ dec' = [dec EXCEPT !.pc = tests[n].error]
       /\ UNCHANGED <<received, got>>
Guarded(tests, Plain) ==
    \/ Failing(tests) # {} /\ Stopped(tests)
    \/ Failing(tests) = {} /\ UNCHANGED received /\ Plain

Now(pc) == dec.pc = pc
-----------------------------------------------------------------------------
SafeStart ==
    /\ Now("start")
    /\ LET t == P!In(0) - 17
       IN  Guarded(<<NeedIp(0, 1), Only(t >= 4, NeedOp(t)), Only(t >= 4, NeedIp(1, t + 3))>>,
                   P!Start)

SafeRun ==
    /\ Now("run")
    /\ LET b == P!In(dec.ip)
           run == P!LengthOf(b, 15, dec.ip + 1)
       IN  Guarded(<<NeedIp(dec.ip, 3),
                     Only(b = 0, ZerosEnd(dec.ip + 1)),
                     Only(b < 16, NeedOp(run.t + 3)),
                     Only(b < 16, NeedIp(run.ip, run.t + 6))>>, P!Run)

SafeAfterRun ==
    /\ Now("first")
    /\ LET b == P!In(dec.ip)
           off == 1 + P!M2MaxOffset + b \div 4 + P!In(dec.ip + 1) * 4
       IN  Guarded(<<Only(b < 16, TestLb(off)), Only(b < 16, NeedOp(3))>>, P!AfterRun)

SafeFewLiterals ==
    Now("few") /\ Guarded(<<NeedOp(dec.t), NeedIp(dec.ip, dec.t + 3)>>, P!FewLiterals)

SafeNearMatch ==
    /\ Now("match") /\ dec.t >= 64
    /\ Guarded(<<TestLb(1 + ((dec.t \div 4) % 8) + P!In(dec.ip) * 8),
                 NeedOp(dec.t \div 32 + 1)>>, P!NearMatch)

(* A long length is followed by a test for the offset's two bytes.         *)
LongLength(mask) == dec.t % (mask + 1) = 0

SafeMiddleMatch ==
    /\ Now("match") /\ dec.t \in 32..63
    /\ \E m \in {P!LengthOf(dec.t, 31, dec.ip)} :
          Guarded(<<Only(LongLength(31), ZerosEnd(dec.ip)),
                    Only(LongLength(31), NeedIp(m.ip, 2)),
                    TestLb(1 + P!OffsetAt(m.ip)), NeedOp(m.t + 2)>>, P!MiddleMatch)

SafeFarMatch ==
    /\ Now("match") /\ dec.t \in 16..31
    /\ \E m \in {P!LengthOf(dec.t, 7, dec.ip)} :
       \E off \in {16384 * ((dec.t \div 8) % 2) + P!OffsetAt(m.ip)} :
          Guarded(<<Only(LongLength(7), ZerosEnd(dec.ip)),
                    Only(LongLength(7), NeedIp(m.ip, 2)),
                    Only(off # 0, TestLb(off + 16384)), Only(off # 0, NeedOp(m.t + 2))>>,
                  P!FarMatch)

SafeShortMatch ==
    /\ Now("match") /\ dec.t < 16
    /\ Guarded(<<TestLb(1 + dec.t \div 4 + P!In(dec.ip) * 4), NeedOp(2)>>, P!ShortMatch)

SafeInit == \E r \in Received :
    /\ received = r
    /\ dec = [pc |-> "start", ip |-> 0, t |-> 0]
    /\ got = <<>>

SafeNext ==
    \/ SafeStart \/ SafeRun \/ SafeAfterRun \/ SafeFewLiterals
    \/ SafeNearMatch \/ SafeMiddleMatch \/ SafeFarMatch \/ SafeShortMatch

SafeSpec == SafeInit /\ [][SafeNext]_safeVars
-----------------------------------------------------------------------------
(* Whatever the stream is, nothing is written behind the room there is,    *)
(* nothing is copied from outside of what was written, and every byte that *)
(* a step reads untested is there.                                         *)
NothingOutside ==
    /\ Len(got) <= received.room
    /\ \A n \in DOMAIN got : got[n] # P!Stray
    /\ Now("match") => dec.ip + 2 <= Len(received.stream)
    /\ Now("first") => dec.ip + 3 <= Len(received.stream)
    /\ dec.ip <= Len(received.stream)

(* One that was cut short, perhaps by nothing.                             *)
Cut ==
    /\ Len(received.stream) <= Len(received.whole)
    /\ received.stream = SubSeq(received.whole, 1, Len(received.stream))
(* Nothing is touched outside, and the answer is right: a whole stream is  *)
(* decompressed, if there is room for it, and is never stopped for want of *)
(* anything else; one that was cut short is never taken for a whole one.   *)
Judged ==
    /\ NothingOutside
    /\ Now("ok") /\ Cut => received.stream = received.whole /\ got = received.source
    /\ dec.pc \in {"input overrun", "lookbehind overrun"} /\ Cut => received.stream # received.whole
    /\ Now("output overrun") /\ Cut => received.room < Len(received.source)
=============================================================================
