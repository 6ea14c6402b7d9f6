------------------------------- MODULE Memory -------------------------------
(***************************************************************************)
(* The memory routines of the target: memcpy.S (its little endian half)    *)
(* and memset.S, written in the assembly of the SH4, memmove.c and         *)
(* memcmp.c.  All of them move words where they can, and the words of a    *)
(* copy have to be aligned on both sides: the SH4 stops at an unaligned    *)
(* one.  A behaviour is one call; a step is one turn of a loop or the code *)
(* between two of them.  to, from, end and last are the registers r4, r5,  *)
(* r6 and r7 (memset keeps its r0 in to); carry is the half word memcpy    *)
(* has read and not yet written.                                           *)
(***************************************************************************)
EXTENDS Integers, Sequences

CONSTANT Calls      \* [name, to, from, n, m]: m is the memory before the call

(* What a caller owes the routines: memory where he says it is, with       *)
(* addresses that ascend from its first byte to its last (memcpy.S's first *)
(* assumption), areas that do not overlap for memcpy, and nothing to set   *)
(* in the first four bytes of all, which memset.S says are reserved.       *)
Lies(at, c) == at \in Nat /\ at .. at + c.n - 1 \subseteq DOMAIN c.m
ASSUME MemoryAssumption ==
    \A c \in Calls :
        /\ c.name \in {"memcpy", "memmove", "memset", "memcmp"}
        /\ c.n \in Nat
        /\ DOMAIN c.m \subseteq Nat
        /\ c.m \in [DOMAIN c.m -> 0..255]
        /\ Lies(c.to, c)
        /\ IF c.name = "memset" THEN c.from \in 0..255 /\ c.to >= 4 ELSE Lies(c.from, c)
        /\ c.name = "memcpy" => c.from + c.n <= c.to \/ c.to + c.n <= c.from

VARIABLES
    call,       \* the call
    m,          \* the memory
    r,          \* the registers
    accesses,   \* the loads and stores of the last step
    answer      \* what memcmp returns

memoryVars == <<call, m, r, accesses, answer>>

Load(at, w) == [op |-> "load", at |-> at, width |-> w]
StoreTo(at, w) == [op |-> "store", at |-> at, width |-> w]

Outside == -1
Bytes(at, n) == [i \in 1..n |-> IF at + i - 1 \in DOMAIN m THEN m[at + i - 1] ELSE Outside]
With(at, bytes) ==
    [a \in DOMAIN m |-> IF a \in at .. at + Len(bytes) - 1 THEN bytes[a - at + 1] ELSE m[a]]

At(pc) == r.pc = pc
Goto(pc) == r' = [r EXCEPT !.pc = pc]

(* w bytes are loaded as one and stored in parts of these widths.          *)
CopyIn(w, parts, pc) ==
    /\ m' = With(r.to, Bytes(r.from, w))
    /\ accesses' = {Load(r.from, w)} \cup {StoreTo(r.to + p.off, p.width) : p \in parts}
    /\ r' = [r EXCEPT !.pc = pc, !.to = @ + w, !.from = @ + w]
Copy(w, pc) == CopyIn(w, {[off |-> 0, width |-> w]}, pc)

Skip(pc) == Goto(pc) /\ accesses' = {} /\ UNCHANGED m

-----------------------------------------------------------------------------
(* memcpy *)

MemcpyStart ==
    /\ At("memcpy")
    /\ IF call.n < 11 THEN Skip("bytes")
       ELSE IF r.from % 2 = 1 THEN Copy(1, "even") ELSE Skip("even")
    /\ UNCHANGED <<call, answer>>

(* L_even: last is where the word loops end.                               *)
LongsEnd(end) == end - 3
DestinationAligned ==
    /\ At("even")
    /\ r.to % 2 = 0
    /\ IF r.to % 4 = 2
       THEN /\ m' = With(r.to, Bytes(r.from, 2))
            /\ accesses' = {Load(r.from, 2), StoreTo(r.to, 2)}
            /\ r' = [r EXCEPT !.pc = "al4dst", !.last = LongsEnd(r.end),
                       !.to = @ + 2, !.from = @ + 2]
       ELSE /\ r' = [r EXCEPT !.pc = "al4dst", !.last = LongsEnd(r.end)]
            /\ accesses' = {}
            /\ UNCHANGED m
    /\ UNCHANGED <<call, answer>>

(* L_al4dst: both aligned, or the source two bytes behind.                 *)
SourceAligned ==
    /\ At("al4dst")
    /\ IF r.from % 4 = 0
       THEN Skip("longs")
       ELSE /\ r' = [r EXCEPT !.pc = "shifted", !.from = @ + 2, !.last = @ - 6,
                       !.carry = Bytes(r.from, 2)]
            /\ accesses' = {Load(r.from, 2)}
            /\ UNCHANGED m
    /\ UNCHANGED <<call, answer>>

(* L_2l_loop: two longs, each made of the half carried over and the first  *)
(* half of the next.  What is read too far is given back.                  *)
ShiftedLoop ==
    /\ At("shifted")
    /\ m' = With(r.to, r.carry \o Bytes(r.from, 6))
    /\ accesses' = {Load(r.from, 4), Load(r.from + 4, 4), StoreTo(r.to, 4), StoreTo(r.to + 4, 4)}
    /\ r' = [r EXCEPT !.carry = Bytes(r.from + 6, 2), !.to = @ + 8,
               !.pc = IF r.from + 4 >= r.last THEN "bytes" ELSE "shifted",
               !.from = IF r.from + 4 >= r.last THEN @ + 6 ELSE @ + 8]
    /\ UNCHANGED <<call, answer>>

(* L_al4both_loop *)
LongLoop ==
    /\ At("longs")
    /\ Copy(4, IF r.from + 4 >= r.last THEN "bytes" ELSE "longs")
    /\ UNCHANGED <<call, answer>>

(* L_odddst *)
DestinationOdd ==
    /\ At("even")
    /\ r.to % 2 = 1
    /\ IF r.from % 4 = 2
       THEN /\ m' = With(r.to, Bytes(r.from, 2))
            /\ accesses' = {Load(r.from, 2), StoreTo(r.to, 1), StoreTo(r.to + 1, 1)}
            /\ r' = [r EXCEPT !.pc = "odd", !.last = LongsEnd(r.end),
                       !.to = @ + 2, !.from = @ + 2]
       ELSE /\ r' = [r EXCEPT !.pc = "odd", !.last = LongsEnd(r.end)]
            /\ accesses' = {}
            /\ UNCHANGED m
    /\ UNCHANGED <<call, answer>>

(* L_odd_loop *)
OddLoop ==
    /\ At("odd")
    /\ CopyIn(4, {[off |-> 0, width |-> 1], [off |-> 1, width |-> 2], [off |-> 3, width |-> 1]},
              IF r.from + 4 >= r.last THEN "bytes" ELSE "odd")
    /\ UNCHANGED <<call, answer>>

(* L_cleanup, and the last loop of memmove: bytes until end is met.        *)
ByteLoop ==
    /\ At("bytes")
    /\ IF r.from = r.end THEN Skip("done") ELSE Copy(1, "bytes")
    /\ UNCHANGED <<call, answer>>

-----------------------------------------------------------------------------
(* memmove *)

(* The loop on words copies sixteen bytes a turn and then four; it is      *)
(* taken as one word after another, which is the order of both.            *)
OverlapForgotten == FALSE       \* mutant: always forwards
Overlap == call.from < call.to /\ call.to < call.from + call.n

MemmoveStart ==
    /\ At("memmove")
    /\ IF Overlap
       THEN /\ r' = [r EXCEPT !.pc = "back", !.to = @ + call.n, !.from = r.end]
            /\ accesses' = {} /\ UNCHANGED m
       ELSE Skip(IF call.n >= 16 /\ call.from % 4 = 0 /\ call.to % 4 = 0 THEN "words" ELSE "bytes")
    /\ UNCHANGED <<call, answer>>

BackLoop ==
    /\ At("back")
    /\ IF r.from = call.from
       THEN Skip("done")
       ELSE /\ m' = With(r.to - 1, Bytes(r.from - 1, 1))
            /\ accesses' = {Load(r.from - 1, 1), StoreTo(r.to - 1, 1)}
            /\ r' = [r EXCEPT !.to = @ - 1, !.from = @ - 1]
    /\ UNCHANGED <<call, answer>>

WordLoop ==
    /\ At("words")
    /\ IF r.end - r.from >= 4 THEN Copy(4, "words") ELSE Skip("bytes")
    /\ UNCHANGED <<call, answer>>

-----------------------------------------------------------------------------
(* memset: call.from is the value; end is where the filling ends *)

Filled(n) == [i \in 1..n |-> call.from]

MemsetStart ==
    /\ At("memset")
    /\ Skip(IF call.n < 12 THEN "fill" ELSE "align")
    /\ UNCHANGED <<call, answer>>

AlignLoop ==
    /\ At("align")
    /\ IF r.to % 4 = 0
       THEN Skip("fill8")
       ELSE /\ m' = With(r.to, Filled(1))
            /\ accesses' = {StoreTo(r.to, 1)}
            /\ r' = [r EXCEPT !.to = @ + 1]
    /\ UNCHANGED <<call, answer>>

FillLoop ==     \* L_store_long_loop
    /\ At("fill8")
    /\ m' = With(r.to, Filled(8))
    /\ accesses' = {StoreTo(r.to, 4), StoreTo(r.to + 4, 4)}
    /\ r' = [r EXCEPT !.to = @ + 8, !.pc = IF r.to >= r.end - 16 THEN "fill" ELSE "fill8"]
    /\ UNCHANGED <<call, answer>>

FillByteLoop ==
    /\ At("fill")
    /\ IF r.to = r.end
       THEN Skip("done")
       ELSE /\ m' = With(r.to, Filled(1))
            /\ accesses' = {StoreTo(r.to, 1)}
            /\ r' = [r EXCEPT !.to = @ + 1]
    /\ UNCHANGED <<call, answer>>

-----------------------------------------------------------------------------
(* memcmp: to and from are the two areas *)

MemcmpStart ==
    /\ At("memcmp")
    /\ Skip(IF call.n >= 4 /\ call.from % 4 = 0 /\ call.to % 4 = 0 THEN "words2" ELSE "bytes2")
    /\ UNCHANGED <<call, answer>>

CompareWords ==
    /\ At("words2")
    /\ IF r.end - r.from >= 4 /\ Bytes(r.to, 4) = Bytes(r.from, 4)
       THEN r' = [r EXCEPT !.to = @ + 4, !.from = @ + 4]
       ELSE Goto("bytes2")
    /\ accesses' = IF r.end - r.from >= 4 THEN {Load(r.to, 4), Load(r.from, 4)} ELSE {}
    /\ UNCHANGED <<call, m, answer>>

CompareBytes ==
    /\ At("bytes2")
    /\ IF r.from = r.end
       THEN Skip("done") /\ answer' = 0
       ELSE /\ accesses' = {Load(r.to, 1), Load(r.from, 1)}
            /\ IF Bytes(r.to, 1) # Bytes(r.from, 1)
               THEN Goto("done") /\ answer' = m[r.to] - m[r.from]
               ELSE r' = [r EXCEPT !.to = @ + 1, !.from = @ + 1] /\ UNCHANGED answer
            /\ UNCHANGED m
    /\ UNCHANGED call

-----------------------------------------------------------------------------
Called(c) ==
    /\ call = c /\ m = c.m /\ accesses = {} /\ answer = 0
    /\ r = [pc |-> c.name, to |-> c.to, from |-> c.from, last |-> 0, carry |-> <<>>,
            end |-> (IF c.name = "memset" THEN c.to ELSE c.from) + c.n]

MemoryInit == \E c \in Calls : Called(c)

MemoryNext ==
    \/ MemcpyStart \/ DestinationAligned \/ SourceAligned \/ ShiftedLoop \/ LongLoop
    \/ DestinationOdd \/ OddLoop \/ ByteLoop
    \/ MemmoveStart \/ BackLoop \/ WordLoop
    \/ MemsetStart \/ AlignLoop \/ FillLoop \/ FillByteLoop
    \/ MemcmpStart \/ CompareWords \/ CompareBytes

MemorySpec == MemoryInit /\ [][MemoryNext]_memoryVars

-----------------------------------------------------------------------------
Within(a, from) == from <= a /\ a < from + call.n
Moved == [a \in DOMAIN m |-> IF Within(a, call.to) THEN call.m[call.from + (a - call.to)]
                             ELSE call.m[a]]
Set == [a \in DOMAIN m |-> IF Within(a, call.to) THEN call.from ELSE call.m[a]]
Differences == {i \in 0 .. call.n - 1 : call.m[call.to + i] # call.m[call.from + i]}

(* No load or store of a word is unaligned, which the processor would      *)
(* answer with an address error, no store leaves the destination, and a    *)
(* load reads at most the rest of a word that holds a byte of the source.  *)
AccessesFit ==
    \A a \in accesses :
        /\ a.at % a.width = 0
        /\ a.op = "store" => Within(a.at, call.to) /\ Within(a.at + a.width - 1, call.to)
        /\ a.op = "load" => Within(a.at, call.from) \/ Within(a.at, call.to)

(* A routine that returns has done what string.h says, for every length,   *)
(* every pair of alignments and, for memmove, every overlap, and it has    *)
(* changed no byte around the destination; and none of its accesses on the *)
(* way was one that the processor or the caller could not bear.            *)
DoneAsDefined ==
    /\ AccessesFit
    /\ At("done") =>
           /\ call.name \in {"memcpy", "memmove"} => m = Moved
           /\ call.name = "memset" => m = Set
           /\ call.name = "memcmp" =>
                 /\ m = call.m
                 /\ answer = (IF Differences = {} THEN 0
                              ELSE LET i == CHOOSE i \in Differences : \A j \in Differences : i <= j
                                   IN  call.m[call.to + i] - call.m[call.from + i])
=============================================================================
