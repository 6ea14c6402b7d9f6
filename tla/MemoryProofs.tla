---------------------------- MODULE MemoryProofs ----------------------------
(***************************************************************************)
(* Proofs about what the target does with its memory, in three parts.      *)
(*                                                                         *)
(* Memory, for every length, every alignment, every content of the memory  *)
(* and every overlap string.h allows: the routines do what it says of      *)
(* them, with no access on the way that the processor or the caller could  *)
(* not bear.  The invariant says of each place in the code how much has    *)
(* been done, how much is certainly left, and how the two registers are    *)
(* aligned.                                                                *)
(*                                                                         *)
(* Boot, for images of every size the linker lets through: what is in      *)
(* memory, and what the caches may hold of it, at each part that runs.     *)
(*                                                                         *)
(* Screen, for every font, title and size, cable and depth of the pixels:  *)
(* which pixels are lit after each character.                              *)
(***************************************************************************)
EXTENDS Memory, Boot, Screen, FiniteSetTheorems, SequenceTheorems, TLAPS

Routine(c) ==
    /\ c.name \in {"memcpy", "memmove", "memset", "memcmp"}
    /\ c.n \in Nat /\ c.to \in Nat /\ c.from \in Nat
    /\ DOMAIN c.m \subseteq Nat
    /\ c.m \in [DOMAIN c.m -> Int]
    /\ \A a \in c.to .. c.to + c.n - 1 : a \in DOMAIN c.m
    /\ c.name # "memset" => \A a \in c.from .. c.from + c.n - 1 : a \in DOMAIN c.m
    /\ c.name = "memcpy" => c.from + c.n <= c.to \/ c.to + c.n <= c.from

(* The memory when k bytes have been copied from the front, when all but   *)
(* the first k have been copied from the back, and when k have been set.   *)
Front(k) == [a \in DOMAIN call.m |-> IF call.to <= a /\ a < call.to + k
                                     THEN call.m[call.from + (a - call.to)] ELSE call.m[a]]
Back(k) == [a \in DOMAIN call.m |-> IF call.to + k <= a /\ a < call.to + call.n
                                    THEN call.m[call.from + (a - call.to)] ELSE call.m[a]]
FilledTo(k) == [a \in DOMAIN call.m |-> IF call.to <= a /\ a < call.to + k
                                        THEN call.from ELSE call.m[a]]
AlikeTo(k) == \A i \in 0 .. k - 1 : call.m[call.to + i] = call.m[call.from + i]

(* One access that neither the processor nor the caller minds.             *)
Fit(a) == /\ a.at % a.width = 0
          /\ a.op = "store" => Within(a.at, call.to) /\ Within(a.at + a.width - 1, call.to)
          /\ a.op = "load" => Within(a.at, call.from) \/ Within(a.at, call.to)

(* A copy from the front overwrites nothing that is still to be read.      *)
Harmless == call.to <= call.from \/ call.from + call.n <= call.to

(* The registers are these, in whatever state; the end stays.              *)
Shape(s) == s = [pc |-> s.pc, to |-> s.to, from |-> s.from, last |-> s.last,
                 carry |-> s.carry, end |-> s.end]
Registers ==
    /\ Shape(r)
    /\ r.end = (IF call.name = "memset" THEN call.to ELSE call.from) + call.n

Copied(k) ==
    /\ call.name \in {"memcpy", "memmove"} /\ Harmless
    /\ k \in 0 .. call.n
    /\ r.to = call.to + k /\ r.from = call.from + k
    /\ m = Front(k)

(* memcpy: the loops on words are entered with at most three bytes copied  *)
(* of eleven or more, and go on as long as a whole turn is left.           *)
InEven(k) == /\ call.name = "memcpy" /\ Copied(k) /\ At("even")
             /\ k <= 1 /\ call.n >= 11 /\ r.from % 2 = 0
InAligned(k) == /\ call.name = "memcpy" /\ Copied(k) /\ At("al4dst") /\ k <= 3 /\ call.n >= 11
                /\ r.to % 4 = 0 /\ r.from % 2 = 0 /\ r.last = r.end - 3
InLongs(k) == /\ call.name = "memcpy" /\ Copied(k) /\ At("longs") /\ k + 4 <= call.n
              /\ r.to % 4 = 0 /\ r.from % 4 = 0 /\ r.last = r.end - 3
InOdd(k) == /\ call.name = "memcpy" /\ Copied(k) /\ At("odd") /\ k + 4 <= call.n
            /\ r.to % 2 = 1 /\ r.from % 4 = 0 /\ r.last = r.end - 3
(* The source is two bytes ahead, and these are in carry.                  *)
InShifted(k) ==
    /\ At("shifted") /\ call.name = "memcpy"
    /\ k \in 0 .. call.n /\ k + 8 <= call.n
    /\ r.to = call.to + k /\ r.from = call.from + k + 2
    /\ m = Front(k)
    /\ r.carry = <<call.m[call.from + k], call.m[call.from + k + 1]>>
    /\ r.to % 4 = 0 /\ r.from % 4 = 0 /\ r.last = r.end - 9
InWords(k) == Copied(k) /\ At("words") /\ r.to % 4 = 0 /\ r.from % 4 = 0
InBytes(k) == Copied(k) /\ At("bytes")
InBack(k) ==
    /\ At("back") /\ call.name = "memmove" /\ call.from < call.to
    /\ k \in 0 .. call.n
    /\ r.to = call.to + k /\ r.from = call.from + k
    /\ m = Back(k)
Copying(k) == \/ InEven(k) \/ InAligned(k) \/ InLongs(k) \/ InOdd(k)
              \/ InShifted(k) \/ InWords(k) \/ InBytes(k) \/ InBack(k)

Setting(k) ==
    /\ call.name = "memset"
    /\ k \in 0 .. call.n
    /\ r.to = call.to + k /\ r.from = call.from
    /\ m = FilledTo(k)
    /\ \/ At("align") /\ call.n >= 12 /\ k <= 3 /\ (r.to % 4 # 0 => k < r.to % 4)
       \/ At("fill8") /\ k + 8 <= call.n /\ r.to % 4 = 0
       \/ At("fill")

Comparing(k) ==
    /\ call.name = "memcmp"
    /\ k \in 0 .. call.n
    /\ r.to = call.to + k /\ r.from = call.from + k
    /\ m = call.m /\ answer = 0
    /\ AlikeTo(k)
    /\ \/ At("words2") /\ r.to % 4 = 0 /\ r.from % 4 = 0
       \/ At("bytes2")

Starting ==
    /\ At(call.name)
    /\ r.to = call.to /\ r.from = call.from
    /\ m = call.m /\ answer = 0

Finished == At("done") /\ DoneAsDefined

Stage == \/ Starting
         \/ \E k \in Nat : Copying(k)
         \/ \E k \in Nat : Setting(k)
         \/ \E k \in Nat : Comparing(k)
         \/ Finished

IInv == call \in Calls /\ Registers /\ AccessesFit /\ Stage
-----------------------------------------------------------------------------
(* What is known of a call.                                                *)
LEMMA CallKnown == ASSUME call \in Calls PROVE Routine(call)
<1>1. /\ call.name \in {"memcpy", "memmove", "memset", "memcmp"}
      /\ call.n \in Nat /\ DOMAIN call.m \subseteq Nat
      /\ call.m \in [DOMAIN call.m -> 0..255]
      /\ Lies(call.to, call)
      /\ IF call.name = "memset" THEN call.from \in 0..255 /\ call.to >= 4
         ELSE Lies(call.from, call)
      /\ call.name = "memcpy" => call.from + call.n <= call.to \/ call.to + call.n <= call.from
  BY MemoryAssumption
<1>2. call.m \in [DOMAIN call.m -> Int]
  BY <1>1
<1>3. call.from \in Nat
  BY <1>1 DEF Lies
<1>4. QED
  BY <1>1, <1>2, <1>3 DEF Routine, Lies

(* Bytes of a memory are a sequence of as many.                            *)
LEMMA BytesSeq ==
  ASSUME m \in [DOMAIN m -> Int], NEW at \in Int, NEW n \in Nat
  PROVE  /\ Bytes(at, n) \in Seq(Int)
         /\ Len(Bytes(at, n)) = n
         /\ \A i \in 1..n : at + i - 1 \in DOMAIN m => Bytes(at, n)[i] = m[at + i - 1]
<1>1. Bytes(at, n) \in [1..n -> Int]
  BY DEF Bytes, Outside
<1>2. Bytes(at, n) \in Seq(Int)
  BY <1>1, SeqDef
<1>3. Len(Bytes(at, n)) = n
  BY <1>1, <1>2, LenProperties
<1>4. QED
  BY <1>2, <1>3 DEF Bytes

(* The next w bytes of the source are written behind the k that have been. *)
LEMMA FrontGrows ==
  ASSUME call \in Calls, NEW k \in Nat, m = Front(k), NEW w \in Nat, NEW s,
         Len(s) = w, \A i \in 1..w : s[i] = call.m[call.from + k + (i - 1)]
  PROVE  With(call.to + k, s) = Front(k + w)
<1>1. call.to \in Nat /\ call.from \in Nat /\ DOMAIN call.m \subseteq Nat
  BY CallKnown DEF Routine
<1>2. DOMAIN m = DOMAIN call.m
  BY DEF Front
<1>3. ASSUME NEW a \in DOMAIN call.m
      PROVE  With(call.to + k, s)[a] = Front(k + w)[a]
  <2>1. CASE call.to + k <= a /\ a <= call.to + k + w - 1
    <3>1. With(call.to + k, s)[a] = s[a - (call.to + k) + 1]
      BY <1>1, <1>2, <1>3, <2>1 DEF With
    <3>2. a - (call.to + k) + 1 \in 1..w
      BY <1>1, <1>3, <2>1
    <3>3. s[a - (call.to + k) + 1] = call.m[call.from + k + ((a - (call.to + k) + 1) - 1)]
      BY <3>2
    <3>4. call.from + k + ((a - (call.to + k) + 1) - 1) = call.from + (a - call.to)
      BY <1>1, <1>3
    <3>5. Front(k + w)[a] = call.m[call.from + (a - call.to)]
      BY <1>1, <1>3, <2>1 DEF Front
    <3>6. QED
      BY <3>1, <3>3, <3>4, <3>5
  <2>2. CASE ~(call.to + k <= a /\ a <= call.to + k + w - 1)
    <3>1. With(call.to + k, s)[a] = m[a]
      BY <1>1, <1>2, <1>3, <2>2 DEF With
    <3>2. m[a] = Front(k + w)[a]
      BY <1>1, <1>3, <2>2 DEF Front
    <3>3. QED
      BY <3>1, <3>2
  <2>3. QED
    BY <2>1, <2>2
<1>4. QED
  BY <1>2, <1>3 DEF With, Front

(* The bytes of the source that have still to be copied are what they were *)
(* before the call.                                                        *)
LEMMA SourceKept ==
  ASSUME call \in Calls, call.name # "memset", Harmless, NEW k \in Nat, m = Front(k),
         NEW j \in Nat, k <= j, j < call.n
  PROVE  /\ call.from + j \in DOMAIN m
         /\ m[call.from + j] = call.m[call.from + j]
<1>1. Routine(call)
  BY CallKnown
<1>2. call.from + j \in DOMAIN call.m
  <2>1. call.from + j \in call.from .. call.from + call.n - 1
    BY <1>1 DEF Routine
  <2>2. QED
    BY <1>1, <2>1 DEF Routine
<1>3. ~(call.to <= call.from + j /\ call.from + j < call.to + k)
  BY <1>1 DEF Routine, Harmless
<1>4. QED
  BY <1>2, <1>3 DEF Front
LEMMA BytesKept ==
  ASSUME call \in Calls, call.name # "memset", Harmless, NEW k \in Nat, m = Front(k),
         NEW j \in Nat, k <= j, NEW w \in Nat, j + w <= call.n
  PROVE  /\ Bytes(call.from + j, w) \in Seq(Int)
         /\ Len(Bytes(call.from + j, w)) = w
         /\ \A i \in 1..w : Bytes(call.from + j, w)[i] = call.m[call.from + j + (i - 1)]
<1>1. Routine(call)
  BY CallKnown
<1>2. m \in [DOMAIN m -> Int]
  <2>1. ASSUME NEW a \in DOMAIN call.m, call.to <= a, a < call.to + k
        PROVE  call.from + (a - call.to) \in DOMAIN call.m
    BY <1>1, <2>1 DEF Routine
  <2>2. QED
    BY <1>1, <2>1 DEF Routine, Front
<1>3. call.from + j \in Int
  BY <1>1 DEF Routine
<1>4. /\ Bytes(call.from + j, w) \in Seq(Int)
      /\ Len(Bytes(call.from + j, w)) = w
      /\ \A i \in 1..w : (call.from + j) + i - 1 \in DOMAIN m =>
            Bytes(call.from + j, w)[i] = m[(call.from + j) + i - 1]
  BY <1>2, <1>3, BytesSeq
<1>5. ASSUME NEW i \in 1..w
      PROVE  Bytes(call.from + j, w)[i] = call.m[call.from + j + (i - 1)]
  <2>1. j + (i - 1) \in Nat /\ k <= j + (i - 1) /\ j + (i - 1) < call.n
    BY <1>1 DEF Routine
  <2>2. /\ call.from + (j + (i - 1)) \in DOMAIN m
        /\ m[call.from + (j + (i - 1))] = call.m[call.from + (j + (i - 1))]
    BY <2>1, SourceKept
  <2>3. (call.from + j) + i - 1 = call.from + (j + (i - 1))
        /\ call.from + j + (i - 1) = call.from + (j + (i - 1))
    BY <1>1 DEF Routine
  <2>4. QED
    BY <1>2, <1>4, <2>2, <2>3
<1>6. QED
  BY <1>4, <1>5

(* An even address that is no word's is in the middle of one.              *)
LEMMA HalfWay ==
  ASSUME NEW x \in Nat, x % 2 = 0, x % 4 # 0
  PROVE  x % 4 = 2 /\ (x + 2) % 4 = 0
<1>1. x % 4 = 2
  OBVIOUS
<1>2. QED
  BY <1>1

(* Two bytes in a register.                                                *)
LEMMA Pair ==
  ASSUME call \in Calls, call.name # "memset", Harmless, NEW k \in Nat, m = Front(k),
         NEW j \in Nat, k <= j, j + 2 <= call.n
  PROVE  Bytes(call.from + j, 2) = <<call.m[call.from + j], call.m[call.from + j + 1]>>
<1>1. /\ Bytes(call.from + j, 2) \in Seq(Int)
      /\ Len(Bytes(call.from + j, 2)) = 2
      /\ \A i \in 1..2 : Bytes(call.from + j, 2)[i] = call.m[call.from + j + (i - 1)]
  BY BytesKept
<1>2. call.from \in Nat
  BY CallKnown DEF Routine
<1>3. /\ Bytes(call.from + j, 2)[1] = call.m[call.from + j]
      /\ Bytes(call.from + j, 2)[2] = call.m[call.from + j + 1]
  <2>1. 1 \in 1..2 /\ 2 \in 1..2 /\ call.from + j + (1 - 1) = call.from + j
        /\ call.from + j + (2 - 1) = call.from + j + 1
    BY <1>2
  <2>2. QED
    BY <1>1, <2>1
<1>4. QED
  BY <1>1, <1>3
-----------------------------------------------------------------------------
(* What the steps have in common.                                          *)

(* Stores into the destination, loads from the source.                     *)
LEMMA StoreFits ==
  ASSUME call \in Calls, NEW j \in Nat, NEW w \in 1..4, j + w <= call.n,
         NEW at, at = call.to + j, at % w = 0
  PROVE  Fit(StoreTo(at, w))
<1>1. Routine(call)
  BY CallKnown
<1>2. Within(at, call.to) /\ Within(at + w - 1, call.to)
  BY <1>1 DEF Within, Routine
<1>3. QED
  BY <1>2 DEF Fit, StoreTo
LEMMA LoadFits ==
  ASSUME call \in Calls, NEW j \in Nat, NEW w \in 1..4, j < call.n,
         NEW at, at = call.from + j \/ at = call.to + j, at % w = 0
  PROVE  Fit(Load(at, w))
<1>1. Routine(call)
  BY CallKnown
<1>2. Within(at, call.from) \/ Within(at, call.to)
  BY <1>1 DEF Within, Routine
<1>3. QED
  BY <1>2 DEF Fit, Load

(* What there is to show of a step.                                        *)
LEMMA StepIsGood ==
  ASSUME IInv, call' = call, Shape(r'), r'.end = r.end,
         \A a \in accesses' : Fit(a), Stage'
  PROVE  IInv'
<1>1. Registers'
  BY DEF IInv, Registers
<1>2. AccessesFit'
  BY DEF AccessesFit, Fit, Within
<1>3. QED
  BY <1>1, <1>2 DEF IInv

(* What the place in the code says of the state.                           *)
LEMMA Placed ==
  ASSUME IInv
  PROVE  /\ At("even") => \E k \in Nat : InEven(k)
         /\ At("al4dst") => \E k \in Nat : InAligned(k)
         /\ At("longs") => \E k \in Nat : InLongs(k)
         /\ At("odd") => \E k \in Nat : InOdd(k)
         /\ At("shifted") => \E k \in Nat : InShifted(k)
         /\ At("words") => \E k \in Nat : InWords(k)
         /\ At("bytes") => \E k \in Nat : InBytes(k)
         /\ At("back") => \E k \in Nat : InBack(k)
         /\ r.pc \in {"align", "fill8", "fill"} => \E k \in Nat : Setting(k)
         /\ r.pc \in {"words2", "bytes2"} => \E k \in Nat : Comparing(k)
         /\ r.pc \in {"memcpy", "memmove", "memset", "memcmp"} => Starting
<1>1. call.name \in {"memcpy", "memmove", "memset", "memcmp"}
  BY CallKnown DEF IInv, Routine
<1>2. CASE Starting
  BY <1>1, <1>2 DEF Starting, At
<1>3. CASE \E k \in Nat : Copying(k)
  <2>1. PICK k \in Nat : Copying(k)
    BY <1>3
  <2>2. QED
    BY <2>1 DEF Copying, At, InEven, InAligned, InLongs, InOdd, InShifted, InWords,
                InBytes, InBack
<1>4. CASE \E k \in Nat : Setting(k)
  BY <1>4 DEF Setting, At
<1>5. CASE \E k \in Nat : Comparing(k)
  BY <1>5 DEF Comparing, At
<1>6. CASE Finished
  BY <1>6 DEF Finished, At
<1>7. QED
  BY <1>2, <1>3, <1>4, <1>5, <1>6 DEF IInv, Stage

(* The next w bytes of a copy from the front.                              *)
LEMMA Advances ==
  ASSUME IInv, call' = call, NEW k \in Nat, Copied(k), NEW w \in Nat, k + w <= call.n,
         m' = With(r.to, Bytes(r.from, w)), r'.to = r.to + w, r'.from = r.from + w
  PROVE  Copied(k + w)' /\ k + w \in Nat
<1>1. Routine(call) /\ call \in Calls
  BY CallKnown DEF IInv
<1>2. /\ Bytes(r.from, w) \in Seq(Int)
      /\ Len(Bytes(r.from, w)) = w
      /\ \A i \in 1..w : Bytes(r.from, w)[i] = call.m[call.from + k + (i - 1)]
  <2>1. Harmless /\ m = Front(k) /\ call.name # "memset" /\ r.from = call.from + k
    BY DEF Copied
  <2>2. k <= k
    OBVIOUS
  <2>3. QED
    BY <1>1, <2>1, <2>2, BytesKept
<1>3. With(r.to, Bytes(r.from, w)) = Front(k + w)
  BY <1>1, <1>2, FrontGrows DEF Copied
<1>4. k + w \in 0 .. call.n /\ k + w \in Nat
  BY <1>1 DEF Routine
<1>5. r'.to = call.to + (k + w) /\ r'.from = call.from + (k + w)
  BY <1>1 DEF Copied, Routine
<1>6. m' = Front(k + w)'
  BY <1>3 DEF Front
<1>7. QED
  BY <1>4, <1>5, <1>6 DEF Copied, Harmless

(* A turn that copies one word by one load and one store.                  *)
LEMMA CopyOne ==
  ASSUME Shape(r), r.to \in Int, NEW w, NEW pc, Copy(w, pc)
  PROVE  /\ m' = With(r.to, Bytes(r.from, w))
         /\ accesses' = {Load(r.from, w), StoreTo(r.to, w)}
         /\ Shape(r') /\ r'.end = r.end /\ r'.pc = pc /\ r'.last = r.last
         /\ r'.to = r.to + w /\ r'.from = r.from + w
<1> DEFINE piece == [off |-> 0, width |-> w]
<1>1. /\ m' = With(r.to, Bytes(r.from, w))
      /\ accesses' = {Load(r.from, w)} \cup {StoreTo(r.to + p.off, p.width) : p \in {piece}}
      /\ r' = [r EXCEPT !.pc = pc, !.to = @ + w, !.from = @ + w]
  BY DEF Copy, CopyIn
<1>2. piece.off = 0 /\ piece.width = w
  OBVIOUS
<1> HIDE DEF piece
<1>3. {StoreTo(r.to + p.off, p.width) : p \in {piece}} = {StoreTo(r.to + piece.off, piece.width)}
  OBVIOUS
<1>4. r.to + piece.off = r.to
  BY <1>2
<1>5. QED
  BY <1>1, <1>2, <1>3, <1>4 DEF Shape

(* A step that does nothing but go on elsewhere.                           *)
LEMMA SkipOnly ==
  ASSUME Shape(r), NEW pc, Skip(pc)
  PROVE  /\ m' = m /\ accesses' = {}
         /\ Shape(r') /\ r'.end = r.end /\ r'.pc = pc /\ r'.last = r.last
         /\ r'.to = r.to /\ r'.from = r.from
  BY DEF Skip, Goto, Shape

(* A step that copies nothing.                                             *)
LEMMA StaysCopied ==
  ASSUME NEW k, Copied(k), call' = call, m' = m, r'.to = r.to, r'.from = r.from
  PROVE  Copied(k)'
  BY DEF Copied, Harmless, Front

(* Before anything has been copied or set.                                 *)
LEMMA NothingYet ==
  ASSUME IInv, Starting, call.name \in {"memcpy", "memmove"}, Harmless
  PROVE  Copied(0)
<1>1. Routine(call)
  BY CallKnown DEF IInv
<1>2. call.m = Front(0)
  BY <1>1 DEF Front, Routine
<1>3. QED
  BY <1>1, <1>2 DEF Copied, Starting, Routine

(* What has been done to the memory in the end.                            *)
LEMMA AllMoved ==
  ASSUME call \in Calls, m = Front(call.n) \/ m = Back(0)
  PROVE  m = Moved
<1>1. Routine(call)
  BY CallKnown
<1>2. DOMAIN m = DOMAIN call.m
  BY DEF Front, Back
<1>3. \A a \in DOMAIN call.m : m[a] = Moved[a]
  BY <1>1, <1>2 DEF Front, Back, Moved, Within, Routine
<1>4. QED
  BY <1>2, <1>3 DEF Front, Back, Moved
LEMMA AllSet ==
  ASSUME call \in Calls, m = FilledTo(call.n)
  PROVE  m = Set
<1>1. Routine(call)
  BY CallKnown
<1>2. DOMAIN m = DOMAIN call.m
  BY DEF FilledTo
<1>3. \A a \in DOMAIN call.m : m[a] = Set[a]
  BY <1>1, <1>2 DEF FilledTo, Set, Within, Routine
<1>4. QED
  BY <1>2, <1>3 DEF FilledTo, Set

(* The last step of a routine that returns nothing new.                    *)
LEMMA Finishes ==
  ASSUME IInv, call' = call, m' = m, accesses' = {}, Shape(r'), r'.end = r.end, r'.pc = "done",
         \/ call.name \in {"memcpy", "memmove"} /\ (m = Front(call.n) \/ m = Back(0))
         \/ call.name = "memset" /\ m = FilledTo(call.n)
  PROVE  IInv'
<1>1. call \in Calls
  BY DEF IInv
<1>2. /\ call.name \in {"memcpy", "memmove"} => m = Moved
      /\ call.name = "memset" => m = Set
      /\ call.name # "memcmp"
  BY <1>1, AllMoved, AllSet
<1>3. AccessesFit'
  BY DEF AccessesFit
<1>4. Moved' = Moved /\ Set' = Set
  BY DEF Moved, Set, Within
<1>5. DoneAsDefined'
  BY <1>2, <1>3, <1>4 DEF DoneAsDefined
<1>6. Stage'
  BY <1>5 DEF Stage, Finished, At
<1>7. QED
  BY <1>6, StepIsGood
-----------------------------------------------------------------------------
(* memcpy *)
LEMMA MemcpyStartKeeps == ASSUME IInv, MemcpyStart PROVE IInv'
<1>1. /\ Routine(call) /\ call \in Calls /\ Starting /\ call.name = "memcpy"
      /\ Shape(r) /\ call' = call
  BY CallKnown, Placed DEF MemcpyStart, At, IInv, Starting, Registers
<1>2. Harmless
  BY <1>1 DEF Routine, Harmless
<1>3. Copied(0)
  BY <1>1, <1>2, NothingYet
<1>4. CASE call.n < 11
  <2>1. r' = [r EXCEPT !.pc = "bytes"] /\ accesses' = {} /\ m' = m
    BY <1>4 DEF MemcpyStart, Skip, Goto
  <2>2. Shape(r') /\ r'.end = r.end /\ r'.pc = "bytes" /\ r'.to = r.to /\ r'.from = r.from
    BY <1>1, <2>1 DEF Shape
  <2>3. InBytes(0)'
    BY <1>1, <1>3, <2>1, <2>2, StaysCopied DEF InBytes, At
  <2>4. Stage'
    BY <2>3 DEF Stage, Copying
  <2>5. QED
    BY <1>1, <2>1, <2>2, <2>4, StepIsGood
<1>5. CASE call.n >= 11 /\ r.from % 2 = 1
  <2>1. Copy(1, "even") /\ r.to \in Int
    BY <1>1, <1>5 DEF MemcpyStart, Routine, Starting
  <2>2. /\ m' = With(r.to, Bytes(r.from, 1))
        /\ accesses' = {Load(r.from, 1), StoreTo(r.to, 1)}
        /\ Shape(r') /\ r'.end = r.end /\ r'.pc = "even"
        /\ r'.to = r.to + 1 /\ r'.from = r.from + 1
    BY <1>1, <2>1, CopyOne
  <2>3. Copied(1)'
    <3>1. 0 + 1 <= call.n /\ 0 + 1 = 1
      BY <1>5, <1>1 DEF Routine
    <3>2. Copied(0 + 1)'
      BY <1>1, <1>3, <2>1, <2>2, <3>1, Advances
    <3>3. QED
      BY <3>1, <3>2
  <2>4. InEven(1)'
    BY <1>1, <1>5, <2>2, <2>3 DEF InEven, At, Starting, Routine
  <2>5. Stage'
    BY <2>4 DEF Stage, Copying
  <2>6. Fit(Load(r.from, 1)) /\ Fit(StoreTo(r.to, 1))
    BY <1>1, <1>5, LoadFits, StoreFits DEF Starting, Routine
  <2>7. QED
    BY <1>1, <2>1, <2>2, <2>5, <2>6, StepIsGood
<1>6. CASE call.n >= 11 /\ r.from % 2 # 1
  <2>1. r' = [r EXCEPT !.pc = "even"] /\ accesses' = {} /\ m' = m
    BY <1>1, <1>6 DEF MemcpyStart, Skip, Goto, Routine
  <2>2. Shape(r') /\ r'.end = r.end /\ r'.pc = "even" /\ r'.to = r.to /\ r'.from = r.from
    BY <1>1, <2>1 DEF Shape
  <2>3. InEven(0)'
    BY <1>1, <1>3, <1>6, <2>1, <2>2, StaysCopied DEF InEven, At, Starting, Routine
  <2>4. Stage'
    BY <2>3 DEF Stage, Copying
  <2>5. QED
    BY <1>1, <2>1, <2>2, <2>4, StepIsGood
<1>7. QED
  BY <1>1, <1>4, <1>5, <1>6 DEF Routine

(* What is known at every place in a routine that copies.                  *)
LEMMA InRoutine ==
    ASSUME IInv, call.name # "memset"
    PROVE  /\ Routine(call) /\ call \in Calls /\ Shape(r) /\ r.end = call.from + call.n
           /\ call.n \in Nat /\ call.to \in Nat /\ call.from \in Nat
<1>1. call \in Calls /\ Registers
  BY DEF IInv
<1>2. Routine(call)
  BY <1>1, CallKnown
<1>3. call.n \in Nat /\ call.to \in Nat /\ call.from \in Nat
  BY <1>2 DEF Routine
<1>4. Shape(r) /\ r.end = call.from + call.n
  BY <1>1 DEF Registers
<1>5. QED
  BY <1>1, <1>2, <1>3, <1>4

LEMMA WhileCopying ==
    ASSUME IInv, NEW k \in Nat, Copied(k)
    PROVE  /\ Routine(call) /\ call \in Calls /\ Shape(r) /\ r.end = call.from + call.n
           /\ r.to = call.to + k /\ r.from = call.from + k /\ r.to \in Nat /\ r.from \in Nat
<1>1. call.name # "memset" /\ r.to = call.to + k /\ r.from = call.from + k
  BY DEF Copied
<1>2. /\ Routine(call) /\ call \in Calls /\ Shape(r) /\ r.end = call.from + call.n
      /\ call.n \in Nat /\ call.to \in Nat /\ call.from \in Nat
  BY <1>1, InRoutine
<1>3. r.to \in Nat /\ r.from \in Nat
  BY <1>1, <1>2
<1>4. QED
  BY <1>1, <1>2, <1>3

LEMMA DestinationAlignedKeeps == ASSUME IInv, DestinationAligned PROVE IInv'
<1>1. PICK k \in Nat : InEven(k)
  BY Placed DEF DestinationAligned
<1>2. /\ Routine(call) /\ call \in Calls /\ Shape(r) /\ call' = call
      /\ Copied(k) /\ k <= 1 /\ call.n >= 11 /\ r.from % 2 = 0 /\ r.to % 2 = 0
      /\ call.name = "memcpy" /\ r.to \in Nat /\ r.from \in Nat
      /\ r.end = call.from + call.n
  <2>1. /\ call.name = "memcpy" /\ Copied(k) /\ k <= 1 /\ call.n >= 11 /\ r.from % 2 = 0
    BY <1>1 DEF InEven
  <2>2. /\ Routine(call) /\ call \in Calls /\ Shape(r) /\ r.end = call.from + call.n
        /\ r.to = call.to + k /\ r.from = call.from + k /\ r.to \in Nat /\ r.from \in Nat
    BY <2>1, WhileCopying
  <2>3. call' = call /\ r.to % 2 = 0
    BY DEF DestinationAligned
  <2>4. QED
    BY <2>1, <2>2, <2>3
<1>3. CASE r.to % 4 = 2
  <2>1. /\ m' = With(r.to, Bytes(r.from, 2))
        /\ accesses' = {Load(r.from, 2), StoreTo(r.to, 2)}
        /\ r' = [r EXCEPT !.pc = "al4dst", !.last = LongsEnd(r.end), !.to = @ + 2, !.from = @ + 2]
    BY <1>3 DEF DestinationAligned
  <2>2. /\ Shape(r') /\ r'.end = r.end /\ r'.pc = "al4dst" /\ r'.last = r.end - 3
        /\ r'.to = r.to + 2 /\ r'.from = r.from + 2
    BY <1>2, <2>1 DEF Shape, LongsEnd
  <2>3. k + 2 <= call.n
    BY <1>2 DEF Routine
  <2>4. Copied(k + 2)' /\ k + 2 \in Nat
    BY <1>2, <2>1, <2>2, <2>3, Advances
  <2>5. (r.to + 2) % 4 = 0 /\ (r.from + 2) % 2 = 0
    BY <1>2, <1>3
  <2>6. InAligned(k + 2)'
    BY <1>2, <2>2, <2>4, <2>5 DEF InAligned, At
  <2>7. Stage'
    BY <2>4, <2>6 DEF Stage, Copying
  <2>8. Fit(Load(r.from, 2)) /\ Fit(StoreTo(r.to, 2))
    <3>1. k < call.n /\ r.from = call.from + k /\ r.to = call.to + k
      BY <1>2 DEF Copied, Routine
    <3>2. QED
      BY <1>2, <2>3, <3>1, LoadFits, StoreFits
  <2>9. QED
    BY <1>2, <2>1, <2>2, <2>7, <2>8, StepIsGood
<1>4. CASE r.to % 4 # 2
  <2>1. m' = m /\ accesses' = {} /\ r' = [r EXCEPT !.pc = "al4dst", !.last = LongsEnd(r.end)]
    BY <1>4 DEF DestinationAligned
  <2>2. /\ Shape(r') /\ r'.end = r.end /\ r'.pc = "al4dst" /\ r'.last = r.end - 3
        /\ r'.to = r.to /\ r'.from = r.from
    BY <1>2, <2>1 DEF Shape, LongsEnd
  <2>3. Copied(k)'
    BY <1>2, <2>1, <2>2, StaysCopied
  <2>4. r.to % 4 = 0
    BY <1>2, <1>4
  <2>5. InAligned(k)'
    BY <1>2, <2>2, <2>3, <2>4 DEF InAligned, At
  <2>6. Stage'
    BY <2>5 DEF Stage, Copying
  <2>7. QED
    BY <1>2, <2>1, <2>2, <2>6, StepIsGood
<1>5. QED
  BY <1>3, <1>4

LEMMA SourceAlignedKeeps == ASSUME IInv, SourceAligned PROVE IInv'
<1>1. PICK k \in Nat : InAligned(k)
  BY Placed DEF SourceAligned
<1>2. /\ Routine(call) /\ call \in Calls /\ Shape(r) /\ call' = call
      /\ Copied(k) /\ k <= 3 /\ call.n >= 11 /\ r.from % 2 = 0 /\ r.to % 4 = 0
      /\ r.last = r.end - 3 /\ call.name = "memcpy" /\ r.to \in Nat /\ r.from \in Nat
      /\ r.end = call.from + call.n
  <2>1. /\ call.name = "memcpy" /\ Copied(k) /\ k <= 3 /\ call.n >= 11
        /\ r.to % 4 = 0 /\ r.from % 2 = 0 /\ r.last = r.end - 3
    BY <1>1 DEF InAligned
  <2>2. /\ Routine(call) /\ call \in Calls /\ Shape(r) /\ r.end = call.from + call.n
        /\ r.to = call.to + k /\ r.from = call.from + k /\ r.to \in Nat /\ r.from \in Nat
    BY <2>1, WhileCopying
  <2>3. call' = call
    BY DEF SourceAligned
  <2>4. QED
    BY <2>1, <2>2, <2>3
<1>3. CASE r.from % 4 = 0
  <2>1. Skip("longs")
    BY <1>3 DEF SourceAligned
  <2>2. /\ m' = m /\ accesses' = {}
        /\ Shape(r') /\ r'.end = r.end /\ r'.pc = "longs" /\ r'.last = r.last
        /\ r'.to = r.to /\ r'.from = r.from
    BY <1>2, <2>1, SkipOnly
  <2>3. Copied(k)'
    BY <1>2, <2>2, StaysCopied
  <2>4. k + 4 <= call.n
    BY <1>2 DEF Routine
  <2>5. InLongs(k)'
    BY <1>2, <1>3, <2>2, <2>3, <2>4 DEF InLongs, At
  <2>6. Stage'
    BY <2>5 DEF Stage, Copying
  <2>7. QED
    BY <1>2, <2>2, <2>6, StepIsGood
<1>4. CASE r.from % 4 # 0
  <2>1. /\ m' = m /\ accesses' = {Load(r.from, 2)}
        /\ r' = [r EXCEPT !.pc = "shifted", !.from = @ + 2, !.last = @ - 6,
                    !.carry = Bytes(r.from, 2)]
    BY <1>4 DEF SourceAligned
  <2>2. /\ Shape(r') /\ r'.end = r.end /\ r'.pc = "shifted" /\ r'.last = r.end - 9
        /\ r'.to = r.to /\ r'.from = r.from + 2 /\ r'.carry = Bytes(r.from, 2)
    <3>1. (r.end - 3) - 6 = r.end - 9
      BY <1>2 DEF Routine
    <3>2. QED
      BY <1>2, <2>1, <3>1 DEF Shape
  <2>3. /\ r.from = call.from + k /\ r.to = call.to + k /\ k \in 0..call.n
        /\ k < call.n /\ k + 2 <= call.n /\ k + 8 <= call.n /\ Harmless /\ m = Front(k)
    BY <1>2 DEF Copied, Routine
  <2>4. Bytes(r.from, 2) = <<call.m[call.from + k], call.m[call.from + k + 1]>>
    BY <1>2, <2>3, Pair
  <2>5. (r.from + 2) % 4 = 0
    BY <1>2, <1>4, HalfWay
  <2>6. InShifted(k)'
    <3>1. call.name = "memcpy"
      BY <1>1 DEF InAligned
    <3>2. r.from + 2 = call.from + k + 2
      BY <2>3
    <3>3. m' = Front(k)'
      BY <1>2, <2>1, <2>3 DEF Front
    <3>4. r'.carry = <<call.m[call.from + k], call.m[call.from + k + 1]>>
      BY <2>2, <2>4
    <3>5. QED
      BY <1>2, <2>2, <2>3, <2>5, <3>1, <3>2, <3>3, <3>4 DEF InShifted, At
  <2>7. Stage'
    BY <2>6 DEF Stage, Copying
  <2>8. Fit(Load(r.from, 2))
    BY <1>2, <2>3, LoadFits
  <2>9. QED
    BY <1>2, <2>1, <2>2, <2>7, <2>8, StepIsGood
<1>5. QED
  BY <1>3, <1>4

(* What two turns of the shifted loop share: the bytes written are those   *)
(* carried over and six of the eight that are read.                        *)
LEMMA ShiftedBytes ==
  ASSUME call \in Calls, NEW k \in Nat, InShifted(k)
  PROVE  /\ With(r.to, r.carry \o Bytes(r.from, 6)) = Front(k + 8)
         /\ k + 10 <= call.n =>
               Bytes(r.from + 6, 2) = <<call.m[call.from + (k + 8)], call.m[call.from + (k + 8) + 1]>>
<1>1. Routine(call) /\ call.name = "memcpy"
  BY CallKnown DEF InShifted
<1>2. Harmless
  BY <1>1 DEF Routine, Harmless
<1>3. /\ r.from = call.from + (k + 2) /\ r.to = call.to + k /\ k + 8 <= call.n
      /\ m = Front(k) /\ k <= k + 2 /\ (k + 2) + 6 <= call.n /\ k + 2 \in Nat
      /\ r.from + 6 = call.from + (k + 8)
  BY <1>1 DEF InShifted, Routine
<1>4. /\ Bytes(r.from, 6) \in Seq(Int) /\ Len(Bytes(r.from, 6)) = 6
      /\ \A i \in 1..6 : Bytes(r.from, 6)[i] = call.m[call.from + (k + 2) + (i - 1)]
  <2>1. call.name # "memset"
    BY <1>1
  <2>2. /\ Bytes(call.from + (k + 2), 6) \in Seq(Int)
        /\ Len(Bytes(call.from + (k + 2), 6)) = 6
        /\ \A i \in 1..6 :
              Bytes(call.from + (k + 2), 6)[i] = call.m[call.from + (k + 2) + (i - 1)]
    <3> DEFINE j == k + 2
               w == 6
    <3>1. j \in Nat /\ k <= j /\ w \in Nat /\ j + w <= call.n
      BY <1>3
    <3> HIDE DEF j, w
    <3>2. /\ Bytes(call.from + j, w) \in Seq(Int)
          /\ Len(Bytes(call.from + j, w)) = w
          /\ \A i \in 1..w : Bytes(call.from + j, w)[i] = call.m[call.from + j + (i - 1)]
      BY <1>2, <1>3, <2>1, <3>1, BytesKept
    <3>3. QED
      BY <3>2 DEF j, w
  <2>3. QED
    BY <1>3, <2>2
<1> DEFINE a == call.m[call.from + k]
           b == call.m[call.from + k + 1]
           bytes == Bytes(r.from, 6)
           s == <<a, b>> \o bytes
<1>5. r.carry = <<a, b>> /\ a \in Int /\ b \in Int
  <2>1. call.from + k \in call.from .. call.from + call.n - 1
        /\ call.from + k + 1 \in call.from .. call.from + call.n - 1
    BY <1>1, <1>3 DEF Routine
  <2>2. call.from + k \in DOMAIN call.m /\ call.from + k + 1 \in DOMAIN call.m
    BY <1>1, <2>1 DEF Routine
  <2>3. QED
    BY <1>1, <2>2 DEF InShifted, Routine
<1>6. Len(s) = 8 /\ s[1] = a /\ s[2] = b /\ \A i \in 3..8 : s[i] = bytes[i - 2]
  <2> HIDE DEF a, b, bytes
  <2>1. <<a, b>> \in Seq(Int) /\ Len(<<a, b>>) = 2 /\ bytes \in Seq(Int) /\ Len(bytes) = 6
    BY <1>4, <1>5 DEF bytes
  <2>2. /\ Len(s) = Len(<<a, b>>) + Len(bytes)
        /\ \A i \in 1 .. Len(<<a, b>>) + Len(bytes) :
              s[i] = IF i <= Len(<<a, b>>) THEN <<a, b>>[i] ELSE bytes[i - Len(<<a, b>>)]
    BY <2>1, ConcatProperties
  <2>3. QED
    BY <2>1, <2>2
<1>7. \A i \in 1..8 : s[i] = call.m[call.from + k + (i - 1)]
  <2> SUFFICES ASSUME NEW i \in 1..8 PROVE s[i] = call.m[call.from + k + (i - 1)]
    OBVIOUS
  <2>1. CASE i = 1
    <3>1. call.from + k + (i - 1) = call.from + k
      BY <1>1, <2>1 DEF Routine
    <3>2. QED
      BY <1>6, <2>1, <3>1
  <2>2. CASE i = 2
    <3>1. call.from + k + (i - 1) = call.from + k + 1
      BY <1>1, <2>2 DEF Routine
    <3>2. QED
      BY <1>6, <2>2, <3>1
  <2>3. CASE i \in 3..8
    <3>1. i - 2 \in 1..6 /\ call.from + (k + 2) + ((i - 2) - 1) = call.from + k + (i - 1)
      BY <1>1, <2>3 DEF Routine
    <3>2. s[i] = bytes[i - 2]
      BY <1>6, <2>3
    <3>3. bytes[i - 2] = call.m[call.from + (k + 2) + ((i - 2) - 1)]
      BY <1>4, <3>1
    <3>4. QED
      BY <3>1, <3>2, <3>3
  <2>4. i = 1 \/ i = 2 \/ i \in 3..8
    OBVIOUS
  <2> HIDE DEF s, a, b, bytes
  <2>5. QED
    BY <2>1, <2>2, <2>3, <2>4
<1>8. With(r.to, r.carry \o Bytes(r.from, 6)) = Front(k + 8)
  <2> HIDE DEF s
  <2>1. With(call.to + k, s) = Front(k + 8)
    BY <1>3, <1>6, <1>7, FrontGrows
  <2>2. QED
    BY <1>3, <1>5, <2>1 DEF s
<1>9. ASSUME k + 10 <= call.n
      PROVE  Bytes(r.from + 6, 2) = <<call.m[call.from + (k + 8)], call.m[call.from + (k + 8) + 1]>>
  <2>1. call.name # "memset" /\ k <= k + 8 /\ (k + 8) + 2 <= call.n /\ k + 8 \in Nat
    BY <1>1, <1>9 DEF Routine
  <2>2. QED
    BY <1>2, <1>3, <2>1, Pair
<1>10. QED
  BY <1>8, <1>9

LEMMA ShiftedLoopKeeps == ASSUME IInv, ShiftedLoop PROVE IInv'
<1>1. PICK k \in Nat : InShifted(k)
  BY Placed DEF ShiftedLoop
<1>2. /\ Routine(call) /\ call \in Calls /\ Shape(r) /\ call' = call /\ call.name = "memcpy"
      /\ k + 8 <= call.n /\ r.to = call.to + k /\ r.from = call.from + k + 2
      /\ r.to % 4 = 0 /\ r.from % 4 = 0 /\ r.last = r.end - 9 /\ r.end = call.from + call.n
      /\ r.to \in Nat /\ r.from \in Nat
  <2>1. /\ call.name = "memcpy" /\ k \in 0 .. call.n /\ k + 8 <= call.n
        /\ r.to = call.to + k /\ r.from = call.from + k + 2
        /\ r.to % 4 = 0 /\ r.from % 4 = 0 /\ r.last = r.end - 9
    BY <1>1 DEF InShifted
  <2>2. Routine(call) /\ call \in Calls /\ Shape(r) /\ r.end = call.from + call.n
        /\ call.n \in Nat /\ call.to \in Nat /\ call.from \in Nat
    BY <2>1, InRoutine
  <2>3. call' = call
    BY DEF ShiftedLoop
  <2>4. r.to \in Nat /\ r.from \in Nat
    BY <2>1, <2>2
  <2>5. QED
    BY <2>1, <2>2, <2>3, <2>4
<1>3. Harmless
  BY <1>2 DEF Routine, Harmless
<1>4. m' = Front(k + 8)
  BY <1>1, <1>2, ShiftedBytes DEF ShiftedLoop
<1>5. \A a \in accesses' : Fit(a)
  <2>1. accesses' = {Load(r.from, 4), Load(r.from + 4, 4), StoreTo(r.to, 4), StoreTo(r.to + 4, 4)}
    BY DEF ShiftedLoop
  <2>2. (r.from + 4) % 4 = 0 /\ (r.to + 4) % 4 = 0
    BY <1>2
  <2>3. /\ k + 2 \in Nat /\ k + 2 < call.n /\ r.from = call.from + (k + 2)
        /\ k + 6 \in Nat /\ k + 6 < call.n /\ r.from + 4 = call.from + (k + 6)
        /\ k + 4 <= call.n /\ k + 4 \in Nat /\ (k + 4) + 4 <= call.n
        /\ r.to + 4 = call.to + (k + 4)
    BY <1>2 DEF Routine
  <2>4. Fit(Load(r.from, 4)) /\ Fit(Load(r.from + 4, 4))
    BY <1>2, <2>2, <2>3, LoadFits
  <2>5. Fit(StoreTo(r.to, 4)) /\ Fit(StoreTo(r.to + 4, 4))
    BY <1>2, <2>2, <2>3, StoreFits
  <2>6. QED
    BY <2>1, <2>4, <2>5
<1>6. /\ Shape(r') /\ r'.end = r.end /\ r'.to = r.to + 8 /\ r'.last = r.last
      /\ r'.carry = Bytes(r.from + 6, 2)
      /\ r'.pc = IF r.from + 4 >= r.last THEN "bytes" ELSE "shifted"
      /\ r'.from = IF r.from + 4 >= r.last THEN r.from + 6 ELSE r.from + 8
  BY <1>2 DEF ShiftedLoop, Shape
<1>7. k + 8 \in Nat /\ k + 8 \in 0..call.n /\ r.to + 8 = call.to + (k + 8) /\ m' = Front(k + 8)'
  <2>1. k + 8 \in Nat /\ k + 8 \in 0..call.n /\ r.to + 8 = call.to + (k + 8)
    BY <1>2 DEF Routine
  <2>2. m' = Front(k + 8)'
    BY <1>2, <1>4 DEF Front
  <2>3. QED
    BY <2>1, <2>2
<1>8. CASE r.from + 4 >= r.last
  <2>1. r.from + 6 = call.from + (k + 8)
    BY <1>2 DEF Routine
  <2>2. Copied(k + 8)'
    BY <1>2, <1>3, <1>6, <1>7, <1>8, <2>1 DEF Copied, Harmless
  <2>3. Stage'
    BY <1>6, <1>7, <1>8, <2>2 DEF Stage, Copying, InBytes, At
  <2>4. QED
    BY <1>2, <1>5, <1>6, <2>3, StepIsGood
<1>9. CASE ~(r.from + 4 >= r.last)
  <2>1. k + 16 <= call.n /\ k + 10 <= call.n /\ (k + 8) + 8 <= call.n
        /\ r.from + 8 = call.from + (k + 8) + 2
    BY <1>2, <1>9 DEF Routine
  <2>2. (r.to + 8) % 4 = 0 /\ (r.from + 8) % 4 = 0
    BY <1>2
  <2>3. r'.carry = <<call.m[call.from + (k + 8)], call.m[call.from + (k + 8) + 1]>>
    BY <1>1, <1>2, <1>6, <2>1, ShiftedBytes
  <2>4. InShifted(k + 8)'
    BY <1>2, <1>6, <1>7, <1>9, <2>1, <2>2, <2>3 DEF InShifted, At
  <2>5. Stage'
    BY <1>7, <2>4 DEF Stage, Copying
  <2>6. QED
    BY <1>2, <1>5, <1>6, <2>5, StepIsGood
<1>10. QED
  BY <1>8, <1>9

LEMMA LongLoopKeeps == ASSUME IInv, LongLoop PROVE IInv'
<1>1. PICK k \in Nat : InLongs(k)
  BY Placed DEF LongLoop
<1>2. /\ Routine(call) /\ call \in Calls /\ Shape(r) /\ call' = call /\ call.name = "memcpy"
      /\ Copied(k) /\ k + 4 <= call.n /\ r.to = call.to + k /\ r.from = call.from + k
      /\ r.to % 4 = 0 /\ r.from % 4 = 0 /\ r.last = r.end - 3 /\ r.end = call.from + call.n
      /\ r.to \in Nat /\ r.from \in Nat
  <2>1. /\ call.name = "memcpy" /\ Copied(k) /\ k + 4 <= call.n
        /\ r.to % 4 = 0 /\ r.from % 4 = 0 /\ r.last = r.end - 3
    BY <1>1 DEF InLongs
  <2>2. /\ Routine(call) /\ call \in Calls /\ Shape(r) /\ r.end = call.from + call.n
        /\ r.to = call.to + k /\ r.from = call.from + k /\ r.to \in Nat /\ r.from \in Nat
    BY <2>1, WhileCopying
  <2>3. call' = call
    BY DEF LongLoop
  <2>4. QED
    BY <2>1, <2>2, <2>3
<1> DEFINE then == IF r.from + 4 >= r.last THEN "bytes" ELSE "longs"
<1>3. Copy(4, then)
  BY DEF LongLoop
<1>4. /\ m' = With(r.to, Bytes(r.from, 4))
      /\ accesses' = {Load(r.from, 4), StoreTo(r.to, 4)}
      /\ Shape(r') /\ r'.end = r.end /\ r'.pc = then /\ r'.last = r.last
      /\ r'.to = r.to + 4 /\ r'.from = r.from + 4
  <2> HIDE DEF then
  <2>1. QED
    BY <1>2, <1>3, CopyOne
<1>5. Copied(k + 4)' /\ k + 4 \in Nat
  BY <1>2, <1>4, Advances
<1>6. Fit(Load(r.from, 4)) /\ Fit(StoreTo(r.to, 4))
  <2>1. k < call.n
    BY <1>2 DEF Routine
  <2>2. QED
    BY <1>2, <2>1, LoadFits, StoreFits
<1>7. Stage'
  <2>1. CASE r.from + 4 >= r.last
    BY <1>4, <1>5, <2>1 DEF Stage, Copying, InBytes, At
  <2>2. CASE ~(r.from + 4 >= r.last)
    <3>1. (k + 4) + 4 <= call.n
      BY <1>2, <2>2 DEF Routine
    <3>2. (r.to + 4) % 4 = 0 /\ (r.from + 4) % 4 = 0
      BY <1>2
    <3>3. InLongs(k + 4)'
      BY <1>2, <1>4, <1>5, <2>2, <3>1, <3>2 DEF InLongs, At
    <3>4. QED
      BY <1>5, <3>3 DEF Stage, Copying
  <2>3. QED
    BY <2>1, <2>2
<1>8. QED
  BY <1>2, <1>4, <1>6, <1>7, StepIsGood

LEMMA DestinationOddKeeps == ASSUME IInv, DestinationOdd PROVE IInv'
<1>1. PICK k \in Nat : InEven(k)
  BY Placed DEF DestinationOdd
<1>2. /\ Routine(call) /\ call \in Calls /\ Shape(r) /\ call' = call /\ call.name = "memcpy"
      /\ Copied(k) /\ k <= 1 /\ call.n >= 11 /\ r.from % 2 = 0 /\ r.to % 2 = 1
      /\ r.to \in Nat /\ r.from \in Nat /\ r.to = call.to + k /\ r.from = call.from + k
      /\ r.end = call.from + call.n
  <2>1. /\ call.name = "memcpy" /\ Copied(k) /\ k <= 1 /\ call.n >= 11 /\ r.from % 2 = 0
    BY <1>1 DEF InEven
  <2>2. /\ Routine(call) /\ call \in Calls /\ Shape(r) /\ r.end = call.from + call.n
        /\ r.to = call.to + k /\ r.from = call.from + k /\ r.to \in Nat /\ r.from \in Nat
    BY <2>1, WhileCopying
  <2>3. call' = call /\ r.to % 2 = 1
    BY DEF DestinationOdd
  <2>4. QED
    BY <2>1, <2>2, <2>3
<1>3. CASE r.from % 4 = 2
  <2>1. /\ m' = With(r.to, Bytes(r.from, 2))
        /\ accesses' = {Load(r.from, 2), StoreTo(r.to, 1), StoreTo(r.to + 1, 1)}
        /\ r' = [r EXCEPT !.pc = "odd", !.last = LongsEnd(r.end), !.to = @ + 2, !.from = @ + 2]
    BY <1>3 DEF DestinationOdd
  <2>2. /\ Shape(r') /\ r'.end = r.end /\ r'.pc = "odd" /\ r'.last = r.end - 3
        /\ r'.to = r.to + 2 /\ r'.from = r.from + 2
    BY <1>2, <2>1 DEF Shape, LongsEnd
  <2>3. k + 2 <= call.n /\ (k + 2) + 4 <= call.n
    BY <1>2 DEF Routine
  <2>4. Copied(k + 2)' /\ k + 2 \in Nat
    BY <1>2, <2>1, <2>2, <2>3, Advances
  <2>5. (r.to + 2) % 2 = 1 /\ (r.from + 2) % 4 = 0
    BY <1>2, <1>3
  <2>6. InOdd(k + 2)'
    BY <1>2, <2>2, <2>3, <2>4, <2>5 DEF InOdd, At
  <2>7. Stage'
    BY <2>4, <2>6 DEF Stage, Copying
  <2>8. Fit(Load(r.from, 2)) /\ Fit(StoreTo(r.to, 1)) /\ Fit(StoreTo(r.to + 1, 1))
    <3>1. k < call.n /\ k + 1 <= call.n /\ k + 1 \in Nat /\ (k + 1) + 1 <= call.n
          /\ r.to + 1 = call.to + (k + 1) /\ r.to % 1 = 0 /\ (r.to + 1) % 1 = 0
      BY <1>2 DEF Routine
    <3>2. QED
      BY <1>2, <3>1, LoadFits, StoreFits
  <2>9. QED
    BY <1>2, <2>1, <2>2, <2>7, <2>8, StepIsGood
<1>4. CASE r.from % 4 # 2
  <2>1. m' = m /\ accesses' = {} /\ r' = [r EXCEPT !.pc = "odd", !.last = LongsEnd(r.end)]
    BY <1>4 DEF DestinationOdd
  <2>2. /\ Shape(r') /\ r'.end = r.end /\ r'.pc = "odd" /\ r'.last = r.end - 3
        /\ r'.to = r.to /\ r'.from = r.from
    BY <1>2, <2>1 DEF Shape, LongsEnd
  <2>3. Copied(k)'
    BY <1>2, <2>1, <2>2, StaysCopied
  <2>4. r.from % 4 = 0 /\ k + 4 <= call.n
    <3>1. \A x \in Nat : x % 2 = 0 /\ x % 4 # 2 => x % 4 = 0
      OBVIOUS
    <3>2. r.from % 4 = 0
      BY <1>2, <1>4, <3>1
    <3>3. call.n \in Nat
      BY <1>2 DEF Routine
    <3>4. QED
      BY <1>2, <3>2, <3>3
  <2>5. InOdd(k)'
    BY <1>2, <2>2, <2>3, <2>4 DEF InOdd, At
  <2>6. Stage'
    BY <2>5 DEF Stage, Copying
  <2>7. QED
    BY <1>2, <2>1, <2>2, <2>6, StepIsGood
<1>5. QED
  BY <1>3, <1>4

LEMMA OddLoopKeeps == ASSUME IInv, OddLoop PROVE IInv'
<1>1. PICK k \in Nat : InOdd(k)
  BY Placed DEF OddLoop
<1>2. /\ Routine(call) /\ call \in Calls /\ Shape(r) /\ call' = call /\ call.name = "memcpy"
      /\ Copied(k) /\ k + 4 <= call.n /\ r.to = call.to + k /\ r.from = call.from + k
      /\ r.to % 2 = 1 /\ r.from % 4 = 0 /\ r.last = r.end - 3 /\ r.end = call.from + call.n
      /\ r.to \in Nat /\ r.from \in Nat
  <2>1. /\ call.name = "memcpy" /\ Copied(k) /\ k + 4 <= call.n
        /\ r.to % 2 = 1 /\ r.from % 4 = 0 /\ r.last = r.end - 3
    BY <1>1 DEF InOdd
  <2>2. /\ Routine(call) /\ call \in Calls /\ Shape(r) /\ r.end = call.from + call.n
        /\ r.to = call.to + k /\ r.from = call.from + k /\ r.to \in Nat /\ r.from \in Nat
    BY <2>1, WhileCopying
  <2>3. call' = call
    BY DEF OddLoop
  <2>4. QED
    BY <2>1, <2>2, <2>3
<1> DEFINE parts == {[off |-> 0, width |-> 1], [off |-> 1, width |-> 2], [off |-> 3, width |-> 1]}
<1>3. /\ m' = With(r.to, Bytes(r.from, 4))
      /\ accesses' = {Load(r.from, 4)} \cup {StoreTo(r.to + p.off, p.width) : p \in parts}
      /\ r' = [r EXCEPT !.pc = IF r.from + 4 >= r.last THEN "bytes" ELSE "odd",
                  !.to = @ + 4, !.from = @ + 4]
  BY DEF OddLoop, CopyIn
<1>4. /\ Shape(r') /\ r'.end = r.end /\ r'.last = r.last
      /\ r'.pc = IF r.from + 4 >= r.last THEN "bytes" ELSE "odd"
      /\ r'.to = r.to + 4 /\ r'.from = r.from + 4
  BY <1>2, <1>3 DEF Shape
<1>5. Copied(k + 4)' /\ k + 4 \in Nat
  BY <1>2, <1>3, <1>4, Advances
<1>6. \A a \in accesses' : Fit(a)
  <2>1. Fit(Load(r.from, 4))
    <3>1. k < call.n
      BY <1>2 DEF Routine
    <3>2. QED
      BY <1>2, <3>1, LoadFits
  <2>2. ASSUME NEW p \in parts PROVE Fit(StoreTo(r.to + p.off, p.width))
    <3>1. \/ p.off = 0 /\ p.width = 1
          \/ p.off = 1 /\ p.width = 2
          \/ p.off = 3 /\ p.width = 1
      <4>1. CASE p = [off |-> 0, width |-> 1]
        BY <4>1
      <4>2. CASE p = [off |-> 1, width |-> 2]
        BY <4>2
      <4>3. CASE p = [off |-> 3, width |-> 1]
        BY <4>3
      <4>4. QED
        BY <4>1, <4>2, <4>3
    <3> HIDE DEF parts
    <3>2. (r.to + p.off) % p.width = 0
      <4>1. /\ r.to % 1 = 0 /\ (r.to + 1) % 2 = 0 /\ (r.to + 3) % 1 = 0
            /\ r.to + 0 = r.to
        BY <1>2
      <4>2. QED
        BY <3>1, <4>1
    <3>3. /\ k + p.off \in Nat /\ (k + p.off) + p.width <= call.n
          /\ r.to + p.off = call.to + (k + p.off) /\ p.width \in 1..4
      <4>1. call.n \in Nat /\ call.to \in Nat
        BY <1>2 DEF Routine
      <4>2. QED
        BY <1>2, <3>1, <4>1
    <3>4. QED
      BY <1>2, <3>2, <3>3, StoreFits
  <2> HIDE DEF parts
  <2>3. QED
    BY <1>3, <2>1, <2>2
<1>7. Stage'
  <2>1. CASE r.from + 4 >= r.last
    BY <1>4, <1>5, <2>1 DEF Stage, Copying, InBytes, At
  <2>2. CASE ~(r.from + 4 >= r.last)
    <3>1. (k + 4) + 4 <= call.n
      BY <1>2, <2>2 DEF Routine
    <3>2. (r.to + 4) % 2 = 1 /\ (r.from + 4) % 4 = 0
      BY <1>2
    <3>3. InOdd(k + 4)'
      BY <1>2, <1>4, <1>5, <2>2, <3>1, <3>2 DEF InOdd, At
    <3>4. QED
      BY <1>5, <3>3 DEF Stage, Copying
  <2>3. QED
    BY <2>1, <2>2
<1>8. QED
  BY <1>2, <1>4, <1>6, <1>7, StepIsGood

(* The last loop of memcpy and memmove.                                    *)
LEMMA ByteLoopKeeps == ASSUME IInv, ByteLoop PROVE IInv'
<1>1. PICK k \in Nat : InBytes(k)
  BY Placed DEF ByteLoop
<1>2. /\ Routine(call) /\ call \in Calls /\ Shape(r) /\ call' = call
      /\ Copied(k) /\ k \in 0..call.n /\ r.to = call.to + k /\ r.from = call.from + k
      /\ call.name \in {"memcpy", "memmove"} /\ r.end = call.from + call.n
      /\ r.to \in Nat /\ r.from \in Nat /\ m = Front(k)
  <2>1. Copied(k)
    BY <1>1 DEF InBytes
  <2>2. /\ Routine(call) /\ call \in Calls /\ Shape(r) /\ r.end = call.from + call.n
        /\ r.to = call.to + k /\ r.from = call.from + k /\ r.to \in Nat /\ r.from \in Nat
    BY <2>1, WhileCopying
  <2>3. call.name \in {"memcpy", "memmove"} /\ k \in 0..call.n /\ m = Front(k)
    BY <2>1 DEF Copied
  <2>4. call' = call
    BY DEF ByteLoop
  <2>5. QED
    BY <2>1, <2>2, <2>3, <2>4
<1>3. CASE r.from = r.end
  <2>1. Skip("done")
    BY <1>3 DEF ByteLoop
  <2>2. m' = m /\ accesses' = {} /\ Shape(r') /\ r'.end = r.end /\ r'.pc = "done"
    BY <1>2, <2>1, SkipOnly
  <2>3. k = call.n
    BY <1>2, <1>3 DEF Routine
  <2>4. QED
    BY <1>2, <2>2, <2>3, Finishes
<1>4. CASE r.from # r.end
  <2>1. Copy(1, "bytes")
    BY <1>4 DEF ByteLoop
  <2>2. /\ m' = With(r.to, Bytes(r.from, 1))
        /\ accesses' = {Load(r.from, 1), StoreTo(r.to, 1)}
        /\ Shape(r') /\ r'.end = r.end /\ r'.pc = "bytes"
        /\ r'.to = r.to + 1 /\ r'.from = r.from + 1
    BY <1>2, <2>1, CopyOne
  <2>3. k < call.n /\ k + 1 <= call.n /\ r.to % 1 = 0 /\ r.from % 1 = 0
    BY <1>2, <1>4 DEF Routine
  <2>4. Copied(k + 1)' /\ k + 1 \in Nat
    BY <1>2, <2>2, <2>3, Advances
  <2>5. Stage'
    BY <2>2, <2>4 DEF Stage, Copying, InBytes, At
  <2>6. Fit(Load(r.from, 1)) /\ Fit(StoreTo(r.to, 1))
    BY <1>2, <2>3, LoadFits, StoreFits
  <2>7. QED
    BY <1>2, <2>2, <2>5, <2>6, StepIsGood
<1>5. QED
  BY <1>3, <1>4
-----------------------------------------------------------------------------
(* memmove *)
LEMMA MemmoveStartKeeps == ASSUME IInv, MemmoveStart PROVE IInv'
<1>1. /\ Routine(call) /\ call \in Calls /\ Starting /\ call.name = "memmove"
      /\ Shape(r) /\ call' = call /\ r.to = call.to /\ r.from = call.from /\ m = call.m
      /\ r.end = call.from + call.n
  BY CallKnown, Placed DEF MemmoveStart, At, IInv, Starting, Registers
<1>2. CASE Overlap
  <2>1. r' = [r EXCEPT !.pc = "back", !.to = @ + call.n, !.from = r.end] /\ accesses' = {} /\ m' = m
    BY <1>2 DEF MemmoveStart
  <2>2. /\ Shape(r') /\ r'.end = r.end /\ r'.pc = "back"
        /\ r'.to = call.to + call.n /\ r'.from = call.from + call.n
    BY <1>1, <2>1 DEF Shape
  <2>3. m = Back(call.n)
    BY <1>1 DEF Back, Routine
  <2>4. m' = Back(call.n)'
    BY <1>1, <2>1, <2>3 DEF Back
  <2>5. call.n \in Nat /\ call.n \in 0..call.n /\ call.from < call.to
    BY <1>1, <1>2 DEF Routine, Overlap
  <2>6. InBack(call.n)'
    BY <1>1, <2>2, <2>4, <2>5 DEF InBack, At
  <2>7. Stage'
    BY <2>5, <2>6, <1>1 DEF Stage, Copying
  <2>8. QED
    BY <1>1, <2>1, <2>2, <2>7, StepIsGood
<1>3. CASE ~Overlap
  <2>1. Harmless
    BY <1>1, <1>3 DEF Routine, Overlap, Harmless
  <2>2. Copied(0)
    BY <1>1, <2>1, NothingYet
  <2>3. PICK pc \in {"words", "bytes"} :
           Skip(pc) /\ (pc = "words" => call.from % 4 = 0 /\ call.to % 4 = 0)
    BY <1>3 DEF MemmoveStart
  <2>4. /\ m' = m /\ accesses' = {} /\ Shape(r') /\ r'.end = r.end /\ r'.pc = pc
        /\ r'.to = r.to /\ r'.from = r.from
    BY <1>1, <2>3, SkipOnly
  <2>5. Copied(0)'
    BY <1>1, <2>2, <2>4, StaysCopied
  <2>6. InWords(0)' \/ InBytes(0)'
    BY <1>1, <2>3, <2>4, <2>5 DEF InWords, InBytes, At
  <2>7. Stage'
    BY <2>6 DEF Stage, Copying
  <2>8. QED
    BY <1>1, <2>4, <2>7, StepIsGood
<1>4. QED
  BY <1>2, <1>3

LEMMA WordLoopKeeps == ASSUME IInv, WordLoop PROVE IInv'
<1>1. PICK k \in Nat : InWords(k)
  BY Placed DEF WordLoop
<1>2. /\ Routine(call) /\ call \in Calls /\ Shape(r) /\ call' = call
      /\ Copied(k) /\ k \in 0..call.n /\ r.to = call.to + k /\ r.from = call.from + k
      /\ call.name \in {"memcpy", "memmove"} /\ r.end = call.from + call.n
      /\ r.to \in Nat /\ r.from \in Nat /\ r.to % 4 = 0 /\ r.from % 4 = 0
  <2>1. /\ Routine(call) /\ call \in Calls /\ Shape(r) /\ call' = call
        /\ Copied(k)
        /\ r.end = (IF call.name = "memset" THEN call.to ELSE call.from) + call.n
    BY <1>1, CallKnown DEF IInv, Registers, WordLoop, InWords
  <2>2. r.to % 4 = 0 /\ r.from % 4 = 0
    BY <1>1 DEF InWords
  <2>3. /\ k \in 0..call.n /\ r.to = call.to + k /\ r.from = call.from + k
        /\ call.name \in {"memcpy", "memmove"} /\ r.end = call.from + call.n
    BY <2>1 DEF Copied
  <2>4. r.to \in Nat /\ r.from \in Nat
    BY <2>1, <2>3 DEF Routine
  <2>5. QED
    BY <2>1, <2>2, <2>3, <2>4
<1>3. CASE r.end - r.from >= 4
  <2>1. Copy(4, "words")
    BY <1>3 DEF WordLoop
  <2>2. /\ m' = With(r.to, Bytes(r.from, 4))
        /\ accesses' = {Load(r.from, 4), StoreTo(r.to, 4)}
        /\ Shape(r') /\ r'.end = r.end /\ r'.pc = "words"
        /\ r'.to = r.to + 4 /\ r'.from = r.from + 4
    BY <1>2, <2>1, CopyOne
  <2>3. k < call.n /\ k + 4 <= call.n
    BY <1>2, <1>3 DEF Routine
  <2>4. Copied(k + 4)' /\ k + 4 \in Nat
    BY <1>2, <2>2, <2>3, Advances
  <2>5. (r.to + 4) % 4 = 0 /\ (r.from + 4) % 4 = 0
    BY <1>2
  <2>6. Stage'
    BY <2>2, <2>4, <2>5 DEF Stage, Copying, InWords, At
  <2>7. Fit(Load(r.from, 4)) /\ Fit(StoreTo(r.to, 4))
    BY <1>2, <2>3, LoadFits, StoreFits
  <2>8. QED
    BY <1>2, <2>2, <2>6, <2>7, StepIsGood
<1>4. CASE ~(r.end - r.from >= 4)
  <2>1. Skip("bytes")
    BY <1>4 DEF WordLoop
  <2>2. /\ m' = m /\ accesses' = {} /\ Shape(r') /\ r'.end = r.end /\ r'.pc = "bytes"
        /\ r'.to = r.to /\ r'.from = r.from
    BY <1>2, <2>1, SkipOnly
  <2>3. Copied(k)'
    BY <1>2, <2>2, StaysCopied
  <2>4. Stage'
    BY <2>2, <2>3 DEF Stage, Copying, InBytes, At
  <2>5. QED
    BY <1>2, <2>2, <2>4, StepIsGood
<1>5. QED
  BY <1>3, <1>4

(* From the back nothing is overwritten that is still to be read, since    *)
(* the destination lies behind the source.                                 *)
LEMMA BackLoopKeeps == ASSUME IInv, BackLoop PROVE IInv'
<1>1. PICK k \in Nat : InBack(k)
  BY Placed DEF BackLoop
<1>2. /\ Routine(call) /\ call \in Calls /\ Shape(r) /\ call' = call /\ call.name = "memmove"
      /\ k \in 0..call.n /\ r.to = call.to + k /\ r.from = call.from + k
      /\ call.from < call.to /\ m = Back(k)
      /\ call.n \in Nat /\ call.to \in Nat /\ call.from \in Nat
  <2>1. /\ call.name = "memmove" /\ k \in 0..call.n /\ r.to = call.to + k /\ r.from = call.from + k
        /\ call.from < call.to /\ m = Back(k)
    BY <1>1 DEF InBack
  <2>2. Routine(call) /\ call \in Calls /\ Shape(r)
        /\ call.n \in Nat /\ call.to \in Nat /\ call.from \in Nat
    BY <2>1, InRoutine
  <2>3. call' = call
    BY DEF BackLoop
  <2>4. QED
    BY <2>1, <2>2, <2>3
<1>3. CASE r.from = call.from
  <2>1. Skip("done")
    BY <1>3 DEF BackLoop
  <2>2. m' = m /\ accesses' = {} /\ Shape(r') /\ r'.end = r.end /\ r'.pc = "done"
    BY <1>2, <2>1, SkipOnly
  <2>3. k = 0
    BY <1>2, <1>3
  <2>4. QED
    BY <1>2, <2>2, <2>3, Finishes
<1>4. CASE r.from # call.from
  <2>1. /\ m' = With(r.to - 1, Bytes(r.from - 1, 1))
        /\ accesses' = {Load(r.from - 1, 1), StoreTo(r.to - 1, 1)}
        /\ r' = [r EXCEPT !.to = @ - 1, !.from = @ - 1]
    BY <1>4 DEF BackLoop
  <2>2. /\ Shape(r') /\ r'.end = r.end /\ r'.pc = r.pc /\ r.pc = "back"
        /\ r'.to = r.to - 1 /\ r'.from = r.from - 1
    BY <1>2, <2>1 DEF Shape, BackLoop, At
  <2>3. /\ k - 1 \in Nat /\ k - 1 \in 0..call.n /\ k - 1 < call.n /\ (k - 1) + 1 <= call.n
        /\ r.to - 1 = call.to + (k - 1) /\ r.from - 1 = call.from + (k - 1)
        /\ (r.to - 1) % 1 = 0 /\ (r.from - 1) % 1 = 0
    BY <1>2, <1>4
  <2>4. With(r.to - 1, Bytes(r.from - 1, 1)) = Back(k - 1)
    <3>1. /\ DOMAIN m = DOMAIN call.m /\ DOMAIN call.m \subseteq Nat
          /\ call.from + (k - 1) \in DOMAIN call.m
      <4>1. call.from + (k - 1) \in call.from .. call.from + call.n - 1
        BY <1>2, <2>3
      <4>2. QED
        BY <1>2, <4>1 DEF Back, Routine
    <3>2. m[call.from + (k - 1)] = call.m[call.from + (k - 1)]
      BY <1>2, <2>3, <3>1 DEF Back
    <3>3. /\ Len(Bytes(r.from - 1, 1)) = 1
          /\ Bytes(r.from - 1, 1)[1] = call.m[call.from + (k - 1)]
      <4>1. m \in [DOMAIN m -> Int]
        <5>1. ASSUME NEW a \in DOMAIN call.m, call.to + k <= a, a < call.to + call.n
              PROVE  call.from + (a - call.to) \in DOMAIN call.m
          <6>1. call.from + (a - call.to) \in call.from .. call.from + call.n - 1
            BY <1>2, <3>1, <5>1
          <6>2. QED
            BY <1>2, <6>1 DEF Routine
        <5>2. QED
          BY <1>2, <5>1 DEF Routine, Back
      <4>2. r.from - 1 \in Int /\ (r.from - 1) + 1 - 1 = call.from + (k - 1)
        BY <1>2, <2>3
      <4>3. /\ Len(Bytes(r.from - 1, 1)) = 1
            /\ \A i \in 1..1 : (r.from - 1) + i - 1 \in DOMAIN m =>
                  Bytes(r.from - 1, 1)[i] = m[(r.from - 1) + i - 1]
        BY <4>1, <4>2, BytesSeq
      <4>4. QED
        BY <3>1, <3>2, <4>2, <4>3
    <3>4. ASSUME NEW a \in DOMAIN call.m
          PROVE  With(r.to - 1, Bytes(r.from - 1, 1))[a] = Back(k - 1)[a]
      <4>1. CASE a = call.to + (k - 1)
        <5>1. /\ a \in r.to - 1 .. (r.to - 1) + 1 - 1 /\ a - (r.to - 1) + 1 = 1
              /\ call.from + (a - call.to) = call.from + (k - 1)
          BY <1>2, <2>3, <4>1
        <5>2. With(r.to - 1, Bytes(r.from - 1, 1))[a] = Bytes(r.from - 1, 1)[1]
          BY <3>1, <3>3, <5>1 DEF With
        <5>3. Back(k - 1)[a] = call.m[call.from + (k - 1)]
          <6>1. call.to + (k - 1) <= a /\ a < call.to + call.n
            BY <1>2, <2>3, <4>1
          <6>2. QED
            BY <5>1, <6>1 DEF Back
        <5>4. QED
          BY <3>3, <5>2, <5>3
      <4>2. CASE a # call.to + (k - 1)
        <5>1. a \notin r.to - 1 .. (r.to - 1) + 1 - 1
          BY <1>2, <2>3, <3>1, <4>2
        <5>2. With(r.to - 1, Bytes(r.from - 1, 1))[a] = m[a]
          BY <3>1, <3>3, <5>1 DEF With
        <5>3. Back(k - 1)[a] = m[a]
          BY <1>2, <2>3, <3>1, <4>2 DEF Back
        <5>4. QED
          BY <5>2, <5>3
      <4>3. QED
        BY <4>1, <4>2
    <3>5. QED
      BY <3>1, <3>4 DEF With, Back
  <2>5. m' = Back(k - 1)'
    BY <1>2, <2>1, <2>4 DEF Back
  <2>6. InBack(k - 1)'
    BY <1>2, <2>2, <2>3, <2>5 DEF InBack, At
  <2>7. Stage'
    BY <2>3, <2>6 DEF Stage, Copying
  <2>8. Fit(Load(r.from - 1, 1)) /\ Fit(StoreTo(r.to - 1, 1))
    BY <1>2, <2>3, LoadFits, StoreFits
  <2>9. QED
    BY <1>2, <2>1, <2>2, <2>7, <2>8, StepIsGood
<1>5. QED
  BY <1>3, <1>4
-----------------------------------------------------------------------------
(* memset *)

(* w more bytes are set.                                                   *)
LEMMA FillGrows ==
  ASSUME call \in Calls, NEW k \in Nat, m = FilledTo(k), NEW w \in Nat
  PROVE  With(call.to + k, Filled(w)) = FilledTo(k + w)
<1>1. Routine(call)
  BY CallKnown
<1>2. Filled(w) \in [1..w -> Int]
  BY <1>1 DEF Filled, Routine
<1>3. Filled(w) \in Seq(Int)
  BY <1>2, SeqDef
<1>4. Len(Filled(w)) = w
  BY <1>2, <1>3, LenProperties
<1>5. DOMAIN m = DOMAIN call.m /\ DOMAIN call.m \subseteq Nat /\ call.to \in Nat
  BY <1>1 DEF FilledTo, Routine
<1>6. ASSUME NEW a \in DOMAIN call.m
      PROVE  With(call.to + k, Filled(w))[a] = FilledTo(k + w)[a]
  <2>1. CASE call.to + k <= a /\ a <= call.to + k + w - 1
    <3>1. a - (call.to + k) + 1 \in 1..w
      BY <1>5, <2>1
    <3>2. With(call.to + k, Filled(w))[a] = Filled(w)[a - (call.to + k) + 1]
      BY <1>4, <1>5, <2>1 DEF With
    <3>3. Filled(w)[a - (call.to + k) + 1] = call.from
      BY <3>1 DEF Filled
    <3>4. FilledTo(k + w)[a] = call.from
      BY <1>5, <2>1 DEF FilledTo
    <3>5. QED
      BY <3>2, <3>3, <3>4
  <2>2. CASE ~(call.to + k <= a /\ a <= call.to + k + w - 1)
    <3>1. With(call.to + k, Filled(w))[a] = m[a]
      BY <1>4, <1>5, <2>2 DEF With
    <3>2. m[a] = FilledTo(k + w)[a]
      BY <1>5, <2>2 DEF FilledTo
    <3>3. QED
      BY <3>1, <3>2
  <2>3. QED
    BY <2>1, <2>2
<1>7. QED
  BY <1>5, <1>6 DEF With, FilledTo

(* What is set already, and the places a step may lead to.                 *)
LEMMA SetMore ==
  ASSUME IInv, call' = call, NEW k \in Nat, m = FilledTo(k), call.name = "memset",
         r.to = call.to + k, r.from = call.from,
         NEW w \in Nat, k + w <= call.n, m' = With(r.to, Filled(w)),
         r'.to = r.to + w, r'.from = r.from
  PROVE  /\ k + w \in 0..call.n /\ m' = FilledTo(k + w)'
         /\ r'.to = call.to + (k + w) /\ r'.from = call.from
<1>1. Routine(call) /\ call \in Calls
  BY CallKnown DEF IInv
<1>2. k + w \in 0..call.n /\ r'.to = call.to + (k + w)
  BY <1>1 DEF Routine
<1>3. m' = FilledTo(k + w)'
  BY <1>1, FillGrows DEF FilledTo
<1>4. QED
  BY <1>2, <1>3

LEMMA MemsetStartKeeps == ASSUME IInv, MemsetStart PROVE IInv'
<1>1. /\ Routine(call) /\ call \in Calls /\ Starting /\ call.name = "memset"
      /\ Shape(r) /\ call' = call /\ r.to = call.to /\ r.from = call.from /\ m = call.m
      /\ call.to \in Nat /\ call.n \in Nat
  BY CallKnown, Placed DEF MemsetStart, At, IInv, Starting, Registers, Routine
<1>2. PICK pc \in {"fill", "align"} : Skip(pc) /\ (pc = "align" => call.n >= 12)
  BY <1>1 DEF MemsetStart
<1>3. /\ m' = m /\ accesses' = {} /\ Shape(r') /\ r'.end = r.end /\ r'.pc = pc
      /\ r'.to = r.to /\ r'.from = r.from
  BY <1>1, <1>2, SkipOnly
<1>4. m' = FilledTo(0)'
  BY <1>1, <1>3 DEF FilledTo, Routine
<1>5. /\ r'.to = call.to + 0 /\ 0 \in 0..call.n /\ 0 <= 3
      /\ r'.to % 4 # 0 => 0 < r'.to % 4
  <2>1. r'.to = call.to
    BY <1>1, <1>3
  <2>2. call.to % 4 \in 0..3
    BY <1>1
  <2>3. QED
    BY <1>1, <2>1, <2>2
<1>6. Setting(0)'
  BY <1>1, <1>2, <1>3, <1>4, <1>5 DEF Setting, At
<1>7. Stage'
  BY <1>6 DEF Stage
<1>8. QED
  BY <1>1, <1>3, <1>7, StepIsGood

LEMMA AlignLoopKeeps == ASSUME IInv, AlignLoop PROVE IInv'
<1>1. PICK k \in Nat : Setting(k) /\ At("align")
  BY Placed DEF AlignLoop, At
<1>2. /\ call \in Calls /\ Shape(r) /\ call' = call /\ call.name = "memset"
      /\ r.to = call.to + k /\ r.from = call.from /\ m = FilledTo(k)
      /\ call.n >= 12 /\ k <= 3 /\ (r.to % 4 # 0 => k < r.to % 4)
  BY <1>1 DEF IInv, Registers, AlignLoop, Setting, At
<1>3. call.n \in Nat /\ call.to \in Nat /\ r.to \in Nat
  BY <1>2, CallKnown DEF Routine
<1>4. CASE r.to % 4 = 0
  <2>1. Skip("fill8")
    BY <1>4 DEF AlignLoop
  <2>2. /\ m' = m /\ accesses' = {} /\ Shape(r') /\ r'.end = r.end /\ r'.pc = "fill8"
        /\ r'.to = r.to /\ r'.from = r.from
    BY <1>2, <2>1, SkipOnly
  <2>3. m' = FilledTo(k)'
    BY <1>2, <2>2 DEF FilledTo
  <2>4. k \in 0..call.n /\ k + 8 <= call.n
    BY <1>2, <1>3
  <2>5. Setting(k)'
    BY <1>2, <1>4, <2>2, <2>3, <2>4 DEF Setting, At
  <2>6. Stage'
    BY <2>5 DEF Stage
  <2>7. QED
    BY <1>2, <2>2, <2>6, StepIsGood
<1>5. CASE r.to % 4 # 0
  <2>1. /\ m' = With(r.to, Filled(1)) /\ accesses' = {StoreTo(r.to, 1)}
        /\ r' = [r EXCEPT !.to = @ + 1]
    BY <1>5 DEF AlignLoop
  <2>2. /\ Shape(r') /\ r'.end = r.end /\ r'.pc = "align"
        /\ r'.to = r.to + 1 /\ r'.from = r.from
    BY <1>1, <1>2, <2>1 DEF Shape, At
  <2>3. k + 1 <= 3 /\ k + 1 <= call.n /\ k + 1 \in Nat
        /\ ((r.to + 1) % 4 # 0 => k + 1 < (r.to + 1) % 4)
    <3>1. r.to % 4 \in 1..3 /\ ((r.to + 1) % 4 = 0 \/ (r.to + 1) % 4 = (r.to % 4) + 1)
      BY <1>3, <1>5
    <3>2. QED
      BY <1>2, <1>3, <1>5, <3>1
  <2>4. /\ k + 1 \in 0..call.n /\ m' = FilledTo(k + 1)'
        /\ r'.to = call.to + (k + 1) /\ r'.from = call.from
    BY <1>2, <2>1, <2>2, <2>3, SetMore
  <2>5. Setting(k + 1)'
    BY <1>2, <2>2, <2>3, <2>4 DEF Setting, At
  <2>6. Stage'
    BY <2>3, <2>5 DEF Stage
  <2>7. Fit(StoreTo(r.to, 1))
    <3>1. r.to % 1 = 0
      BY <1>3
    <3>2. QED
      BY <1>2, <2>3, <3>1, StoreFits
  <2>8. QED
    BY <1>2, <2>1, <2>2, <2>6, <2>7, StepIsGood
<1>6. QED
  BY <1>4, <1>5

LEMMA FillLoopKeeps == ASSUME IInv, FillLoop PROVE IInv'
<1>1. PICK k \in Nat : Setting(k) /\ At("fill8")
  BY Placed DEF FillLoop, At
<1>2. /\ call \in Calls /\ Shape(r) /\ call' = call /\ call.name = "memset"
      /\ r.to = call.to + k /\ r.from = call.from /\ m = FilledTo(k)
      /\ k + 8 <= call.n /\ r.to % 4 = 0 /\ r.end = call.to + call.n
  BY <1>1 DEF IInv, Registers, FillLoop, Setting, At
<1>3. call.n \in Nat /\ call.to \in Nat /\ r.to \in Nat
  BY <1>2, CallKnown DEF Routine
<1>4. /\ m' = With(r.to, Filled(8)) /\ accesses' = {StoreTo(r.to, 4), StoreTo(r.to + 4, 4)}
      /\ r' = [r EXCEPT !.to = @ + 8, !.pc = IF r.to >= r.end - 16 THEN "fill" ELSE "fill8"]
  BY DEF FillLoop
<1>5. /\ Shape(r') /\ r'.end = r.end /\ r'.to = r.to + 8 /\ r'.from = r.from
      /\ r'.pc = IF r.to >= r.end - 16 THEN "fill" ELSE "fill8"
  BY <1>2, <1>4 DEF Shape
<1>6. /\ k + 8 \in 0..call.n /\ m' = FilledTo(k + 8)'
      /\ r'.to = call.to + (k + 8) /\ r'.from = call.from
  BY <1>2, <1>4, <1>5, SetMore
<1>7. Setting(k + 8)'
  <2>1. r.to < r.end - 16 => (k + 8) + 8 <= call.n
    BY <1>2, <1>3
  <2>2. (r.to + 8) % 4 = 0
    BY <1>2, <1>3
  <2>3. r'.pc = "fill" \/ (r'.pc = "fill8" /\ r.to < r.end - 16)
    BY <1>2, <1>3, <1>5
  <2>4. QED
    BY <1>2, <1>5, <1>6, <2>1, <2>2, <2>3 DEF Setting, At
<1>8. Stage'
  BY <1>3, <1>7 DEF Stage
<1>9. Fit(StoreTo(r.to, 4)) /\ Fit(StoreTo(r.to + 4, 4))
  <2>1. k + 4 \in Nat /\ (k + 4) + 4 <= call.n /\ k + 4 <= call.n
        /\ r.to + 4 = call.to + (k + 4) /\ (r.to + 4) % 4 = 0
    BY <1>2, <1>3
  <2>2. QED
    BY <1>2, <2>1, StoreFits
<1>10. QED
  BY <1>2, <1>4, <1>5, <1>8, <1>9, StepIsGood

LEMMA FillByteLoopKeeps == ASSUME IInv, FillByteLoop PROVE IInv'
<1>1. PICK k \in Nat : Setting(k) /\ At("fill")
  BY Placed DEF FillByteLoop, At
<1>2. /\ call \in Calls /\ Shape(r) /\ call' = call /\ call.name = "memset"
      /\ r.to = call.to + k /\ r.from = call.from /\ m = FilledTo(k)
      /\ k \in 0..call.n /\ r.end = call.to + call.n
  BY <1>1 DEF IInv, Registers, FillByteLoop, Setting, At
<1>3. call.n \in Nat /\ call.to \in Nat /\ r.to \in Nat
  BY <1>2, CallKnown DEF Routine
<1>4. CASE r.to = r.end
  <2>1. Skip("done")
    BY <1>4 DEF FillByteLoop
  <2>2. m' = m /\ accesses' = {} /\ Shape(r') /\ r'.end = r.end /\ r'.pc = "done"
    BY <1>2, <2>1, SkipOnly
  <2>3. k = call.n
    BY <1>2, <1>3, <1>4
  <2>4. QED
    BY <1>2, <2>2, <2>3, Finishes
<1>5. CASE r.to # r.end
  <2>1. /\ m' = With(r.to, Filled(1)) /\ accesses' = {StoreTo(r.to, 1)}
        /\ r' = [r EXCEPT !.to = @ + 1]
    BY <1>5 DEF FillByteLoop
  <2>2. /\ Shape(r') /\ r'.end = r.end /\ r'.pc = "fill"
        /\ r'.to = r.to + 1 /\ r'.from = r.from
    BY <1>1, <1>2, <2>1 DEF Shape, At
  <2>3. k + 1 <= call.n /\ k + 1 \in Nat /\ r.to % 1 = 0
    BY <1>2, <1>3, <1>5
  <2>4. /\ k + 1 \in 0..call.n /\ m' = FilledTo(k + 1)'
        /\ r'.to = call.to + (k + 1) /\ r'.from = call.from
    BY <1>2, <2>1, <2>2, <2>3, SetMore
  <2>5. Setting(k + 1)'
    BY <1>2, <2>2, <2>4 DEF Setting, At
  <2>6. Stage'
    BY <2>3, <2>5 DEF Stage
  <2>7. Fit(StoreTo(r.to, 1))
    BY <1>2, <2>3, StoreFits
  <2>8. QED
    BY <1>2, <2>1, <2>2, <2>6, <2>7, StepIsGood
<1>6. QED
  BY <1>4, <1>5
-----------------------------------------------------------------------------
(* memcmp *)

(* The bytes of both areas that are still to be compared are in memory.    *)
LEMMA BothThere ==
  ASSUME call \in Calls, call.name # "memset", m = call.m, NEW k \in Nat, NEW w \in Nat,
         k + w <= call.n, NEW at, at = call.to \/ at = call.from
  PROVE  \A i \in 1..w : Bytes(at + k, w)[i] = call.m[at + (k + (i - 1))]
<1> SUFFICES ASSUME NEW i \in 1..w
             PROVE  Bytes(at + k, w)[i] = call.m[at + (k + (i - 1))]
  OBVIOUS
<1>1. Routine(call)
  BY CallKnown
<1>2. at \in Nat /\ call.n \in Nat
  BY <1>1 DEF Routine
<1>3. at + (k + (i - 1)) \in at .. at + call.n - 1 /\ (at + k) + i - 1 = at + (k + (i - 1))
  BY <1>2
<1>4. at + (k + (i - 1)) \in DOMAIN m
  BY <1>1, <1>3 DEF Routine
<1>5. Bytes(at + k, w)[i] = IF (at + k) + i - 1 \in DOMAIN m THEN m[(at + k) + i - 1] ELSE Outside
  BY DEF Bytes
<1>6. QED
  BY <1>3, <1>4, <1>5

LEMMA MemcmpStartKeeps == ASSUME IInv, MemcmpStart PROVE IInv'
<1>1. /\ Routine(call) /\ call \in Calls /\ Starting /\ call.name = "memcmp"
      /\ Shape(r) /\ call' = call /\ r.to = call.to /\ r.from = call.from /\ m = call.m
      /\ call.to \in Nat /\ call.from \in Nat /\ call.n \in Nat
      /\ answer = 0 /\ answer' = answer
  BY CallKnown, Placed DEF MemcmpStart, At, IInv, Starting, Registers, Routine
<1>2. PICK pc \in {"words2", "bytes2"} :
         Skip(pc) /\ (pc = "words2" => call.from % 4 = 0 /\ call.to % 4 = 0)
  BY <1>1 DEF MemcmpStart
<1>3. /\ m' = m /\ accesses' = {} /\ Shape(r') /\ r'.end = r.end /\ r'.pc = pc
      /\ r'.to = r.to /\ r'.from = r.from
  BY <1>1, <1>2, SkipOnly
<1>4. AlikeTo(0)' /\ r'.to = call.to + 0 /\ r'.from = call.from + 0 /\ 0 \in 0..call.n
  BY <1>1, <1>3 DEF AlikeTo
<1>5. Comparing(0)'
  BY <1>1, <1>2, <1>3, <1>4 DEF Comparing, At
<1>6. Stage'
  BY <1>5 DEF Stage
<1>7. QED
  BY <1>1, <1>3, <1>6, StepIsGood

LEMMA CompareWordsKeeps == ASSUME IInv, CompareWords PROVE IInv'
<1>1. PICK k \in Nat : Comparing(k) /\ At("words2")
  BY Placed DEF CompareWords, At
<1>2. /\ call \in Calls /\ Shape(r) /\ call' = call /\ call.name = "memcmp"
      /\ r.to = call.to + k /\ r.from = call.from + k /\ k \in 0..call.n
      /\ m = call.m /\ m' = m /\ answer = 0 /\ answer' = answer /\ AlikeTo(k)
      /\ r.end = call.from + call.n
  BY <1>1 DEF IInv, Registers, CompareWords, Comparing, At
<1>3. r.to % 4 = 0 /\ r.from % 4 = 0
  BY <1>1 DEF Comparing, At
<1>4. call.n \in Nat /\ call.to \in Nat /\ call.from \in Nat /\ r.to \in Nat /\ r.from \in Nat
  BY <1>2, CallKnown DEF Routine
<1>5. \A a \in accesses' : Fit(a)
  <2>1. CASE r.end - r.from >= 4
    <3>1. accesses' = {Load(r.to, 4), Load(r.from, 4)}
      BY <2>1 DEF CompareWords
    <3>2. k < call.n
      BY <1>2, <1>4, <2>1
    <3>3. Fit(Load(r.to, 4)) /\ Fit(Load(r.from, 4))
      BY <1>2, <1>3, <3>2, LoadFits
    <3>4. QED
      BY <3>1, <3>3
  <2>2. CASE ~(r.end - r.from >= 4)
    BY <2>2 DEF CompareWords
  <2>3. QED
    BY <2>1, <2>2
<1>6. CASE r.end - r.from >= 4 /\ Bytes(r.to, 4) = Bytes(r.from, 4)
  <2>1. r' = [r EXCEPT !.to = @ + 4, !.from = @ + 4]
    BY <1>6 DEF CompareWords
  <2>2. /\ Shape(r') /\ r'.end = r.end /\ r'.pc = "words2"
        /\ r'.to = r.to + 4 /\ r'.from = r.from + 4
    BY <1>1, <1>2, <2>1 DEF Shape, At
  <2>3. k + 4 <= call.n /\ k + 4 \in Nat /\ k + 4 \in 0..call.n
    BY <1>2, <1>4, <1>6
  <2>4. \A i \in 1..4 : call.m[call.to + (k + (i - 1))] = call.m[call.from + (k + (i - 1))]
    <3>1. \A i \in 1..4 : Bytes(call.to + k, 4)[i] = call.m[call.to + (k + (i - 1))]
      BY <1>2, <2>3, BothThere
    <3>2. \A i \in 1..4 : Bytes(call.from + k, 4)[i] = call.m[call.from + (k + (i - 1))]
      BY <1>2, <2>3, BothThere
    <3>3. QED
      BY <1>2, <1>6, <3>1, <3>2
  <2>5. AlikeTo(k + 4)
    <3>1. ASSUME NEW i \in 0 .. (k + 4) - 1
          PROVE  call.m[call.to + i] = call.m[call.from + i]
      <4>1. CASE i < k
        BY <1>2, <4>1 DEF AlikeTo
      <4>2. CASE i >= k
        <5>1. i - k + 1 \in 1..4 /\ k + ((i - k + 1) - 1) = i
          BY <4>2
        <5>2. QED
          BY <2>4, <5>1
      <4>3. QED
        BY <4>1, <4>2
    <3>2. QED
      BY <3>1 DEF AlikeTo
  <2>6. AlikeTo(k + 4)'
    BY <1>2, <2>5 DEF AlikeTo
  <2>7. (r.to + 4) % 4 = 0 /\ (r.from + 4) % 4 = 0
    BY <1>3, <1>4
  <2>8. r.to + 4 = call.to + (k + 4) /\ r.from + 4 = call.from + (k + 4)
    BY <1>2, <1>4
  <2>9. Comparing(k + 4)'
    BY <1>2, <2>2, <2>3, <2>6, <2>7, <2>8 DEF Comparing, At
  <2>10. Stage'
    BY <2>3, <2>9 DEF Stage
  <2>11. QED
    BY <1>2, <1>5, <2>2, <2>10, StepIsGood
<1>7. CASE ~(r.end - r.from >= 4 /\ Bytes(r.to, 4) = Bytes(r.from, 4))
  <2>1. r' = [r EXCEPT !.pc = "bytes2"]
    BY <1>7 DEF CompareWords, Goto
  <2>2. /\ Shape(r') /\ r'.end = r.end /\ r'.pc = "bytes2"
        /\ r'.to = r.to /\ r'.from = r.from
    BY <1>2, <2>1 DEF Shape
  <2>3. AlikeTo(k)'
    BY <1>2 DEF AlikeTo
  <2>4. Comparing(k)'
    BY <1>2, <2>2, <2>3 DEF Comparing, At
  <2>5. Stage'
    BY <2>4 DEF Stage
  <2>6. QED
    BY <1>2, <1>5, <2>2, <2>5, StepIsGood
<1>8. QED
  BY <1>6, <1>7

(* The first difference is the one after the bytes that are alike.         *)
LEMMA FirstDifference ==
  ASSUME call.n \in Nat, NEW k \in 0 .. call.n - 1, AlikeTo(k),
         call.m[call.to + k] # call.m[call.from + k]
  PROVE  /\ Differences # {}
         /\ (CHOOSE i \in Differences : \A j \in Differences : i <= j) = k
<1>1. k \in Differences
  BY DEF Differences
<1>2. \A j \in Differences : k <= j
  BY DEF Differences, AlikeTo
<1>3. \A i \in Differences : (\A j \in Differences : i <= j) => i = k
  BY <1>1, <1>2 DEF Differences
<1>4. QED
  BY <1>1, <1>2, <1>3

LEMMA CompareBytesKeeps == ASSUME IInv, CompareBytes PROVE IInv'
<1>1. PICK k \in Nat : Comparing(k) /\ At("bytes2")
  BY Placed DEF CompareBytes, At
<1>2. /\ call \in Calls /\ Shape(r) /\ call' = call /\ call.name = "memcmp"
      /\ r.to = call.to + k /\ r.from = call.from + k /\ k \in 0..call.n
      /\ m = call.m /\ answer = 0 /\ AlikeTo(k)
      /\ r.end = call.from + call.n
  BY <1>1 DEF IInv, Registers, CompareBytes, Comparing, At
<1>3. call.n \in Nat /\ call.to \in Nat /\ call.from \in Nat /\ r.to \in Nat /\ r.from \in Nat
  BY <1>2, CallKnown DEF Routine
<1>4. CASE r.from = r.end
  <2>1. Skip("done") /\ answer' = 0
    BY <1>4 DEF CompareBytes
  <2>2. m' = m /\ accesses' = {} /\ Shape(r') /\ r'.end = r.end /\ r'.pc = "done"
    BY <1>2, <2>1, SkipOnly
  <2>3. k = call.n
    BY <1>2, <1>3, <1>4
  <2>4. Differences = {}
    BY <1>2, <2>3 DEF Differences, AlikeTo
  <2>5. Differences' = Differences
    BY <1>2 DEF Differences
  <2>6. AccessesFit'
    BY <2>2 DEF AccessesFit
  <2>7. DoneAsDefined'
    BY <1>2, <2>1, <2>2, <2>4, <2>5, <2>6 DEF DoneAsDefined
  <2>8. Stage'
    BY <2>2, <2>7 DEF Stage, Finished, At
  <2>9. QED
    BY <1>2, <2>2, <2>8, StepIsGood
<1>5. CASE r.from # r.end
  <2>1. /\ accesses' = {Load(r.to, 1), Load(r.from, 1)} /\ m' = m
        /\ IF Bytes(r.to, 1) # Bytes(r.from, 1)
           THEN Goto("done") /\ answer' = m[r.to] - m[r.from]
           ELSE r' = [r EXCEPT !.to = @ + 1, !.from = @ + 1] /\ UNCHANGED answer
    BY <1>5 DEF CompareBytes
  <2>2. k < call.n /\ k + 1 <= call.n /\ k + 1 \in Nat /\ k + 1 \in 0..call.n
        /\ r.to % 1 = 0 /\ r.from % 1 = 0
    BY <1>2, <1>3, <1>5
  <2>3. \A a \in accesses' : Fit(a)
    <3>1. Fit(Load(r.to, 1)) /\ Fit(Load(r.from, 1))
      BY <1>2, <2>2, LoadFits
    <3>2. QED
      BY <2>1, <3>1
  <2>4. /\ Bytes(r.to, 1) \in [1..1 -> {call.m[call.to + k]}]
        /\ Bytes(r.from, 1) \in [1..1 -> {call.m[call.from + k]}]
    <3>1. \A i \in 1..1 : Bytes(call.to + k, 1)[i] = call.m[call.to + (k + (i - 1))]
      BY <1>2, <2>2, BothThere
    <3>2. \A i \in 1..1 : Bytes(call.from + k, 1)[i] = call.m[call.from + (k + (i - 1))]
      BY <1>2, <2>2, BothThere
    <3>3. \A i \in 1..1 : k + (i - 1) = k
      OBVIOUS
    <3>4. QED
      BY <1>2, <3>1, <3>2, <3>3 DEF Bytes
  <2>5. CASE Bytes(r.to, 1) # Bytes(r.from, 1)
    <3>1. Goto("done") /\ answer' = m[r.to] - m[r.from]
      BY <2>1, <2>5
    <3>2. Shape(r') /\ r'.end = r.end /\ r'.pc = "done"
      BY <1>2, <3>1 DEF Goto, Shape
    <3>3. call.m[call.to + k] # call.m[call.from + k]
      BY <2>4, <2>5
    <3>4. k \in 0 .. call.n - 1
      BY <1>3, <2>2
    <3>5. /\ Differences # {}
          /\ (CHOOSE i \in Differences : \A j \in Differences : i <= j) = k
      BY <1>2, <1>3, <3>3, <3>4, FirstDifference
    <3>6. Differences' = Differences
      BY <1>2 DEF Differences
    <3>7. AccessesFit'
      BY <1>2, <2>3 DEF AccessesFit, Fit, Within
    <3>8. answer' = call.m[call.to + k] - call.m[call.from + k]
      BY <1>2, <3>1
    <3>9. DoneAsDefined'
      BY <1>2, <2>1, <3>5, <3>6, <3>7, <3>8 DEF DoneAsDefined
    <3>10. Stage'
      BY <3>2, <3>9 DEF Stage, Finished, At
    <3>11. QED
      BY <1>2, <2>3, <3>2, <3>10, StepIsGood
  <2>6. CASE Bytes(r.to, 1) = Bytes(r.from, 1)
    <3>1. r' = [r EXCEPT !.to = @ + 1, !.from = @ + 1] /\ answer' = answer
      BY <2>1, <2>6
    <3>2. /\ Shape(r') /\ r'.end = r.end /\ r'.pc = "bytes2"
          /\ r'.to = r.to + 1 /\ r'.from = r.from + 1
      BY <1>1, <1>2, <3>1 DEF Shape, At
    <3>3. call.m[call.to + k] = call.m[call.from + k]
      BY <2>4, <2>6
    <3>4. AlikeTo(k + 1)'
      BY <1>2, <3>3 DEF AlikeTo
    <3>5. r.to + 1 = call.to + (k + 1) /\ r.from + 1 = call.from + (k + 1)
      BY <1>2, <1>3
    <3>6. Comparing(k + 1)'
      BY <1>2, <2>1, <2>2, <3>1, <3>2, <3>4, <3>5 DEF Comparing, At
    <3>7. Stage'
      BY <2>2, <3>6 DEF Stage
    <3>8. QED
      BY <1>2, <2>3, <3>2, <3>7, StepIsGood
  <2>7. QED
    BY <2>5, <2>6
<1>6. QED
  BY <1>4, <1>5
-----------------------------------------------------------------------------
LEMMA Starts == ASSUME MemoryInit PROVE IInv
<1>1. PICK c \in Calls : Called(c)
  BY DEF MemoryInit
<1>2. call \in Calls /\ m = call.m /\ accesses = {} /\ answer = 0
  BY <1>1 DEF Called
<1>3. /\ r.pc = call.name /\ r.to = call.to /\ r.from = call.from
      /\ r.end = (IF call.name = "memset" THEN call.to ELSE call.from) + call.n
      /\ Shape(r)
  BY <1>1 DEF Called, Shape
<1>4. Stage
  BY <1>2, <1>3 DEF Stage, Starting, At
<1>5. QED
  BY <1>2, <1>3, <1>4 DEF IInv, Registers, AccessesFit

LEMMA StepKeeps == ASSUME IInv, [MemoryNext]_memoryVars PROVE IInv'
<1>1. CASE UNCHANGED memoryVars
  <2>1. call' = call /\ m' = m /\ r' = r /\ accesses' = accesses /\ answer' = answer
    BY <1>1 DEF memoryVars
  <2>2. \A k \in Nat : /\ Front(k)' = Front(k) /\ Back(k)' = Back(k)
                       /\ FilledTo(k)' = FilledTo(k) /\ AlikeTo(k)' = AlikeTo(k)
    BY <2>1 DEF Front, Back, FilledTo, AlikeTo
  <2>3. DoneAsDefined' = DoneAsDefined
    <3>1. Moved' = Moved /\ Set' = Set /\ Differences' = Differences /\ AccessesFit' = AccessesFit
      BY <2>1 DEF Moved, Set, Differences, AccessesFit, Within
    <3>2. QED
      BY <2>1, <3>1 DEF DoneAsDefined, At
  <2>4. Stage'
    <3>1. CASE Starting
      BY <2>1, <3>1 DEF Stage, Starting, At
    <3>2. CASE \E k \in Nat : Copying(k)
      <4>1. PICK k \in Nat : Copying(k)
        BY <3>2
      <4>2. Copied(k)' = Copied(k)
        BY <2>1, <2>2 DEF Copied, Harmless
      <4>3. Copying(k)'
        BY <2>1, <2>2, <4>1, <4>2 DEF Copying, InEven, InAligned, InLongs, InOdd, InShifted,
             InWords, InBytes, InBack, At
      <4>4. QED
        BY <4>3 DEF Stage
    <3>3. CASE \E k \in Nat : Setting(k)
      BY <2>1, <2>2, <3>3 DEF Stage, Setting, At
    <3>4. CASE \E k \in Nat : Comparing(k)
      BY <2>1, <2>2, <3>4 DEF Stage, Comparing, At
    <3>5. CASE Finished
      BY <2>1, <2>3, <3>5 DEF Stage, Finished, At
    <3>6. QED
      BY <3>1, <3>2, <3>3, <3>4, <3>5 DEF IInv, Stage
  <2>5. \A a \in accesses' : Fit(a)
    BY <2>1 DEF IInv, AccessesFit, Fit
  <2>6. QED
    BY <2>1, <2>4, <2>5, StepIsGood DEF IInv, Registers
<1>2. CASE MemoryNext
  BY <1>2, MemcpyStartKeeps, DestinationAlignedKeeps, SourceAlignedKeeps, ShiftedLoopKeeps,
     LongLoopKeeps, DestinationOddKeeps, OddLoopKeeps, ByteLoopKeeps, MemmoveStartKeeps,
     BackLoopKeeps, WordLoopKeeps, MemsetStartKeeps, AlignLoopKeeps, FillLoopKeeps,
     FillByteLoopKeeps, MemcmpStartKeeps, CompareWordsKeeps, CompareBytesKeeps
  DEF MemoryNext
<1>3. QED
  BY <1>1, <1>2

(* The invariant of the four routines: at each place of the code, how much *)
(* is done and the memory as it is then, how much is certainly left, and   *)
(* how the registers are aligned.                                          *)
THEOREM Underway == MemorySpec => []IInv
<1>1. MemoryInit => IInv
  BY Starts
<1>2. IInv /\ [MemoryNext]_memoryVars => IInv'
  BY StepKeeps
<1>3. QED
  BY <1>1, <1>2, PTL DEF MemorySpec

(* memcpy, memmove, memset and memcmp return what string.h says of them,   *)
(* have changed what they should and nothing else, and have on the way     *)
(* read and written in whole words only where words are, and stored only   *)
(* where they were asked to (memcpy.S, memset.S, memmove.c, memcmp.c).     *)
THEOREM RoutinesRight == MemorySpec => []DoneAsDefined
<1>1. IInv => DoneAsDefined
  <2> SUFFICES ASSUME IInv PROVE DoneAsDefined
    OBVIOUS
  <2>1. CASE Finished
    BY <2>1 DEF Finished
  <2>2. CASE ~Finished
    <3>1. call.name \in {"memcpy", "memmove", "memset", "memcmp"}
      BY CallKnown DEF IInv, Routine
    <3>2. ~At("done")
      BY <2>2, <3>1 DEF IInv, Stage, Starting, At, Copying, InEven, InAligned, InLongs, InOdd,
           InShifted, InWords, InBytes, InBack, Setting, Comparing
    <3>3. QED
      BY <3>2 DEF IInv, DoneAsDefined
  <2>3. QED
    BY <2>1, <2>2
<1>2. QED
  BY <1>1, Underway, PTL

-----------------------------------------------------------------------------
(* Where dcload is in memory, for images of every size that the linker     *)
(* lets through, and whatever is looked at outside the buffer: what is     *)
(* where, and what the caches may hold, at each part that runs.            *)
Loader == Area(LoaderAt, CodeSize, "loader")
Image == Area(0, image.data, "dcload")
Zeroes == Area(image.data, image.end - image.data, "zero")
Handler == Area(ExceptionAt, image.exception, "exception")
Program == Area(LoaderAt, ProgramSize, program)
ProgramCode == Area(LoaderAt, CodeSize, program)
ProgramData == Area(LoaderAt + CodeSize, ProgramSize - CodeSize, "data")

Has(mem, w) ==
    \A a \in Observed : Covers(w, a) /\ ~Covers(Buffer, a) => mem[a] = Content(w, a)
Loading == {"start", "clear", "copyException", "copyDcload"}
Mapped ==
    /\ image \in Images
    /\ cache \in {"off", "through", "back"}
    /\ program \in {"none", "first", "second"}
    /\ part \in Loading \cup {"crt0", "bss", "main", "loaded", "entry", "program", "handler"}

(* The loader writes over everything below itself, dcload over its own     *)
(* data, and a program over its own: nothing of it is run afterwards.      *)
Contents ==
    /\ part \in Loading => Has(memory, Loader)
    /\ part \notin {"start", "clear", "copyException"} => Has(memory, Handler)
    /\ part \notin Loading => Has(memory, Image)
    /\ part \in {"main", "loaded", "entry", "program"} => Has(memory, Zeroes)
    /\ part \in {"loaded", "entry"} => Has(memory, Program)
    /\ part = "program" => Has(memory, ProgramCode)

(* A cache that is not emptied has what is still there, or what is never   *)
(* where the next part is.                                                 *)
Caches ==
    /\ part = "start" => fetched = {Area(16384, 32768, "bootstrap")}
    /\ part \in {"clear", "copyException", "copyDcload", "entry"} => cache = "off" /\ fetched = {}
    /\ part \in {"bss", "main", "loaded"} => cache = "through" /\ fetched \subseteq {Image}
    /\ part = "program" => fetched \subseteq {ProgramCode}
    /\ part \in {"crt0", "handler"} => fetched \subseteq {ProgramCode, Handler}
    /\ dirty = <<>> \/ (part \in {"crt0", "program", "handler"} /\ dirty = <<ProgramData>>)

BootInv == Mapped /\ Contents /\ Caches

LEMMA Sizes ==
    ASSUME image \in Images
    PROVE  /\ image.data \in Nat /\ image.end \in Nat /\ image.exception \in Nat
           /\ image.data <= image.end /\ image.end <= 45280 /\ image.exception <= 3072
           /\ 4 * (image.data \div 4) = image.data
           /\ 4 * (image.exception \div 4) = image.exception
<1>1. /\ WholeWords(image.data) /\ WholeWords(image.end) /\ image.data <= image.end
      /\ WholeWords(image.exception) /\ image.exception <= LoaderAt - ExceptionAt
      /\ StackTop - image.end > StackLeast
  BY BootAssumption DEF Linked
<1>2. \A x \in Nat : x % 4 = 0 => 4 * (x \div 4) = x
  OBVIOUS
<1>3. QED
  BY <1>1, <1>2 DEF WholeWords, LoaderAt, ExceptionAt, StackTop, StackLeast

(* A write is at its own area, and leaves what is beside it.               *)
LEMMA WriteIsThere ==
    ASSUME NEW mem, NEW w
    PROVE  Has(Over(mem, w), w)
<1>1. ASSUME NEW a \in Observed, Covers(w, a) PROVE Over(mem, w)[a] = Content(w, a)
  BY <1>1 DEF Over
<1>2. QED
  BY <1>1 DEF Has

LEMMA Beside ==
    ASSUME NEW mem,
           NEW from \in Int, NEW size \in Int, NEW what,
           NEW at \in Int, NEW room \in Int, NEW written,
           Has(mem, Area(from, size, what)),
           from + size <= at \/ at + room <= from
    PROVE  Has(Over(mem, Area(at, room, written)), Area(from, size, what))
<1> DEFINE v == Area(from, size, what)
           w == Area(at, room, written)
<1>1. v.from = from /\ v.to = from + size /\ w.from = at /\ w.to = at + room
  BY DEF Area
<1> HIDE DEF v, w
<1>2. ASSUME NEW a \in Observed, Covers(v, a), ~Covers(Buffer, a)
      PROVE  Over(mem, w)[a] = Content(v, a)
  <2>1. a \in Int
    BY BootAssumption
  <2>2. ~Covers(w, a)
    BY <1>1, <1>2, <2>1 DEF Covers
  <2>3. Over(mem, w)[a] = mem[a]
    BY <2>2 DEF Over
  <2>4. Has(mem, v)
    BY DEF v
  <2>5. QED
    BY <1>2, <2>3, <2>4 DEF Has
<1>3. Has(Over(mem, w), v)
  BY <1>2 DEF Has
<1>4. QED
  BY <1>3 DEF v, w

(* Outside the buffer a block disturbs nothing.                            *)
LEMMA BlockElsewhere ==
    ASSUME NEW mem, NEW w, Has(mem, w) PROVE Has(Over(mem, Buffer), w)
<1>1. ASSUME NEW a \in Observed, Covers(w, a), ~Covers(Buffer, a)
      PROVE  Over(mem, Buffer)[a] = Content(w, a)
  <2>1. Over(mem, Buffer)[a] = mem[a]
    BY <1>1 DEF Over
  <2>2. QED
    BY <1>1, <2>1 DEF Has
<1>2. QED
  BY <1>1 DEF Has

(* What is there from somewhere on is there up to any place before its end. *)
LEMMA UpToThere ==
    ASSUME NEW mem, NEW from \in Int, NEW size \in Int, NEW less \in Int, NEW what,
           Has(mem, Area(from, size, what)), less <= size
    PROVE  Has(mem, Area(from, less, what))
<1>1. ASSUME NEW a \in Observed, Covers(Area(from, less, what), a), ~Covers(Buffer, a)
      PROVE  mem[a] = Content(Area(from, less, what), a)
  <2>1. a \in Int
    BY BootAssumption
  <2>2. Covers(Area(from, size, what), a)
    BY <1>1, <2>1 DEF Covers, Area
  <2>3. Content(Area(from, less, what), a) = Content(Area(from, size, what), a)
    BY DEF Content, Area
  <2>4. QED
    BY <1>1, <2>2, <2>3 DEF Has
<1>2. QED
  BY <1>1 DEF Has

LEMMA HasIt ==
    ASSUME NEW w
    PROVE  There(w) <=> Has(memory, w)
  BY DEF There, Has

-----------------------------------------------------------------------------
LEMMA BootHolds == BootInit => BootInv
<1> SUFFICES ASSUME NEW i \in Images, Booted(i) PROVE BootInv
  BY DEF BootInit
<1>1. Mapped
  BY DEF Booted, Mapped, Loading
<1>2. Contents
  <2>1. Has(memory, Area(LoaderAt, ProgramSize, "loader"))
    BY WriteIsThere DEF Booted
  <2>2. Has(memory, Loader)
    BY <2>1, UpToThere DEF Loader, LoaderAt, ProgramSize, CodeSize
  <2>3. QED
    BY <2>2 DEF Contents, Loading, Booted
<1>3. Caches
  BY DEF Caches, Booted
<1>4. QED
  BY <1>1, <1>2, <1>3 DEF BootInv

(* With the caches off memory alone counts.                                *)
LEMMA WrittenAtOnce ==
    ASSUME NEW w, Wrote(w), cache # "back"
    PROVE  memory' = Over(memory, w) /\ dirty' = dirty
  BY DEF Wrote

LEMMA DisableKeeps == BootInv /\ DisableCache => BootInv'
<1> SUFFICES ASSUME BootInv, DisableCache PROVE BootInv'
  OBVIOUS
<1>1. /\ part = "start" /\ part' = "clear" /\ image' = image /\ program' = program
      /\ memory' = memory /\ cache' = "off" /\ dirty' = <<>> /\ fetched' = {}
  BY DEF DisableCache, Runs, SetCache
<1>2. Mapped'
  BY <1>1 DEF BootInv, Mapped, Loading
<1>3. Contents'
  BY <1>1 DEF BootInv, Contents, Loading, Loader
<1>4. Caches'
  BY <1>1 DEF Caches
<1>5. QED
  BY <1>2, <1>3, <1>4 DEF BootInv

LEMMA ClearKeeps == BootInv /\ ClearArea => BootInv'
<1> SUFFICES ASSUME BootInv, ClearArea PROVE BootInv'
  OBVIOUS
<1>1. /\ part = "clear" /\ part' = "copyException" /\ image' = image /\ program' = program
      /\ cache = "off" /\ cache' = "off" /\ fetched' = {} /\ dirty = <<>>
  BY DEF ClearArea, Runs, CacheStays, BootInv, Caches
<1>2. memory' = Over(memory, Area(0, 49152, "zero")) /\ dirty' = <<>>
  BY <1>1, WrittenAtOnce DEF ClearArea, ClearedWords, LoaderAt
<1>3. Mapped'
  BY <1>1 DEF BootInv, Mapped, Loading
<1>4. Contents'
  <2>1. Has(memory, Area(LoaderAt, CodeSize, "loader"))
    BY <1>1 DEF BootInv, Contents, Loading, Loader
  <2>2. Has(memory', Area(LoaderAt, CodeSize, "loader"))
    BY <1>2, <2>1, Beside DEF LoaderAt, CodeSize
  <2>3. QED
    BY <1>1, <2>2 DEF Contents, Loading, Loader
<1>5. Caches'
  BY <1>1, <1>2 DEF Caches
<1>6. QED
  BY <1>3, <1>4, <1>5 DEF BootInv

LEMMA CopyExceptionKeeps == BootInv /\ CopyException => BootInv'
<1> SUFFICES ASSUME BootInv, CopyException PROVE BootInv'
  OBVIOUS
<1>1. /\ part = "copyException" /\ part' = "copyDcload" /\ image' = image /\ program' = program
      /\ cache = "off" /\ cache' = "off" /\ fetched' = {} /\ dirty = <<>>
  BY DEF CopyException, Runs, CacheStays, BootInv, Caches
<1>2. image.exception \in Nat /\ image.exception <= 3072 /\ 4 * (image.exception \div 4) = image.exception
  BY Sizes DEF BootInv, Mapped
<1>3. memory' = Over(memory, Area(ExceptionAt, image.exception, "exception")) /\ dirty' = <<>>
  BY <1>1, <1>2, WrittenAtOnce DEF CopyException
<1>4. Mapped'
  BY <1>1 DEF BootInv, Mapped, Loading
<1>5. Contents'
  <2>1. Has(memory, Area(LoaderAt, CodeSize, "loader"))
    BY <1>1 DEF BootInv, Contents, Loading, Loader
  <2>2. Has(memory', Area(LoaderAt, CodeSize, "loader"))
    BY <1>2, <1>3, <2>1, Beside DEF LoaderAt, CodeSize, ExceptionAt
  <2>3. Has(memory', Area(ExceptionAt, image.exception, "exception"))
    BY <1>3, WriteIsThere
  <2>4. QED
    BY <1>1, <2>2, <2>3 DEF Contents, Loading, Loader, Handler
<1>6. Caches'
  BY <1>1, <1>3 DEF Caches
<1>7. QED
  BY <1>4, <1>5, <1>6 DEF BootInv

LEMMA CopyDcloadKeeps == BootInv /\ CopyDcload => BootInv'
<1> SUFFICES ASSUME BootInv, CopyDcload PROVE BootInv'
  OBVIOUS
<1>1. /\ part = "copyDcload" /\ part' = "crt0" /\ image' = image /\ program' = program
      /\ cache = "off" /\ cache' = "off" /\ fetched' = {} /\ dirty = <<>>
  BY DEF CopyDcload, Runs, CacheStays, BootInv, Caches
<1>2. /\ image.data \in Nat /\ image.data <= 45280 /\ 4 * (image.data \div 4) = image.data
      /\ image.exception \in Nat
  BY Sizes DEF BootInv, Mapped
<1>3. memory' = Over(memory, Area(0, image.data, "dcload")) /\ dirty' = <<>>
  BY <1>1, <1>2, WrittenAtOnce DEF CopyDcload
<1>4. Mapped'
  BY <1>1 DEF BootInv, Mapped, Loading
<1>5. Contents'
  <2>1. Has(memory, Area(ExceptionAt, image.exception, "exception"))
    BY <1>1 DEF BootInv, Contents, Handler
  <2>2. Has(memory', Area(ExceptionAt, image.exception, "exception"))
    BY <1>2, <1>3, <2>1, Beside DEF ExceptionAt
  <2>3. Has(memory', Area(0, image.data, "dcload"))
    BY <1>3, WriteIsThere
  <2>4. QED
    BY <1>1, <2>2, <2>3 DEF Contents, Loading, Image, Handler
<1>6. Caches'
  BY <1>1, <1>3 DEF Caches
<1>7. QED
  BY <1>4, <1>5, <1>6 DEF BootInv

LEMMA SetupKeeps == BootInv /\ SetupCache => BootInv'
<1> SUFFICES ASSUME BootInv, SetupCache PROVE BootInv'
  OBVIOUS
<1>1. /\ part = "crt0" /\ part' = "bss" /\ image' = image /\ program' = program
      /\ memory' = memory /\ cache' = "through" /\ dirty' = <<>> /\ fetched' = {}
  BY DEF SetupCache, Runs, SetCache
<1>2. Mapped'
  BY <1>1 DEF BootInv, Mapped, Loading
<1>3. Contents'
  BY <1>1 DEF BootInv, Contents, Loading, Image, Handler
<1>4. Caches'
  BY <1>1 DEF Caches
<1>5. QED
  BY <1>2, <1>3, <1>4 DEF BootInv

LEMMA ClearBssKeeps == BootInv /\ ClearBss => BootInv'
<1> SUFFICES ASSUME BootInv, ClearBss PROVE BootInv'
  OBVIOUS
<1>1. /\ part = "bss" /\ part' = "main" /\ image' = image /\ program' = program
      /\ cache = "through" /\ cache' = "through" /\ fetched \subseteq {Image} /\ dirty = <<>>
      /\ fetched' = fetched \cup {Image}
  BY DEF ClearBss, Runs, CacheStays, BootInv, Caches, Code, Image
<1>2. /\ image.data \in Nat /\ image.end \in Nat /\ image.data <= image.end /\ image.end <= 45280
      /\ image.exception \in Nat
  BY Sizes DEF BootInv, Mapped
<1> DEFINE room == image.end + 4 - image.data
<1>3. memory' = Over(memory, Area(image.data, room, "zero")) /\ dirty' = <<>>
  BY <1>1, WrittenAtOnce DEF ClearBss, BssFrom
<1>4. room \in Nat /\ image.data + room = image.end + 4 /\ image.end - image.data \in Nat
      /\ image.end - image.data <= room
  BY <1>2
<1> HIDE DEF room
<1>5. Mapped'
  BY <1>1 DEF BootInv, Mapped, Loading
<1>6. Contents'
  <2>1. /\ Has(memory, Area(ExceptionAt, image.exception, "exception"))
        /\ Has(memory, Area(0, image.data, "dcload"))
    BY <1>1 DEF BootInv, Contents, Loading, Image, Handler
  <2>2. Has(memory', Area(ExceptionAt, image.exception, "exception"))
    BY <1>2, <1>3, <1>4, <2>1, Beside DEF ExceptionAt
  <2>3. Has(memory', Area(0, image.data, "dcload"))
    BY <1>2, <1>3, <1>4, <2>1, Beside
  <2>4. Has(memory', Area(image.data, image.end - image.data, "zero"))
    <3>1. Has(memory', Area(image.data, room, "zero"))
      BY <1>3, WriteIsThere
    <3>2. QED
      BY <1>2, <1>4, <3>1, UpToThere
  <2>5. QED
    BY <1>1, <2>2, <2>3, <2>4 DEF Contents, Loading, Image, Handler, Zeroes
<1>7. Caches'
  BY <1>1, <1>3 DEF Caches, Image
<1>8. QED
  BY <1>5, <1>6, <1>7 DEF BootInv

(* A write behind the handler disturbs neither it nor the image, nor the   *)
(* zeroes.                                                                 *)
LEMMA DcloadStays ==
    ASSUME BootInv, part \in {"main", "loaded", "program", "crt0", "handler"},
           NEW at \in Nat, NEW room \in Nat, NEW what,
           LoaderAt <= at
    PROVE  /\ Has(Over(memory, Area(at, room, what)), Image)
           /\ Has(Over(memory, Area(at, room, what)), Handler)
           /\ part \in {"main", "loaded", "program"} =>
                Has(Over(memory, Area(at, room, what)), Zeroes)
<1>1. /\ image.data \in Nat /\ image.end \in Nat /\ image.data <= image.end /\ image.end <= 45280
      /\ image.exception \in Nat /\ image.exception <= 3072
  BY Sizes DEF BootInv, Mapped
<1>2. /\ Has(memory, Area(ExceptionAt, image.exception, "exception"))
      /\ Has(memory, Area(0, image.data, "dcload"))
      /\ part \in {"main", "loaded", "program"} =>
           Has(memory, Area(image.data, image.end - image.data, "zero"))
  BY DEF BootInv, Contents, Loading, Image, Handler, Zeroes
<1>3. Has(Over(memory, Area(at, room, what)), Area(0, image.data, "dcload"))
  BY <1>1, <1>2, Beside DEF LoaderAt
<1>4. Has(Over(memory, Area(at, room, what)), Area(ExceptionAt, image.exception, "exception"))
  BY <1>1, <1>2, Beside DEF ExceptionAt, LoaderAt
<1>5. ASSUME part \in {"main", "loaded", "program"}
      PROVE  Has(Over(memory, Area(at, room, what)), Area(image.data, image.end - image.data, "zero"))
  <2> DEFINE from == image.data
             size == image.end - image.data
  <2>1. Has(memory, Area(from, size, "zero"))
    BY <1>2, <1>5
  <2>2. from \in Int /\ size \in Int /\ from + size <= at
    BY <1>1 DEF LoaderAt
  <2> HIDE DEF from, size
  <2>3. Has(Over(memory, Area(at, room, what)), Area(from, size, "zero"))
    BY <2>1, <2>2, Beside
  <2>4. QED
    BY <2>3 DEF from, size
<1>6. QED
  BY <1>3, <1>4, <1>5 DEF Image, Handler, Zeroes

LEMMA ReceiveKeeps == BootInv /\ ReceiveBlock => BootInv'
<1> SUFFICES ASSUME BootInv, ReceiveBlock PROVE BootInv'
  OBVIOUS
<1>1. /\ part = "main" /\ part' = "main" /\ image' = image /\ program' = program
      /\ cache = "through" /\ cache' = "through" /\ fetched \subseteq {Image} /\ dirty = <<>>
      /\ fetched' = fetched \cup {Image}
  BY DEF ReceiveBlock, Runs, CacheStays, BootInv, Caches, Code, Image
<1>2. memory' = Over(memory, Buffer) /\ dirty' = <<>>
  BY <1>1, WrittenAtOnce DEF ReceiveBlock
<1>3. Mapped'
  BY <1>1 DEF BootInv, Mapped, Loading
<1>4. Has(memory', Image) /\ Has(memory', Handler) /\ Has(memory', Zeroes)
  BY <1>1, <1>2, BlockElsewhere DEF BootInv, Contents, Loading
<1>5. Contents'
  BY <1>1, <1>4 DEF Contents, Loading, Image, Handler, Zeroes
<1>6. Caches'
  BY <1>1, <1>2 DEF Caches, Image
<1>7. QED
  BY <1>3, <1>5, <1>6 DEF BootInv

LEMMA LoadKeeps == BootInv /\ LoadProgram => BootInv'
<1> SUFFICES ASSUME BootInv, LoadProgram PROVE BootInv'
  OBVIOUS
<1>1. /\ part \in {"main", "loaded"} /\ part' = "loaded" /\ image' = image
      /\ cache = "through" /\ cache' = "through" /\ fetched \subseteq {Image} /\ dirty = <<>>
      /\ fetched' = fetched \cup {Image}
  BY DEF LoadProgram, Runs, CacheStays, BootInv, Caches, Code, Image
<1>2. /\ program' \in {"first", "second"}
      /\ Wrote(Area(LoaderAt, ProgramSize, program'))
  BY DEF LoadProgram
<1>3. memory' = Over(memory, Area(LoaderAt, ProgramSize, program')) /\ dirty' = <<>>
  BY <1>1, <1>2, WrittenAtOnce
<1>4. Mapped'
  BY <1>1, <1>2 DEF BootInv, Mapped, Loading
<1>5. Has(memory', Image) /\ Has(memory', Handler) /\ Has(memory', Zeroes)
  BY <1>1, <1>3, DcloadStays DEF LoaderAt, ProgramSize
<1>6. Has(memory', Area(LoaderAt, ProgramSize, program'))
  BY <1>3, WriteIsThere
<1>7. Contents'
  BY <1>1, <1>5, <1>6 DEF Contents, Loading, Image, Handler, Zeroes, Program
<1>8. Caches'
  BY <1>1, <1>3 DEF Caches, Image
<1>9. QED
  BY <1>4, <1>7, <1>8 DEF BootInv

LEMMA ExecuteKeeps == BootInv /\ Execute => BootInv'
<1> SUFFICES ASSUME BootInv, Execute PROVE BootInv'
  OBVIOUS
<1>1. /\ part = "loaded" /\ part' = "entry" /\ image' = image /\ program' = program
      /\ memory' = memory /\ cache' = "off" /\ dirty' = <<>> /\ fetched' = {}
  BY DEF Execute, Runs, SetCache
<1>2. Mapped'
  BY <1>1 DEF BootInv, Mapped, Loading
<1>3. Contents'
  BY <1>1 DEF BootInv, Contents, Loading, Image, Handler, Zeroes, Program
<1>4. Caches'
  BY <1>1 DEF Caches
<1>5. QED
  BY <1>2, <1>3, <1>4 DEF BootInv

LEMMA StartKeeps == BootInv /\ ProgramStarts => BootInv'
<1> SUFFICES ASSUME BootInv, ProgramStarts PROVE BootInv'
  OBVIOUS
<1>1. /\ part = "entry" /\ part' = "program" /\ image' = image /\ program' = program
      /\ memory' = memory /\ cache' \in {"through", "back"} /\ dirty' = <<>> /\ fetched' = {}
  BY DEF ProgramStarts, Runs, SetCache
<1>2. Mapped'
  BY <1>1 DEF BootInv, Mapped, Loading
<1>3. Contents'
  <2>1. Has(memory, Area(LoaderAt, ProgramSize, program))
    BY <1>1 DEF BootInv, Contents, Program
  <2>2. Has(memory, Area(LoaderAt, CodeSize, program))
    BY <2>1, UpToThere DEF LoaderAt, ProgramSize, CodeSize
  <2>3. QED
    BY <1>1, <2>2 DEF BootInv, Contents, Loading, Image, Handler, Zeroes, ProgramCode
<1>4. Caches'
  BY <1>1 DEF Caches
<1>5. QED
  BY <1>2, <1>3, <1>4 DEF BootInv

(* A program's writes to its data, at once or late: dcload, the handler    *)
(* and the code of the program stay.                                       *)
LEMMA DataWritten ==
    ASSUME BootInv, part \in {"program", "crt0", "handler"}
    PROVE  /\ Has(Over(memory, ProgramData), Image)
           /\ Has(Over(memory, ProgramData), Handler)
           /\ part = "program" => Has(Over(memory, ProgramData), Zeroes)
           /\ part = "program" => Has(Over(memory, ProgramData), ProgramCode)
<1>1. ProgramData = Area(51200, 2048, "data")
  BY DEF ProgramData, LoaderAt, CodeSize, ProgramSize
<1>2. ASSUME part = "program" PROVE Has(Over(memory, ProgramData), ProgramCode)
  <2>1. Has(memory, Area(LoaderAt, CodeSize, program))
    BY <1>2 DEF BootInv, Contents, ProgramCode
  <2>2. Has(Over(memory, Area(51200, 2048, "data")), Area(LoaderAt, CodeSize, program))
    BY <2>1, Beside DEF LoaderAt, CodeSize
  <2>3. QED
    BY <1>1, <2>2 DEF ProgramCode
<1>3. LoaderAt <= 51200
  BY DEF LoaderAt
<1>4. QED
  BY <1>1, <1>2, <1>3, DcloadStays

LEMMA ProgramWritesKeeps == BootInv /\ ProgramWrites => BootInv'
<1> SUFFICES ASSUME BootInv, ProgramWrites PROVE BootInv'
  OBVIOUS
<1>1. /\ part = "program" /\ part' = "program" /\ image' = image /\ program' = program
      /\ cache' = cache /\ fetched \subseteq {ProgramCode} /\ dirty = <<>>
      /\ fetched' \subseteq {ProgramCode}
  BY DEF ProgramWrites, Runs, CacheStays, BootInv, Caches, Code, ProgramCode
<1>2. Wrote(ProgramData)
  BY DEF ProgramWrites, ProgramData
<1>3. memory' = memory \/ memory' = Over(memory, ProgramData)
  BY <1>2 DEF Wrote
<1>4. dirty' = <<>> \/ dirty' = <<ProgramData>>
  BY <1>1, <1>2 DEF Wrote
<1>5. Mapped'
  BY <1>1 DEF BootInv, Mapped, Loading
<1>6. /\ Has(memory', Image) /\ Has(memory', Handler) /\ Has(memory', Zeroes)
      /\ Has(memory', ProgramCode)
  <2>1. CASE memory' = memory
    BY <1>1, <2>1 DEF BootInv, Contents, Loading
  <2>2. CASE memory' = Over(memory, ProgramData)
    BY <1>1, <2>2, DataWritten
  <2>3. QED
    BY <1>3, <2>1, <2>2
<1>7. Contents'
  BY <1>1, <1>6 DEF Contents, Loading, Image, Handler, Zeroes, ProgramCode
<1>8. Caches'
  <2>1. ProgramCode' = ProgramCode /\ ProgramData' = ProgramData
    BY <1>1 DEF ProgramCode, ProgramData
  <2>2. QED
    BY <1>1, <1>4, <2>1 DEF Caches
<1>9. QED
  BY <1>5, <1>7, <1>8 DEF BootInv

(* The three ways on, and back: only what runs is another.                 *)
LEMMA WayOn ==
    ASSUME BootInv, part \in {"program", "handler"}, part' \in {"crt0", "handler"},
           UNCHANGED <<image, program, memory, dirty>>, CacheStays
    PROVE  BootInv'
<1>1. /\ image' = image /\ program' = program /\ memory' = memory /\ dirty' = dirty
      /\ cache' = cache
  BY DEF CacheStays
<1>2. Mapped'
  BY <1>1 DEF BootInv, Mapped, Loading
<1>3. Contents'
  BY <1>1 DEF BootInv, Contents, Loading, Image, Handler
<1>4. fetched' \subseteq {ProgramCode, Handler}
  BY DEF CacheStays, BootInv, Caches, Code, ProgramCode, Handler
<1>5. Caches'
  <2>1. ProgramCode' = ProgramCode /\ ProgramData' = ProgramData /\ Handler' = Handler
    BY <1>1 DEF ProgramCode, ProgramData, Handler
  <2>2. dirty = <<>> \/ dirty = <<ProgramData>>
    BY DEF BootInv, Caches
  <2>3. QED
    BY <1>1, <1>4, <2>1, <2>2 DEF Caches
<1>6. QED
  BY <1>2, <1>3, <1>5 DEF BootInv

LEMMA WriteBackKeeps == BootInv /\ WriteBack => BootInv'
<1> SUFFICES ASSUME BootInv, WriteBack PROVE BootInv'
  OBVIOUS
<1>1. /\ part \in {"crt0", "program", "handler"} /\ dirty = <<ProgramData>>
      /\ image' = image /\ part' = part /\ program' = program
      /\ cache' = cache /\ fetched' = fetched
  BY DEF WriteBack, BootInv, Caches
<1>2. memory' = Over(memory, ProgramData) /\ dirty' = <<>>
  BY <1>1 DEF WriteBack
<1>3. Mapped'
  BY <1>1 DEF BootInv, Mapped, Loading
<1>4. Contents'
  BY <1>1, <1>2, DataWritten DEF Contents, Loading, Image, Handler, Zeroes, ProgramCode
<1>5. Caches'
  <2>1. ProgramCode' = ProgramCode /\ Handler' = Handler
    BY <1>1 DEF ProgramCode, Handler
  <2>2. QED
    BY <1>1, <1>2, <2>1 DEF BootInv, Caches
<1>6. QED
  BY <1>3, <1>4, <1>5 DEF BootInv

LEMMA BootKeeps == BootInv /\ [BootNext]_bootVars => BootInv'
<1> SUFFICES ASSUME BootInv, [BootNext]_bootVars PROVE BootInv'
  OBVIOUS
<1>1. CASE DisableCache
  BY <1>1, DisableKeeps
<1>2. CASE ClearArea
  BY <1>2, ClearKeeps
<1>3. CASE CopyException
  BY <1>3, CopyExceptionKeeps
<1>4. CASE CopyDcload
  BY <1>4, CopyDcloadKeeps
<1>5. CASE SetupCache
  BY <1>5, SetupKeeps
<1>6. CASE ClearBss
  BY <1>6, ClearBssKeeps
<1>7. CASE ReceiveBlock
  BY <1>7, ReceiveKeeps
<1>8. CASE LoadProgram
  BY <1>8, LoadKeeps
<1>9. CASE Execute
  BY <1>9, ExecuteKeeps
<1>10. CASE ProgramStarts
  BY <1>10, StartKeeps
<1>11. CASE ProgramWrites
  BY <1>11, ProgramWritesKeeps
<1>12. CASE ProgramOver \/ ProgramFault \/ HandlerOver
  BY <1>12, WayOn DEF ProgramOver, ProgramFault, HandlerOver, Runs
<1>13. CASE WriteBack
  BY <1>13, WriteBackKeeps
<1>14. CASE UNCHANGED bootVars
  <2>1. UNCHANGED <<image, part, program, memory, cache, dirty, fetched>>
    BY <1>14 DEF bootVars
  <2>2. QED
    BY <2>1 DEF BootInv, Mapped, Contents, Caches, Loader, Image, Zeroes, Handler, Program,
                ProgramCode, ProgramData
<1>15. QED
  BY <1>1, <1>2, <1>3, <1>4, <1>5, <1>6, <1>7, <1>8, <1>9, <1>10, <1>11, <1>12, <1>13, <1>14
     DEF BootNext

(* For images of every size that the linker lets through, those that reach *)
(* into the buffer too, what is in memory at every address outside the     *)
(* buffer, and in the caches, is what the parts that are still to run      *)
(* need, through any number of blocks, programs and exceptions.            *)
THEOREM StaysMapped == BootSpec => []BootInv
<1>1. QED
  BY BootHolds, BootKeeps, PTL DEF BootSpec

(* Whenever main or a program runs, dcload, its zeroes and the exception   *)
(* handler are at every address where they were linked to: all of them, if *)
(* the image ends before the buffer, and else outside the buffer.          *)
THEOREM DcloadInPlace == BootSpec => []LaidOut
<1>1. BootInv => LaidOut
  BY HasIt DEF BootInv, Contents, LaidOut, Loading, Image, Zeroes, Handler
<1>2. QED
  BY <1>1, StaysMapped, PTL

(* What is fetched outside the buffer is what was written to be run, from  *)
(* memory or from the cache, at every part: the loader while it clears     *)
(* everything below it, dcload over what the CD's bootstrap left cached,   *)
(* the second program over the first, and the handler under any caches.    *)
THEOREM NothingStaleRuns == BootSpec => []RunsWhatWasWritten
<1>1. ASSUME BootInv PROVE RunsWhatWasWritten
  <2>1. /\ image.data \in Nat /\ image.data <= 45280
        /\ image.exception \in Nat /\ image.exception <= 3072
    BY <1>1, Sizes DEF BootInv, Mapped
  <2>2. CASE part \in Loading
    <3>1. Code(part) = Loader
      BY <2>2 DEF Code, Loader, Loading
    <3>2. There(Loader)
      BY <1>1, <2>2, HasIt DEF BootInv, Contents
    <3>3. part = "start" \/ cache = "off"
      BY <1>1, <2>2 DEF BootInv, Caches, Loading
    <3>4. part = "start" => \A f \in fetched : f.to <= Loader.from
      BY <1>1 DEF BootInv, Caches, Loader, Area, LoaderAt
    <3>5. QED
      BY <3>1, <3>2, <3>3, <3>4 DEF RunsWhatWasWritten
  <2>3. CASE part \in {"crt0", "bss", "main", "loaded"}
    <3>1. Code(part) = Image
      BY <2>3 DEF Code, Image
    <3>2. There(Image)
      BY <1>1, <2>3, HasIt DEF BootInv, Contents, Loading
    <3>3. fetched \subseteq {Image} \/ fetched \subseteq {ProgramCode, Handler}
      BY <1>1, <2>3 DEF BootInv, Caches
    <3>4. Image.to <= ProgramCode.from /\ Image.to <= Handler.from
      BY <2>1 DEF Image, ProgramCode, Handler, Area, LoaderAt, ExceptionAt
    <3>5. QED
      BY <3>1, <3>2, <3>3, <3>4 DEF RunsWhatWasWritten
  <2>4. CASE part = "handler"
    <3>1. Code(part) = Handler
      BY <2>4 DEF Code, Handler
    <3>2. There(Handler)
      BY <1>1, <2>4, HasIt DEF BootInv, Contents
    <3>3. fetched \subseteq {ProgramCode, Handler}
      BY <1>1, <2>4 DEF BootInv, Caches
    <3>4. Handler.to <= ProgramCode.from
      BY <2>1 DEF ProgramCode, Handler, Area, LoaderAt, ExceptionAt
    <3>5. QED
      BY <3>1, <3>2, <3>3, <3>4 DEF RunsWhatWasWritten
  <2>5. CASE part = "entry"
    <3>1. Code(part) = Program
      BY <2>5 DEF Code, Program
    <3>2. There(Program) /\ cache = "off"
      BY <1>1, <2>5, HasIt DEF BootInv, Contents, Caches
    <3>3. QED
      BY <3>1, <3>2 DEF RunsWhatWasWritten
  <2>6. CASE part = "program"
    <3>1. Code(part) = ProgramCode
      BY <2>6 DEF Code, ProgramCode
    <3>2. There(ProgramCode) /\ fetched \subseteq {ProgramCode}
      BY <1>1, <2>6, HasIt DEF BootInv, Contents, Caches
    <3>3. QED
      BY <3>1, <3>2 DEF RunsWhatWasWritten
  <2>7. QED
    BY <1>1, <2>2, <2>3, <2>4, <2>5, <2>6 DEF BootInv, Mapped
<1>2. QED
  BY <1>1, StaysMapped, PTL

-----------------------------------------------------------------------------
(* What is on the screen, for every font, title and number, every cable    *)
(* and every depth of the pixels: the title, the progress as far as it has *)
(* been drawn, and nothing else.                                           *)
PixelAt(x, y) == 2 * x + LineBytes * y
Pixels(string, k) == {t \in (1 .. k) \X (0 .. CharHeight - 1) \X (0..11) :
                         FontBit(string[t[1]], t[2], t[3])}
Picture(y, string, k) == {PixelAt(12 * (t[1] - 1) + t[3], y + t[2]) : t \in Pixels(string, k)}

Line(p) == <<40>> \o p.current \o <<47>> \o p.total \o <<41>>
Piece(p, q) == <<<<40>>, p.current, <<47>>, p.total, <<41>>>>[q]
Column(q) == IF q = 1 THEN 0 ELSE IF q = 2 THEN 1 ELSE IF q = 3 THEN 9 ELSE IF q = 4 THEN 10
             ELSE IF q = 5 THEN 18 ELSE 19
Width(q) == IF q \in {2, 4} THEN 8 ELSE 1
TitleShown == Picture(24, Title, Len(Title))
UpToNow(n) == TitleShown \cup (IF n = 0 THEN {} ELSE Picture(72, Line(show.progress[n]), 19))

(* A string of which k characters have been drawn.                         *)
Rest(x, y, string, k) == Draw(x + 12 * k, y, SubSeq(string, k + 1, Len(string)))

Dark == todo = <<[do |-> "setup"], Draw(0, 24, Title)>> /\ shown = 0 /\ regs = <<>> /\ vram = {}
Titling ==
    /\ shown = 0
    /\ \E k \in 0 .. Len(Title) :
          todo = <<Rest(0, 24, Title, k)>> /\ vram = Picture(24, Title, k)
Resting == todo = <<>> /\ vram = UpToNow(shown)
Clearing == shown > 0 /\ todo = Progress(show.progress[shown]) /\ vram = UpToNow(shown - 1)
Writing(p, q, k) ==
    /\ todo = <<Rest(12 * Column(q), 72, Piece(p, q), k)>> \o SubSeq(Progress(p), q + 2, 6)
    /\ vram = TitleShown \cup Picture(72, Line(p), Column(q) + k)
Progressing ==
    /\ shown > 0
    /\ \E q \in 1..5 : \E k \in 0 .. Len(Piece(show.progress[shown], q)) :
          Writing(show.progress[shown], q, k)

ScreenInv ==
    /\ show \in Shows /\ shown \in 0 .. Len(show.progress)
    /\ regs = <<>> \/ regs = InitVideo(CheckCable(show.port), show.mode)
    /\ Dark \/ Titling \/ Resting \/ Clearing \/ Progressing

-----------------------------------------------------------------------------
(* Three bytes of the font make a word whose bits are theirs, in order.    *)
ByteOf(a, b, c, k) == IF k < 8 THEN a ELSE IF k < 16 THEN b ELSE c
WordBit(a, b, c, k) == ((a * 65536 + b * 256 + c) \div 2 ^ (23 - k)) % 2
ByteBit(a, b, c, k) == (ByteOf(a, b, c, k) \div 2 ^ (7 - (k % 8))) % 2

LEMMA WordOfThree ==
    ASSUME NEW a \in Chars, NEW b \in Chars, NEW c \in Chars, NEW k \in 0..23
    PROVE  WordBit(a, b, c, k) = ByteBit(a, b, c, k)
<1> USE DEF Chars, WordBit, ByteBit
<1>0. a * 256 + b \in Nat /\ a * 65536 + b * 256 + c = (a * 256 + b) * 256 + c
  OBVIOUS
<1>1. CASE k = 0
  BY <1>1, SMTT(60) DEF ByteOf
<1>2. CASE k = 1
  BY <1>2, SMTT(60) DEF ByteOf
<1>3. CASE k = 2
  BY <1>3, SMTT(60) DEF ByteOf
<1>4. CASE k = 3
  BY <1>4, SMTT(60) DEF ByteOf
<1>5. CASE k = 4
  BY <1>5, SMTT(60) DEF ByteOf
<1>6. CASE k = 5
  BY <1>6, SMTT(60) DEF ByteOf
<1>7. CASE k = 6
  BY <1>7, SMTT(60) DEF ByteOf
<1>8. CASE k = 7
  BY <1>8, SMTT(60) DEF ByteOf
<1>9. CASE k = 8
  <2>1. \A h \in Nat : (h * 256 + c) \div 32768 = h \div 128
    BY SMTT(60)
  <2>2. ((a * 256 + b) \div 128) % 2 = (b \div 128) % 2
    BY SMTT(60)
  <2>3. QED
    BY <1>9, <2>1, <2>2, <1>0 DEF ByteOf
<1>10. CASE k = 9
  <2>1. \A h \in Nat : (h * 256 + c) \div 16384 = h \div 64
    BY SMTT(60)
  <2>2. ((a * 256 + b) \div 64) % 2 = (b \div 64) % 2
    BY SMTT(60)
  <2>3. QED
    BY <1>10, <2>1, <2>2, <1>0 DEF ByteOf
<1>11. CASE k = 10
  <2>1. \A h \in Nat : (h * 256 + c) \div 8192 = h \div 32
    BY SMTT(60)
  <2>2. ((a * 256 + b) \div 32) % 2 = (b \div 32) % 2
    BY SMTT(60)
  <2>3. QED
    BY <1>11, <2>1, <2>2, <1>0 DEF ByteOf
<1>12. CASE k = 11
  <2>1. \A h \in Nat : (h * 256 + c) \div 4096 = h \div 16
    BY SMTT(60)
  <2>2. ((a * 256 + b) \div 16) % 2 = (b \div 16) % 2
    BY SMTT(60)
  <2>3. QED
    BY <1>12, <2>1, <2>2, <1>0 DEF ByteOf
<1>13. CASE k = 12
  <2>1. \A h \in Nat : (h * 256 + c) \div 2048 = h \div 8
    BY SMTT(60)
  <2>2. ((a * 256 + b) \div 8) % 2 = (b \div 8) % 2
    BY SMTT(60)
  <2>3. QED
    BY <1>13, <2>1, <2>2, <1>0 DEF ByteOf
<1>14. CASE k = 13
  <2>1. \A h \in Nat : (h * 256 + c) \div 1024 = h \div 4
    BY SMTT(60)
  <2>2. ((a * 256 + b) \div 4) % 2 = (b \div 4) % 2
    BY SMTT(60)
  <2>3. QED
    BY <1>14, <2>1, <2>2, <1>0 DEF ByteOf
<1>15. CASE k = 14
  <2>1. \A h \in Nat : (h * 256 + c) \div 512 = h \div 2
    BY SMTT(60)
  <2>2. ((a * 256 + b) \div 2) % 2 = (b \div 2) % 2
    BY SMTT(60)
  <2>3. QED
    BY <1>15, <2>1, <2>2, <1>0 DEF ByteOf
<1>16. CASE k = 15
  <2>1. \A h \in Nat : (h * 256 + c) \div 256 = h \div 1
    BY SMTT(60)
  <2>2. ((a * 256 + b) \div 1) % 2 = (b \div 1) % 2
    BY SMTT(60)
  <2>3. QED
    BY <1>16, <2>1, <2>2, <1>0 DEF ByteOf
<1>17. CASE k = 16
  <2>1. \A h \in Nat : ((h * 256 + c) \div 128) % 2 = (c \div 128) % 2
    BY SMTT(60)
  <2>2. QED
    BY <1>17, <2>1, <1>0 DEF ByteOf
<1>18. CASE k = 17
  <2>1. \A h \in Nat : ((h * 256 + c) \div 64) % 2 = (c \div 64) % 2
    BY SMTT(60)
  <2>2. QED
    BY <1>18, <2>1, <1>0 DEF ByteOf
<1>19. CASE k = 18
  <2>1. \A h \in Nat : ((h * 256 + c) \div 32) % 2 = (c \div 32) % 2
    BY SMTT(60)
  <2>2. QED
    BY <1>19, <2>1, <1>0 DEF ByteOf
<1>20. CASE k = 19
  <2>1. \A h \in Nat : ((h * 256 + c) \div 16) % 2 = (c \div 16) % 2
    BY SMTT(60)
  <2>2. QED
    BY <1>20, <2>1, <1>0 DEF ByteOf
<1>21. CASE k = 20
  <2>1. \A h \in Nat : ((h * 256 + c) \div 8) % 2 = (c \div 8) % 2
    BY SMTT(60)
  <2>2. QED
    BY <1>21, <2>1, <1>0 DEF ByteOf
<1>22. CASE k = 21
  <2>1. \A h \in Nat : ((h * 256 + c) \div 4) % 2 = (c \div 4) % 2
    BY SMTT(60)
  <2>2. QED
    BY <1>22, <2>1, <1>0 DEF ByteOf
<1>23. CASE k = 22
  <2>1. \A h \in Nat : ((h * 256 + c) \div 2) % 2 = (c \div 2) % 2
    BY SMTT(60)
  <2>2. QED
    BY <1>23, <2>1, <1>0 DEF ByteOf
<1>24. CASE k = 23
  <2>1. \A h \in Nat : ((h * 256 + c) \div 1) % 2 = (c \div 1) % 2
    BY SMTT(60)
  <2>2. QED
    BY <1>24, <2>1, <1>0 DEF ByteOf
<1>25. QED
  BY <1>1, <1>2, <1>3, <1>4, <1>5, <1>6, <1>7, <1>8, <1>9, <1>10, <1>11, <1>12,
     <1>13, <1>14, <1>15, <1>16, <1>17, <1>18, <1>19, <1>20, <1>21, <1>22, <1>23, <1>24

LEMMA GlyphInFont ==
    ASSUME NEW char \in Chars
    PROVE  Glyph(char) \in 0..288
  BY DEF Glyph, Chars, Blank

LEMMA FontBytes ==
    ASSUME NEW n \in Nat, n <= 10403
    PROVE  Font[n] \in Chars
<1>1. FontSize \in Nat /\ n <= FontSize - 1
  BY DEF FontSize, Blank
<1>2. \A at \in 0 .. FontSize - 1 : Font[at] \in Chars
  BY ScreenAssumption DEF Chars
<1>3. n \in 0 .. FontSize - 1
  BY <1>1
<1>4. QED
  BY <1>2, <1>3

(* What draw_char12 shifts out of the word is what a viewer sees of it.    *)
LEMMA BitOfChar ==
    ASSUME NEW char \in Chars, NEW pair \in 0..11, NEW k \in 0..23
    PROVE  (Loaded(char, pair) \div 2 ^ (23 - k)) % 2 = 1
               <=> FontBit(char, 2 * pair + k \div 12, k % 12)
<1> DEFINE g == 36 * Glyph(char)
           a == Font[g + 3 * pair]
           b == Font[g + 3 * pair + 1]
           c == Font[g + 3 * pair + 2]
           at == 24 * pair + k
<1>1. g \in Nat /\ g + 3 * pair + 2 <= 10403
  <2>1. Glyph(char) \in 0..288
    BY GlyphInFont
  <2>2. \A n \in 0..288 : 36 * n \in Nat /\ 36 * n <= 10368
    OBVIOUS
  <2>3. g \in Nat /\ g <= 10368
    BY <2>1, <2>2
  <2> HIDE DEF g
  <2>4. QED
    BY <2>3
<1>2. a \in Chars
  <2> HIDE DEF g
  <2>1. QED
    BY <1>1, FontBytes
<1>3. a \in Chars /\ b \in Chars /\ c \in Chars
  <2> HIDE DEF g
  <2>1. g + 3 * pair + 1 \in Nat /\ g + 3 * pair + 2 \in Nat
    BY <1>1
  <2>2. b \in Chars
    BY <1>1, <2>1, FontBytes
  <2>3. c \in Chars
    BY <1>1, <2>1, FontBytes
  <2>4. QED
    BY <1>2, <2>2, <2>3
<1>4. Loaded(char, pair) = a * 65536 + b * 256 + c
  BY DEF Loaded
<1> DEFINE row == 2 * pair + k \div 12
           i == k % 12
<1>5. 12 * row + i = at /\ at \div 8 = 3 * pair + k \div 8 /\ at % 8 = k % 8
  OBVIOUS
<1>6. FontBit(char, row, i) <=> (Font[g + at \div 8] \div 2 ^ (7 - (k % 8))) % 2 = 1
  <2> HIDE DEF at, row, i
  <2>1. QED
    BY <1>5 DEF FontBit
<1> DEFINE byte == ByteOf(a, b, c, k)
<1>7. Font[g + at \div 8] = byte
  <2> USE DEF ByteOf
  <2> HIDE DEF g, at
  <2>1. g + at \div 8 = g + 3 * pair + k \div 8
    BY <1>1, <1>5
  <2>2. CASE k < 8
    <3>1. g + at \div 8 = g + 3 * pair
      BY <1>1, <2>1, <2>2
    <3>2. QED
      BY <2>2, <3>1
  <2>3. CASE k >= 8 /\ k < 16
    <3>1. g + at \div 8 = g + 3 * pair + 1
      BY <1>1, <2>1, <2>3
    <3>2. QED
      BY <2>3, <3>1
  <2>4. CASE k >= 16
    <3>1. g + at \div 8 = g + 3 * pair + 2
      BY <1>1, <2>1, <2>4
    <3>2. QED
      BY <2>4, <3>1
  <2>5. QED
    BY <2>2, <2>3, <2>4
<1> HIDE DEF g, a, b, c, at, row, i
<1>8. WordBit(a, b, c, k) = ByteBit(a, b, c, k)
  BY <1>3, WordOfThree
<1>9. (Loaded(char, pair) \div 2 ^ (23 - k)) % 2 = WordBit(a, b, c, k)
  BY <1>4 DEF WordBit
<1>10. FontBit(char, row, i) <=> ByteBit(a, b, c, k) = 1
  BY <1>6, <1>7 DEF ByteBit
<1>11. (Loaded(char, pair) \div 2 ^ (23 - k)) % 2 = 1 <=> FontBit(char, row, i)
  BY <1>8, <1>9, <1>10
<1>12. QED
  BY <1>11 DEF row, i

(* A character drawn at a place: the pixels of its rows, line by line.     *)
LEMMA CharPixels ==
    ASSUME NEW char \in Chars, NEW x \in Nat, NEW y \in Nat, NEW a
    PROVE  a \in DrawChar(x, y, char)
               <=> \E row \in 0..23, i \in 0..11 :
                      FontBit(char, row, i) /\ a = PixelAt(x + i, y + row)
<1> DEFINE ones(pair) == {k \in 0..23 : (Loaded(char, pair) \div 2 ^ (23 - k)) % 2 = 1}
           pixel(line, i) == 2 * x + LineBytes * y + line * (2 * 12 + DrawMod) + 2 * i
<1>1. a \in DrawChar(x, y, char)
          <=> \E pair \in 0..11 : \E k \in ones(pair) : a = pixel(2 * pair + k \div 12, k % 12)
  BY DEF DrawChar
<1>2. \A line, i \in Nat : pixel(line, i) = PixelAt(x + i, y + line)
  BY DEF DrawMod, PixelAt, LineBytes
<1>3. \A k \in 0..23, pair \in 0..11 :
         2 * pair + k \div 12 \in 0..23 /\ k % 12 \in 0..11
  OBVIOUS
<1>4. ASSUME a \in DrawChar(x, y, char)
      PROVE  \E row \in 0..23, i \in 0..11 : FontBit(char, row, i) /\ a = PixelAt(x + i, y + row)
  <2>0. PICK pair \in 0..11 : \E k \in ones(pair) : a = pixel(2 * pair + k \div 12, k % 12)
    BY <1>1, <1>4
  <2>1. PICK k \in ones(pair) : a = pixel(2 * pair + k \div 12, k % 12)
    BY <2>0
  <2>2. k \in 0..23 /\ FontBit(char, 2 * pair + k \div 12, k % 12)
    BY BitOfChar
  <2> DEFINE row == 2 * pair + k \div 12
             i == k % 12
  <2>3. row \in 0..23 /\ i \in 0..11
    BY <1>3, <2>2
  <2>4. FontBit(char, row, i) /\ a = pixel(row, i)
    BY <2>1, <2>2
  <2> HIDE DEF row, i, pixel
  <2>5. a = PixelAt(x + i, y + row)
    BY <1>2, <2>3, <2>4
  <2>6. QED
    BY <2>3, <2>4, <2>5
<1>5. ASSUME NEW row \in 0..23, NEW i \in 0..11, FontBit(char, row, i), a = PixelAt(x + i, y + row)
      PROVE  a \in DrawChar(x, y, char)
  <2> DEFINE pair == row \div 2
             k == 12 * (row % 2) + i
  <2>1. pair \in 0..11 /\ k \in 0..23 /\ row = 2 * pair + k \div 12 /\ i = k % 12
    OBVIOUS
  <2> HIDE DEF pair, k
  <2>2. FontBit(char, 2 * pair + k \div 12, k % 12)
    BY <1>5, <2>1
  <2>3. k \in ones(pair)
    BY <2>1, <2>2, BitOfChar
  <2>4. a = pixel(row, i)
    <3> HIDE DEF pixel
    <3>1. QED
      BY <1>2, <1>5
  <2>5. a = pixel(2 * pair + k \div 12, k % 12)
    <3> HIDE DEF pixel
    <3>1. QED
      BY <2>1, <2>4
  <2> HIDE DEF ones, pixel
  <2>6. QED
    BY <1>1, <2>1, <2>3, <2>5
<1>6. QED
  BY <1>4, <1>5

-----------------------------------------------------------------------------
(* Pictures of strings: a character more, where they are, what is seen.    *)
Lit(y, string, n, a) == \E row \in 0..23, i \in 0..11 :
    FontBit(string[n], row, i) /\ a = PixelAt(12 * (n - 1) + i, y + row)

LEMMA InPicture ==
    ASSUME NEW string, NEW k \in Nat, NEW y, NEW a
    PROVE  a \in Picture(y, string, k) <=> \E n \in 1..k : Lit(y, string, n, a)
<1>1. CharHeight - 1 = 23
  BY DEF CharHeight
<1>2. \A n, row, i : <<n, row, i>> \in Pixels(string, k)
          <=> n \in 1..k /\ row \in 0..23 /\ i \in 0..11 /\ FontBit(string[n], row, i)
  BY <1>1 DEF Pixels
<1>3. ASSUME a \in Picture(y, string, k)
      PROVE  \E n \in 1..k : Lit(y, string, n, a)
  <2>1. PICK t \in Pixels(string, k) : a = PixelAt(12 * (t[1] - 1) + t[3], y + t[2])
    BY <1>3 DEF Picture
  <2>2. t[1] \in 1..k /\ t[2] \in 0..23 /\ t[3] \in 0..11 /\ FontBit(string[t[1]], t[2], t[3])
    BY <1>1 DEF Pixels
  <2>3. QED
    BY <2>1, <2>2 DEF Lit
<1>4. ASSUME NEW n \in 1..k, NEW row \in 0..23, NEW i \in 0..11,
             FontBit(string[n], row, i), a = PixelAt(12 * (n - 1) + i, y + row)
      PROVE  a \in Picture(y, string, k)
  <2> DEFINE t == <<n, row, i>>
  <2>1. t \in Pixels(string, k) /\ t[1] = n /\ t[2] = row /\ t[3] = i
    BY <1>2, <1>4
  <2> HIDE DEF t
  <2>2. a = PixelAt(12 * (t[1] - 1) + t[3], y + t[2])
    BY <1>4, <2>1
  <2>3. QED
    BY <2>1, <2>2 DEF Picture
<1>5. QED
  BY <1>3, <1>4 DEF Lit

LEMMA NothingDrawn ==
    ASSUME NEW string, NEW y
    PROVE  Picture(y, string, 0) = {}
  BY InPicture

LEMMA OneMoreDrawn ==
    ASSUME NEW string, NEW k \in Nat, NEW y \in Nat, string[k + 1] \in Chars
    PROVE  Picture(y, string, k) \cup DrawChar(12 * k, y, string[k + 1]) = Picture(y, string, k + 1)
<1>1. \A a : a \in Picture(y, string, k) <=> \E n \in 1..k : Lit(y, string, n, a)
  BY InPicture
<1>2. \A a : a \in Picture(y, string, k + 1) <=> \E n \in 1 .. k + 1 : Lit(y, string, n, a)
  BY InPicture
<1>3. \A a : a \in DrawChar(12 * k, y, string[k + 1]) <=> Lit(y, string, k + 1, a)
  <2>1. 12 * k \in Nat /\ 12 * ((k + 1) - 1) = 12 * k
    OBVIOUS
  <2>2. QED
    BY <2>1, CharPixels DEF Lit
<1>4. 1 .. k + 1 = (1 .. k) \cup {k + 1}
  OBVIOUS
<1>5. QED
  BY <1>1, <1>2, <1>3, <1>4

(* A pixel on the screen is found again from its address.                  *)
LEMMA PixelFound ==
    ASSUME NEW x \in Nat, NEW y \in Nat, x < 640
    PROVE  /\ PixelAt(x, y) \in Nat
           /\ LineBytes * y <= PixelAt(x, y) /\ PixelAt(x, y) < LineBytes * (y + 1)
           /\ (PixelAt(x, y) % LineBytes) \div 2 = x /\ PixelAt(x, y) \div LineBytes = y
<1>1. PixelAt(x, y) = 2 * x + 1280 * y
  BY DEF PixelAt, LineBytes
<1>2. /\ 2 * x + 1280 * y \in Nat
      /\ 1280 * y <= 2 * x + 1280 * y /\ 2 * x + 1280 * y < 1280 * (y + 1)
  OBVIOUS
<1>3. (2 * x + 1280 * y) % 1280 = 2 * x /\ (2 * x + 1280 * y) \div 1280 = y /\ (2 * x) \div 2 = x
  OBVIOUS
<1>4. QED
  BY <1>1, <1>2, <1>3 DEF LineBytes

LEMMA PictureLies ==
    ASSUME NEW string, NEW k \in Nat, 12 * k <= 640, NEW y \in Nat, NEW a \in Picture(y, string, k)
    PROVE  a \in Nat /\ LineBytes * y <= a /\ a < LineBytes * (y + 24)
<1>1. PICK n \in 1..k : Lit(y, string, n, a)
  BY InPicture
<1>2. PICK row \in 0..23, i \in 0..11 : a = PixelAt(12 * (n - 1) + i, y + row)
  BY <1>1 DEF Lit
<1> DEFINE x == 12 * (n - 1) + i
           line == y + row
<1>3. x \in Nat /\ x < 640 /\ line \in Nat /\ y <= line /\ line + 1 <= y + 24
  OBVIOUS
<1> HIDE DEF x, line
<1>4. a \in Nat /\ LineBytes * line <= a /\ a < LineBytes * (line + 1)
  BY <1>2, <1>3, PixelFound DEF x, line
<1>5. QED
  BY <1>3, <1>4 DEF LineBytes

Seen(a) == <<(a % LineBytes) \div 2, a \div LineBytes>>

LEMMA SeenAsDrawn ==
    ASSUME NEW string, Len(string) \in Nat, 12 * Len(string) <= 640, NEW y \in Nat
    PROVE  {Seen(a) : a \in Picture(y, string, Len(string))} = Drawn(0, y, string)
<1> DEFINE k == Len(string)
           X(t) == 12 * (t[1] - 1) + t[3]
<1>1. Drawn(0, y, string) = {<<X(t), y + t[2]>> : t \in Pixels(string, k)}
  <2>1. \A t \in Pixels(string, k) : 0 + 12 * (t[1] - 1) + t[3] = X(t)
    BY DEF Pixels
  <2>2. QED
    BY <2>1 DEF Drawn, Pixels
<1>2. Picture(y, string, k) = {PixelAt(X(t), y + t[2]) : t \in Pixels(string, k)}
  BY DEF Picture
<1>3. \A t \in Pixels(string, k) : Seen(PixelAt(X(t), y + t[2])) = <<X(t), y + t[2]>>
  <2> SUFFICES ASSUME NEW t \in Pixels(string, k)
               PROVE  Seen(PixelAt(X(t), y + t[2])) = <<X(t), y + t[2]>>
    OBVIOUS
  <2>1. t[1] \in 1..k /\ t[2] \in 0..23 /\ t[3] \in 0..11
    BY DEF Pixels, CharHeight
  <2> DEFINE x == X(t)
             line == y + t[2]
  <2>2. x \in Nat /\ x < 640 /\ line \in Nat
    <3>1. k \in Nat /\ 12 * k <= 640
      OBVIOUS
    <3> HIDE DEF k
    <3>2. \A n \in 1..k, i \in 0..11 : 12 * (n - 1) + i \in Nat /\ 12 * (n - 1) + i < 640
      BY <3>1
    <3>3. x \in Nat /\ x < 640
      BY <2>1, <3>2
    <3>4. \A u \in 0..23 : y + u \in Nat
      OBVIOUS
    <3> HIDE DEF x
    <3>5. QED
      BY <2>1, <3>3, <3>4
  <2> HIDE DEF x, line
  <2>3. Seen(PixelAt(x, line)) = <<x, line>>
    <3> DEFINE a == PixelAt(x, line)
    <3>1. (a % LineBytes) \div 2 = x /\ a \div LineBytes = line
      BY <2>2, PixelFound
    <3> HIDE DEF a
    <3>2. Seen(a) = <<x, line>>
      BY <3>1 DEF Seen
    <3>3. QED
      BY <3>2 DEF a
  <2>4. QED
    BY <2>3 DEF x, line
<1> HIDE DEF X, k
<1> DEFINE P(t) == PixelAt(X(t), y + t[2])
           Q(t) == <<X(t), y + t[2]>>
<1>4. {Seen(a) : a \in {P(t) : t \in Pixels(string, k)}} = {Q(t) : t \in Pixels(string, k)}
  <2>1. \A t \in Pixels(string, k) : Seen(P(t)) = Q(t)
    BY <1>3
  <2> HIDE DEF P, Q
  <2>2. ASSUME NEW s \in {Seen(a) : a \in {P(t) : t \in Pixels(string, k)}}
        PROVE  s \in {Q(t) : t \in Pixels(string, k)}
    <3>1. PICK a \in {P(t) : t \in Pixels(string, k)} : s = Seen(a)
      OBVIOUS
    <3>2. PICK t \in Pixels(string, k) : a = P(t)
      OBVIOUS
    <3>3. QED
      BY <2>1, <3>1, <3>2
  <2>3. ASSUME NEW t \in Pixels(string, k)
        PROVE  Q(t) \in {Seen(a) : a \in {P(u) : u \in Pixels(string, k)}}
    BY <2>1
  <2>4. QED
    BY <2>2, <2>3
<1>5. QED
  BY <1>1, <1>2, <1>4 DEF k

(* Twenty-four lines are cleared: nothing is left of a string in them, and *)
(* a string in the twenty-four lines two characters above is untouched.    *)
LEMMA ClearedLines ==
    ASSUME NEW string, NEW k \in Nat, 12 * k <= 640
    PROVE  LET cleared == LineBytes * 72 .. LineBytes * 72 + 24 * LineBytes - 1
           IN  /\ Picture(72, string, k) \ cleared = {}
               /\ Picture(24, string, k) \ cleared = Picture(24, string, k)
<1> DEFINE from == LineBytes * 72
           to == LineBytes * 72 + 24 * LineBytes - 1
           cleared == from .. to
<1>0. /\ from \in Int /\ to \in Int
      /\ from = LineBytes * 72 /\ to + 1 = LineBytes * (72 + 24) /\ LineBytes * (24 + 24) <= from
  BY DEF LineBytes
<1> HIDE DEF from, to
<1>1. \A a \in Picture(72, string, k) : a \in cleared
  <2> SUFFICES ASSUME NEW a \in Picture(72, string, k) PROVE a \in cleared
    OBVIOUS
  <2>1. a \in Nat /\ LineBytes * 72 <= a /\ a < LineBytes * (72 + 24)
    BY PictureLies
  <2>2. from <= a /\ a < to + 1
    BY <1>0, <2>1
  <2>3. QED
    BY <1>0, <2>1, <2>2
<1>2. \A a \in Picture(24, string, k) : a \notin cleared
  <2> SUFFICES ASSUME NEW a \in Picture(24, string, k) PROVE a \notin cleared
    OBVIOUS
  <2>1. a \in Nat /\ LineBytes * 24 <= a /\ a < LineBytes * (24 + 24)
    BY PictureLies
  <2>2. a < from
    BY <1>0, <2>1 DEF LineBytes
  <2>3. QED
    BY <1>0, <2>1, <2>2
<1> HIDE DEF cleared
<1>3. Picture(72, string, k) \ cleared = {} /\ Picture(24, string, k) \ cleared = Picture(24, string, k)
  BY <1>1, <1>2
<1>4. QED
  BY <1>3 DEF cleared, from, to

-----------------------------------------------------------------------------
(* The five strings of a progress are one line.                            *)
Sizes8 == [current : [1..8 -> Chars], total : [1..8 -> Chars]]

LEMMA EightChars ==
    ASSUME NEW s \in [1..8 -> Chars]
    PROVE  s \in Seq(Chars) /\ Len(s) = 8
<1>1. s \in Seq(Chars)
  BY SeqDef
<1>2. DOMAIN s = 1..8 /\ DOMAIN s = 1 .. Len(s) /\ Len(s) \in Nat
  BY <1>1, LenProperties
<1>3. QED
  BY <1>1, <1>2

LEMMA PiecesAre ==
    ASSUME NEW p
    PROVE  /\ Piece(p, 1) = <<40>> /\ Piece(p, 2) = p.current /\ Piece(p, 3) = <<47>>
           /\ Piece(p, 4) = p.total /\ Piece(p, 5) = <<41>>
  BY DEF Piece

LEMMA ColumnFacts ==
    ASSUME NEW q \in 1..5
    PROVE  Column(q) \in Nat /\ Width(q) \in Nat \ {0} /\ Column(q) + Width(q) = Column(q + 1)
  BY DEF Column, Width

LEMMA PieceFacts ==
    ASSUME NEW p \in Sizes8, NEW q \in 1..5
    PROVE  Piece(p, q) \in Seq(Chars) /\ Len(Piece(p, q)) = Width(q)
<1>1. p.current \in Seq(Chars) /\ Len(p.current) = 8 /\ p.total \in Seq(Chars) /\ Len(p.total) = 8
  BY EightChars DEF Sizes8
<1>2. 40 \in Chars /\ 41 \in Chars /\ 47 \in Chars
  BY DEF Chars
<1> DEFINE Fine(i, n) == Piece(p, i) \in Seq(Chars) /\ Len(Piece(p, i)) = n
<1>3. Fine(1, 1) /\ Fine(3, 1) /\ Fine(5, 1)
  BY <1>2 DEF Piece
<1>4. Fine(2, 8) /\ Fine(4, 8)
  BY <1>1, PiecesAre
<1>5. /\ Width(1) = 1 /\ Width(2) = 8 /\ Width(3) = 1 /\ Width(4) = 8 /\ Width(5) = 1
  BY DEF Width
<1> HIDE DEF Fine
<1>6. \A i \in 1..5 : Fine(i, Width(i))
  BY <1>3, <1>4, <1>5
<1>7. QED
  BY <1>6 DEF Fine

Joins(u, s, h, t, k) ==
    /\ u \in Seq(Chars) /\ Len(u) = h + k
    /\ \A j \in 1..h : u[j] = s[j]
    /\ \A j \in 1..k : u[h + j] = t[j]

LEMMA TwoInOne ==
    ASSUME NEW h \in Nat, NEW k \in Nat,
           NEW s \in Seq(Chars), NEW t \in Seq(Chars), Len(s) = h, Len(t) = k
    PROVE  Joins(s \o t, s, h, t, k)
<1>1. /\ s \o t \in Seq(Chars) /\ Len(s \o t) = Len(s) + Len(t)
      /\ \A i \in 1 .. Len(s) + Len(t) : (s \o t)[i] = IF i <= Len(s) THEN s[i] ELSE t[i - Len(s)]
  BY ConcatProperties
<1> DEFINE u == s \o t
<1> HIDE DEF u
<1>2. /\ u \in Seq(Chars) /\ Len(u) = h + k
      /\ \A i \in 1 .. h + k : u[i] = IF i <= h THEN s[i] ELSE t[i - h]
  BY <1>1 DEF u
<1>3. \A j \in 1..h : u[j] = s[j]
  BY <1>2
<1>4. ASSUME NEW j \in 1..k PROVE u[h + j] = t[j]
  <2>1. h + j \in 1 .. h + k /\ ~(h + j <= h) /\ (h + j) - h = j
    OBVIOUS
  <2>2. QED
    BY <1>2, <2>1
<1>5. Joins(u, s, h, t, k)
  BY <1>2, <1>3, <1>4 DEF Joins
<1>6. QED
  BY <1>5 DEF u

LEMMA LineFacts ==
    ASSUME NEW p \in Sizes8
    PROVE  /\ Line(p) \in Seq(Chars) /\ Len(Line(p)) = 19
           /\ \A q \in 1..5 : \A j \in 1 .. Width(q) : Line(p)[Column(q) + j] = Piece(p, q)[j]
<1> DEFINE P(q) == Piece(p, q)
           two == P(1) \o P(2)
           three == two \o P(3)
           four == three \o P(4)
           line == four \o P(5)
<1>1. Line(p) = line
  BY PiecesAre DEF Line
<1>2. /\ P(1) \in Seq(Chars) /\ P(2) \in Seq(Chars) /\ P(3) \in Seq(Chars) /\ P(4) \in Seq(Chars)
      /\ P(5) \in Seq(Chars)
      /\ Len(P(1)) = 1 /\ Len(P(2)) = 8 /\ Len(P(3)) = 1 /\ Len(P(4)) = 8 /\ Len(P(5)) = 1
  BY PieceFacts DEF Width
<1> HIDE DEF P
<1>3. Joins(two, P(1), 1, P(2), 8)
  BY <1>2, TwoInOne
<1> HIDE DEF two
<1>4. two \in Seq(Chars) /\ Len(two) = 9
  BY <1>3 DEF Joins
<1>5. Joins(three, two, 9, P(3), 1)
  BY <1>2, <1>4, TwoInOne
<1> HIDE DEF three
<1>6. three \in Seq(Chars) /\ Len(three) = 10
  BY <1>5 DEF Joins
<1>7. Joins(four, three, 10, P(4), 8)
  BY <1>2, <1>6, TwoInOne
<1> HIDE DEF four
<1>8. four \in Seq(Chars) /\ Len(four) = 18
  BY <1>7 DEF Joins
<1>9. Joins(line, four, 18, P(5), 1)
  BY <1>2, <1>8, TwoInOne
<1> HIDE DEF line
<1>10. line \in Seq(Chars) /\ Len(line) = 19
  BY <1>9 DEF Joins
<1>11. /\ \A j \in 1..1 : line[0 + j] = P(1)[j]
       /\ \A j \in 1..8 : line[1 + j] = P(2)[j]
       /\ \A j \in 1..1 : line[9 + j] = P(3)[j]
       /\ \A j \in 1..8 : line[10 + j] = P(4)[j]
       /\ \A j \in 1..1 : line[18 + j] = P(5)[j]
  <2>1. (\A j \in 1..1 : two[j] = P(1)[j]) /\ (\A j \in 1..8 : two[1 + j] = P(2)[j])
    BY <1>3 DEF Joins
  <2>2. (\A j \in 1..9 : three[j] = two[j]) /\ (\A j \in 1..1 : three[9 + j] = P(3)[j])
    BY <1>5 DEF Joins
  <2>3. (\A j \in 1..10 : four[j] = three[j]) /\ (\A j \in 1..8 : four[10 + j] = P(4)[j])
    BY <1>7 DEF Joins
  <2>4. (\A j \in 1..18 : line[j] = four[j]) /\ (\A j \in 1..1 : line[18 + j] = P(5)[j])
    BY <1>9 DEF Joins
  <2>5. \A j \in 1..9 : line[j] = two[j]
    BY <2>2, <2>3, <2>4
  <2>6. \A j \in 1..1 : line[0 + j] = P(1)[j]
    BY <2>1, <2>5
  <2>7. \A j \in 1..8 : line[1 + j] = P(2)[j]
    BY <2>1, <2>5
  <2>8. \A j \in 1..1 : line[9 + j] = P(3)[j]
    BY <2>2, <2>3, <2>4
  <2>9. \A j \in 1..8 : line[10 + j] = P(4)[j]
    BY <2>3, <2>4
  <2>10. QED
    BY <2>4, <2>6, <2>7, <2>8, <2>9
<1>12. \A q \in 1..5 : \A j \in 1 .. Width(q) : line[Column(q) + j] = P(q)[j]
  BY <1>11 DEF Column, Width
<1>13. QED
  BY <1>1, <1>10, <1>12 DEF P

-----------------------------------------------------------------------------
(* What is to be done is a sequence of which one thing after the other is  *)
(* taken off.                                                              *)
LEMMA FirstAndRest ==
    ASSUME NEW S, NEW later \in Seq(S), NEW e
    PROVE  /\ <<e>> \o later # <<>> /\ Head(<<e>> \o later) = e /\ Tail(<<e>> \o later) = later
<1> DEFINE T == S \cup {e}
           all == <<e>> \o later
<1>1. <<e>> \in Seq(T) /\ Len(<<e>>) = 1 /\ <<e>>[1] = e
  OBVIOUS
<1>2. later \in Seq(T) /\ Len(later) \in Nat
  BY SeqDef, LenProperties
<1>3. /\ all \in Seq(T) /\ Len(all) = 1 + Len(later)
      /\ \A i \in 1 .. 1 + Len(later) : all[i] = IF i <= 1 THEN <<e>>[i] ELSE later[i - 1]
  BY <1>1, <1>2, ConcatProperties
<1> HIDE DEF all, T
<1>4. all # <<>>
  BY <1>2, <1>3
<1>5. Head(all) = e
  BY <1>1, <1>2, <1>3, <1>4
<1>6. Tail(all) \in Seq(T) /\ Len(Tail(all)) = Len(later)
      /\ \A i \in 1 .. Len(later) : Tail(all)[i] = all[i + 1]
  BY <1>2, <1>3, <1>4, HeadTailProperties
<1>7. \A i \in 1 .. Len(later) : Tail(all)[i] = later[i]
  <2> SUFFICES ASSUME NEW i \in 1 .. Len(later) PROVE Tail(all)[i] = later[i]
    OBVIOUS
  <2>1. i + 1 \in 1 .. 1 + Len(later) /\ ~(i + 1 <= 1) /\ (i + 1) - 1 = i
    BY <1>2
  <2>2. QED
    BY <1>3, <1>6, <2>1
<1>8. Tail(all) = later
  BY <1>2, <1>6, <1>7, SeqEqual
<1>9. QED
  BY <1>4, <1>5, <1>8 DEF all

LEMMA SuffixFrom ==
    ASSUME NEW S, NEW s \in Seq(S), NEW i \in 1 .. Len(s)
    PROVE  /\ SubSeq(s, i, Len(s)) = <<s[i]>> \o SubSeq(s, i + 1, Len(s))
           /\ SubSeq(s, i + 1, Len(s)) \in Seq(S)
<1> DEFINE n == Len(s)
           whole == SubSeq(s, i, n)
           rest == SubSeq(s, i + 1, n)
           other == <<s[i]>> \o rest
<1>1. n \in Nat /\ s[i] \in S
  BY LenProperties, ElementOfSeq
<1>2. \A j \in 1..n : s[j] \in S
  BY ElementOfSeq
<1> HIDE DEF n
<1>3. i \in 1..n
  BY DEF n
<1>4. whole \in Seq(S) /\ Len(whole) = n - i + 1 /\ \A j \in 1 .. n - i + 1 : whole[j] = s[i + j - 1]
  BY <1>1, <1>2, <1>3, SubSeqProperties
<1>5. rest \in Seq(S) /\ Len(rest) = n - i
      /\ \A j \in 1 .. n - (i + 1) + 1 : rest[j] = s[(i + 1) + j - 1]
  BY <1>1, <1>2, <1>3, SubSeqProperties
<1> HIDE DEF whole, rest
<1>6. <<s[i]>> \in Seq(S) /\ Len(<<s[i]>>) = 1 /\ <<s[i]>>[1] = s[i]
  BY <1>1
<1>7. /\ other \in Seq(S) /\ Len(other) = 1 + Len(rest)
      /\ \A j \in 1 .. 1 + Len(rest) : other[j] = IF j <= 1 THEN <<s[i]>>[j] ELSE rest[j - 1]
  BY <1>5, <1>6, ConcatProperties
<1> HIDE DEF other
<1>8. \A j \in 1 .. n - i + 1 : whole[j] = other[j]
  <2> SUFFICES ASSUME NEW j \in 1 .. n - i + 1 PROVE whole[j] = other[j]
    OBVIOUS
  <2>1. CASE j = 1
    BY <1>1, <1>3, <1>4, <1>5, <1>6, <1>7, <2>1
  <2>2. CASE j > 1
    <3>1. j - 1 \in 1 .. n - (i + 1) + 1 /\ (i + 1) + (j - 1) - 1 = i + j - 1 /\ ~(j <= 1)
          /\ j \in 1 .. 1 + (n - i)
      BY <1>1, <1>3, <2>2
    <3>2. rest[j - 1] = s[i + j - 1]
      BY <1>5, <3>1
    <3>3. other[j] = rest[j - 1]
      BY <1>5, <1>7, <3>1
    <3>4. QED
      BY <1>4, <3>2, <3>3
  <2>3. QED
    BY <2>1, <2>2
<1>9. whole = other
  <2>1. Len(whole) = Len(other) /\ Len(whole) = n - i + 1
    BY <1>1, <1>3, <1>4, <1>5, <1>7
  <2>2. \A j \in 1 .. Len(whole) : whole[j] = other[j]
    BY <1>8, <2>1
  <2>3. QED
    BY <1>4, <1>7, <2>1, <2>2, SeqEqual
<1>10. QED
  BY <1>5, <1>9 DEF whole, rest, other, n

(* The six steps of a progress: lines are cleared, five strings are drawn. *)
Work(p) == {Progress(p)[i] : i \in 1..6}

LEMMA ProgressSteps ==
    ASSUME NEW p \in Sizes8
    PROVE  /\ Progress(p) \in Seq(Work(p)) /\ Len(Progress(p)) = 6
           /\ Progress(p)[1] = Clear(72, 24)
           /\ \A q \in 1..5 : Progress(p)[q + 1] = Rest(12 * Column(q), 72, Piece(p, q), 0)
<1>1. Progress(p) \in Seq(Work(p)) /\ Len(Progress(p)) = 6 /\ Progress(p)[1] = Clear(72, 24)
  <2> DEFINE a == Clear(72, 24)
             b == Draw(0, 72, <<40>>)
             c == Draw(12, 72, p.current)
             d == Draw(108, 72, <<47>>)
             e == Draw(120, 72, p.total)
             f == Draw(216, 72, <<41>>)
             six == <<a, b, c, d, e, f>>
  <2>1. Progress(p) = six
    BY DEF Progress
  <2> HIDE DEF a, b, c, d, e, f
  <2>2. Len(six) = 6 /\ six[1] = a /\ DOMAIN six = 1..6 /\ six \in Seq({a, b, c, d, e, f})
    OBVIOUS
  <2>3. six = [i \in 1..6 |-> six[i]]
    OBVIOUS
  <2> HIDE DEF six
  <2>4. six \in [1..6 -> {six[i] : i \in 1..6}]
    BY <2>2, <2>3
  <2>5. six \in Seq({six[i] : i \in 1..6})
    BY <2>4, SeqDef
  <2>6. QED
    BY <2>1, <2>2, <2>5 DEF Work, a
<1>2. ASSUME NEW q \in 1..5
      PROVE  Progress(p)[q + 1] = Rest(12 * Column(q), 72, Piece(p, q), 0)
  <2>1. Piece(p, q) \in Seq(Chars)
    BY PieceFacts
  <2>2. SubSeq(Piece(p, q), 0 + 1, Len(Piece(p, q))) = Piece(p, q)
    <3> DEFINE s == Piece(p, q)
    <3> HIDE DEF s
    <3>1. s \in Seq(Chars)
      BY <2>1 DEF s
    <3>2. SubSeq(s, 1, Len(s)) = s
      BY <3>1, SubSeqFull
    <3>3. QED
      BY <3>2 DEF s
  <2>3. 12 * Column(q) + 12 * 0 = 12 * Column(q)
    BY ColumnFacts
  <2>4. Rest(12 * Column(q), 72, Piece(p, q), 0) = Draw(12 * Column(q), 72, Piece(p, q))
    BY <2>2, <2>3 DEF Rest
  <2>5. Progress(p)[q + 1] = Draw(12 * Column(q), 72, Piece(p, q))
    <3>1. /\ Progress(p)[2] = Draw(0, 72, Piece(p, 1)) /\ Progress(p)[3] = Draw(12, 72, Piece(p, 2))
          /\ Progress(p)[4] = Draw(108, 72, Piece(p, 3)) /\ Progress(p)[5] = Draw(120, 72, Piece(p, 4))
          /\ Progress(p)[6] = Draw(216, 72, Piece(p, 5))
      BY PiecesAre DEF Progress
    <3>2. /\ 12 * Column(1) = 0 /\ 12 * Column(2) = 12 /\ 12 * Column(3) = 108
          /\ 12 * Column(4) = 120 /\ 12 * Column(5) = 216
      BY DEF Column
    <3>3. \A i \in 1..5 : Progress(p)[i + 1] = Draw(12 * Column(i), 72, Piece(p, i))
      BY <3>1, <3>2
    <3>4. QED
      BY <3>3
  <2>6. QED
    BY <2>4, <2>5
<1>3. QED
  BY <1>1, <1>2

(* A string with a character left, and one that is finished.               *)
LEMMA NextChar ==
    ASSUME NEW string \in Seq(Chars), NEW k \in 0 .. Len(string) - 1, NEW x, NEW y
    PROVE  /\ Rest(x, y, string, k).string # <<>>
           /\ Head(Rest(x, y, string, k).string) = string[k + 1]
           /\ Tail(Rest(x, y, string, k).string) = Rest(x, y, string, k + 1).string
           /\ string[k + 1] \in Chars
<1>1. Len(string) \in Nat
  BY LenProperties
<1>2. k + 1 \in 1 .. Len(string)
  BY <1>1
<1> DEFINE s == SubSeq(string, k + 1, Len(string))
           t == SubSeq(string, (k + 1) + 1, Len(string))
<1>3. s = <<string[k + 1]>> \o t /\ t \in Seq(Chars)
  BY <1>2, SuffixFrom
<1>4. Rest(x, y, string, k).string = s /\ Rest(x, y, string, k + 1).string = t
  BY DEF Rest, Draw
<1>5. string[k + 1] \in Chars
  BY <1>2, ElementOfSeq
<1> HIDE DEF s, t
<1>6. s # <<>> /\ Head(s) = string[k + 1] /\ Tail(s) = t
  BY <1>3, FirstAndRest
<1>7. QED
  BY <1>4, <1>5, <1>6

(* One step of draw_string, with something still to be done behind it.     *)
Drawing(S, later, x, y, string, k) ==
    /\ later \in Seq(S) /\ string \in Seq(Chars) /\ k \in 0 .. Len(string) /\ x \in Nat /\ y \in Nat
    /\ todo = <<Rest(x, y, string, k)>> \o later
StringEnds(later, string, k) ==
    /\ k = Len(string)
    /\ todo' = later /\ vram' = vram
OneDrawn(later, x, y, string, k) ==
    /\ k < Len(string) /\ string[k + 1] \in Chars
    /\ todo' = <<Rest(x, y, string, k + 1)>> \o later
    /\ vram' = vram \cup DrawChar(x + 12 * k, y, string[k + 1])

LEMMA StringStep ==
    ASSUME NEW S, NEW later, NEW x, NEW y, NEW string, NEW k,
           Drawing(S, later, x, y, string, k), DrawNext
    PROVE  StringEnds(later, string, k) \/ OneDrawn(later, x, y, string, k)
<1>0. /\ later \in Seq(S) /\ string \in Seq(Chars) /\ k \in 0 .. Len(string) /\ x \in Nat /\ y \in Nat
      /\ todo = <<Rest(x, y, string, k)>> \o later
  BY DEF Drawing
<1> DEFINE d == Rest(x, y, string, k)
           e == Rest(x, y, string, k + 1)
<1>1. Head(todo) = d /\ Tail(todo) = later
  BY <1>0, FirstAndRest
<1>2. Len(string) \in Nat
  BY <1>0, LenProperties
<1>3. d.x = x + 12 * k /\ d.y = y
  BY DEF Rest, Draw
<1>4. CASE k = Len(string)
  <2>1. d.string = <<>>
    BY <1>0, <1>2, <1>4, SubSeqEmpty DEF Rest, Draw
  <2> HIDE DEF d
  <2>2. todo' = later /\ vram' = vram
    BY <1>1, <2>1 DEF DrawNext
  <2>3. QED
    BY <1>4, <2>2 DEF StringEnds
<1>5. CASE k < Len(string)
  <2>1. /\ d.string # <<>> /\ Head(d.string) = string[k + 1] /\ Tail(d.string) = e.string
        /\ string[k + 1] \in Chars
    BY <1>0, <1>2, <1>5, NextChar
  <2>2. e = Draw((x + 12 * k) + 12, y, e.string)
    <3>1. x + 12 * (k + 1) = (x + 12 * k) + 12
      BY <1>0
    <3>2. e = Draw(x + 12 * (k + 1), y, e.string)
      BY DEF Rest, Draw
    <3>3. QED
      BY <3>1, <3>2
  <2> HIDE DEF d, e
  <2>3. /\ vram' = vram \cup DrawChar(d.x, d.y, Head(d.string))
        /\ todo' = <<Draw(d.x + 12, d.y, Tail(d.string))>> \o Tail(todo)
    BY <1>1, <2>1 DEF DrawNext
  <2>4. todo' = <<e>> \o later
    BY <1>1, <1>3, <2>1, <2>2, <2>3
  <2>5. vram' = vram \cup DrawChar(x + 12 * k, y, string[k + 1])
    BY <1>3, <2>1, <2>3
  <2>6. QED
    BY <1>5, <2>1, <2>4, <2>5 DEF e, OneDrawn
<1>6. QED
  BY <1>0, <1>2, <1>4, <1>5

LEMMA ProgressOfShow ==
    ASSUME NEW s \in Shows
    PROVE  s.progress \in Seq(Sizes8) /\ Len(s.progress) \in Nat /\ s.port \in Nat /\ s.mode \in 0..3
<1>1. \A u \in Shows : /\ u.port \in Nat /\ u.mode \in 0..3
                       /\ u.progress \in Seq([current : [1..8 -> Chars], total : [1..8 -> Chars]])
  BY ScreenAssumption
<1>2. s.progress \in Seq([current : [1..8 -> Chars], total : [1..8 -> Chars]])
  BY <1>1
<1>3. s.progress \in Seq(Sizes8)
  BY <1>2 DEF Sizes8
<1>4. Len(s.progress) \in Nat
  BY <1>3, LenProperties
<1>5. QED
  BY <1>1, <1>3, <1>4

LEMMA Shown8 ==
    ASSUME show \in Shows, NEW n \in 1 .. Len(show.progress)
    PROVE  show.progress[n] \in Sizes8
<1>1. show.progress \in Seq(Sizes8)
  BY ProgressOfShow
<1>2. QED
  BY <1>1, ElementOfSeq

LEMMA TitleFacts == Title \in Seq(Chars) /\ Len(Title) \in Nat /\ 12 * Len(Title) <= 640
<1>1. Title \in Seq(Chars) /\ 12 * Len(Title) <= 640
  BY ScreenAssumption
<1>2. QED
  BY <1>1, LenProperties

(* What is done first in each phase.                                       *)
LEMMA FirstOfTitling ==
    ASSUME Titling
    PROVE  todo # <<>> /\ Head(todo).do = "draw"
<1>1. PICK k \in 0 .. Len(Title) : todo = <<Rest(0, 24, Title, k)>>
  BY DEF Titling
<1>2. QED
  BY <1>1 DEF Rest, Draw

LEMMA FirstOfWriting ==
    ASSUME NEW p \in Sizes8, NEW q \in 1..5, NEW k, Writing(p, q, k)
    PROVE  /\ todo # <<>> /\ Head(todo).do = "draw"
           /\ SubSeq(Progress(p), q + 2, 6) \in Seq(Work(p))
<1>1. SubSeq(Progress(p), q + 2, 6) \in Seq(Work(p))
  <2>1. q + 1 \in 1..6 /\ (q + 1) + 1 = q + 2
    OBVIOUS
  <2>2. QED
    BY <2>1, ProgressSteps, SuffixFrom
<1>2. todo # <<>> /\ Head(todo) = Rest(12 * Column(q), 72, Piece(p, q), k)
  BY <1>1, FirstAndRest DEF Writing
<1>3. Rest(12 * Column(q), 72, Piece(p, q), k).do = "draw"
  BY DEF Rest, Draw
<1>4. QED
  BY <1>1, <1>2, <1>3

LEMMA FirstOfClearing ==
    ASSUME show \in Shows, shown \in 1 .. Len(show.progress), Clearing
    PROVE  /\ todo # <<>> /\ Head(todo) = Clear(72, 24)
           /\ Tail(todo) = SubSeq(Progress(show.progress[shown]), 2, 6)
<1> DEFINE p == show.progress[shown]
<1>1. p \in Sizes8
  BY Shown8
<1> HIDE DEF p
<1>2. Progress(p) \in Seq(Work(p)) /\ Len(Progress(p)) = 6 /\ Progress(p)[1] = Clear(72, 24)
  BY <1>1, ProgressSteps
<1>3. todo = Progress(p)
  BY DEF Clearing, p
<1>4. Progress(p) = <<Progress(p)[1]>> \o SubSeq(Progress(p), 2, 6)
      /\ SubSeq(Progress(p), 2, 6) \in Seq(Work(p))
  <2> DEFINE s == Progress(p)
  <2>1. s \in Seq(Work(p)) /\ Len(s) = 6
    BY <1>2
  <2> HIDE DEF s
  <2>2. 1 \in 1 .. Len(s) /\ SubSeq(s, 1, Len(s)) = s
    BY <2>1, SubSeqFull
  <2>3. SubSeq(s, 1, Len(s)) = <<s[1]>> \o SubSeq(s, 1 + 1, Len(s)) /\ SubSeq(s, 1 + 1, Len(s)) \in Seq(Work(p))
    BY <2>1, <2>2, SuffixFrom
  <2>4. QED
    BY <2>1, <2>2, <2>3 DEF s
<1>5. todo # <<>> /\ Head(todo) = Progress(p)[1] /\ Tail(todo) = SubSeq(Progress(p), 2, 6)
  BY <1>3, <1>4, FirstAndRest
<1>6. QED
  BY <1>2, <1>5 DEF p

-----------------------------------------------------------------------------
LEMMA ScreenHolds == ScreenInit => ScreenInv
<1> SUFFICES ASSUME NEW s \in Shows, Displayed(s) PROVE ScreenInv
  BY DEF ScreenInit
<1>2. Len(s.progress) \in Nat
  BY ProgressOfShow
<1>3. show \in Shows /\ shown \in 0 .. Len(show.progress) /\ regs = <<>>
  BY <1>2 DEF Displayed
<1>4. Dark
  BY DEF Displayed, Dark
<1>5. QED
  BY <1>3, <1>4 DEF ScreenInv

(* In which phase a step can be taken.                                     *)
LEMMA WhoseTurn ==
    ASSUME ScreenInv
    PROVE  /\ todo = <<>> => Resting
           /\ todo # <<>> /\ Head(todo).do = "setup" => Dark
           /\ todo # <<>> /\ Head(todo).do = "clear" => Clearing
           /\ todo # <<>> /\ Head(todo).do = "draw" => Titling \/ Progressing
<1>1. CASE Dark
  BY <1>1 DEF Dark
<1>2. CASE Titling
  BY <1>2, FirstOfTitling
<1>3. CASE Resting
  BY <1>3 DEF Resting
<1>4. CASE Clearing
  <2>1. show \in Shows /\ shown \in 1 .. Len(show.progress)
    BY <1>4 DEF ScreenInv, Clearing
  <2>2. Head(todo).do = "clear" /\ todo # <<>>
    BY <1>4, <2>1, FirstOfClearing DEF Clear
  <2>3. QED
    BY <1>4, <2>2
<1>5. CASE Progressing
  <2> DEFINE p == show.progress[shown]
  <2>1. show \in Shows /\ shown \in 1 .. Len(show.progress)
    BY <1>5 DEF ScreenInv, Progressing
  <2>2. p \in Sizes8
    BY <2>1, Shown8
  <2>3. PICK q \in 1..5 : \E k \in 0 .. Len(Piece(p, q)) : Writing(p, q, k)
    BY <1>5 DEF Progressing
  <2>4. PICK k \in 0 .. Len(Piece(p, q)) : Writing(p, q, k)
    BY <2>3
  <2> HIDE DEF p
  <2>5. todo # <<>> /\ Head(todo).do = "draw"
    BY <2>2, <2>4, FirstOfWriting
  <2>6. QED
    BY <1>5, <2>5
<1>6. QED
  BY <1>1, <1>2, <1>3, <1>4, <1>5 DEF ScreenInv

LEMMA SetupKeepsScreen == ScreenInv /\ SetupVideo => ScreenInv'
<1> SUFFICES ASSUME ScreenInv, SetupVideo PROVE ScreenInv'
  OBVIOUS
<1>1. Dark
  BY WhoseTurn DEF SetupVideo
<1>2. /\ show' = show /\ shown' = shown /\ regs' = InitVideo(CheckCable(show.port), show.mode)
      /\ vram' = {} /\ todo' = Tail(todo)
  BY DEF SetupVideo, ClearScreen
<1>3. todo' = <<Draw(0, 24, Title)>>
  <2> DEFINE a == [do |-> "setup"]
             b == Draw(0, 24, Title)
  <2>1. todo = <<a, b>>
    BY <1>1 DEF Dark
  <2> HIDE DEF a, b
  <2>2. Tail(<<a, b>>) = <<b>>
    OBVIOUS
  <2>3. QED
    BY <1>2, <2>1, <2>2 DEF b
<1>4. Draw(0, 24, Title) = Rest(0, 24, Title, 0)
  <2>1. SubSeq(Title, 0 + 1, Len(Title)) = Title
    <3>1. SubSeq(Title, 1, Len(Title)) = Title
      BY TitleFacts, SubSeqFull
    <3>2. QED
      BY <3>1
  <2>2. 0 + 12 * 0 = 0
    OBVIOUS
  <2>3. QED
    BY <2>1, <2>2 DEF Rest
<1>5. vram' = Picture(24, Title, 0)
  <2>1. Picture(24, Title, 0) = {}
    BY NothingDrawn
  <2>2. QED
    BY <1>2, <2>1
<1>6. 0 \in 0 .. Len(Title)
  BY TitleFacts
<1>7. Titling'
  BY <1>1, <1>2, <1>3, <1>4, <1>5, <1>6 DEF Titling, Dark
<1>8. QED
  BY <1>2, <1>7 DEF ScreenInv

LEMMA ProgressKeepsScreen == ScreenInv /\ DrawProgress => ScreenInv'
<1> SUFFICES ASSUME ScreenInv, DrawProgress PROVE ScreenInv'
  OBVIOUS
<1>1. Resting
  BY WhoseTurn DEF DrawProgress
<1>2. /\ show' = show /\ shown' = shown + 1 /\ regs' = regs /\ vram' = vram
      /\ todo' = Progress(show.progress[shown + 1]) /\ shown < Len(show.progress)
      /\ shown \in 0 .. Len(show.progress)
  BY DEF DrawProgress, ScreenInv
<1>3. show \in Shows
  BY DEF ScreenInv
<1>4. Len(show.progress) \in Nat
  BY <1>3, ProgressOfShow
<1>5. shown \in Nat /\ shown + 1 \in 0 .. Len(show.progress) /\ shown + 1 > 0 /\ (shown + 1) - 1 = shown
  BY <1>2, <1>4
<1>6. vram = UpToNow(shown)
  BY <1>1 DEF Resting
<1>8. Clearing'
  <2>1. UpToNow(shown - 1)' = UpToNow(shown)
    BY <1>2, <1>5 DEF UpToNow
  <2>2. QED
    BY <1>2, <1>5, <1>6, <2>1 DEF Clearing
<1>9. QED
  BY <1>2, <1>5, <1>8 DEF ScreenInv

(* What is to be done after one string is the next one.                    *)
Follows(p, q) ==
    SubSeq(Progress(p), q + 1, 6)
        = <<Rest(12 * Column(q), 72, Piece(p, q), 0)>> \o SubSeq(Progress(p), q + 2, 6)

LEMMA NextString ==
    ASSUME NEW p \in Sizes8, NEW q \in 1..5
    PROVE  Follows(p, q)
<1> DEFINE s == Progress(p)
           e == Rest(12 * Column(q), 72, Piece(p, q), 0)
<1>1. s \in Seq(Work(p)) /\ Len(s) = 6 /\ s[q + 1] = e
  BY ProgressSteps
<1> HIDE DEF s, e
<1>2. q + 1 \in 1 .. Len(s) /\ (q + 1) + 1 = q + 2
  BY <1>1
<1>3. SubSeq(s, q + 1, Len(s)) = <<s[q + 1]>> \o SubSeq(s, (q + 1) + 1, Len(s))
  BY <1>1, <1>2, SuffixFrom
<1>4. QED
  BY <1>1, <1>2, <1>3 DEF s, e, Follows

LEMMA ClearKeepsScreen == ScreenInv /\ ClearLines => ScreenInv'
<1> SUFFICES ASSUME ScreenInv, ClearLines PROVE ScreenInv'
  OBVIOUS
<1>1. Clearing
  BY WhoseTurn DEF ClearLines
<1>2. show \in Shows /\ shown \in 0 .. Len(show.progress) /\ shown > 0
  BY <1>1 DEF ScreenInv, Clearing
<1>3. Len(show.progress) \in Nat
  BY <1>2, ProgressOfShow
<1>4. shown \in 1 .. Len(show.progress) /\ shown - 1 \in Nat
  BY <1>2, <1>3
<1>5. show' = show /\ shown' = shown /\ regs' = regs /\ todo' = Tail(todo)
  BY DEF ClearLines
<1>6. PICK p \in Sizes8 : p = show.progress[shown]
  BY <1>2, <1>4, Shown8
<1>7. Head(todo) = Clear(72, 24) /\ Tail(todo) = SubSeq(Progress(p), 2, 6)
  BY <1>1, <1>2, <1>4, <1>6, FirstOfClearing
<1> DEFINE cleared == LineBytes * 72 .. LineBytes * 72 + 24 * LineBytes - 1
<1>8. vram' = UpToNow(shown - 1) \ cleared
  <2>1. Clear(72, 24).y = 72 /\ Clear(72, 24).n = 24
    BY DEF Clear
  <2>2. vram = UpToNow(shown - 1)
    BY <1>1 DEF Clearing
  <2>3. vram' = vram \ (LineBytes * Head(todo).y ..
                        LineBytes * Head(todo).y + Head(todo).n * LineBytes - 1)
    BY DEF ClearLines
  <2>4. Head(todo).y = 72 /\ Head(todo).n = 24
    BY <1>7, <2>1
  <2>5. QED
    BY <2>2, <2>3, <2>4
<1>9. UpToNow(shown - 1) \ cleared = TitleShown
  <2>1. TitleShown \ cleared = TitleShown
    BY TitleFacts, ClearedLines DEF TitleShown
  <2>2. \A string : Picture(72, string, 19) \ cleared = {}
    <3>1. 19 \in Nat /\ 12 * 19 <= 640
      OBVIOUS
    <3>2. QED
      BY <3>1, ClearedLines
  <2> HIDE DEF cleared
  <2>3. QED
    BY <2>1, <2>2 DEF UpToNow
<1>10. vram' = TitleShown \cup Picture(72, Line(p), Column(1) + 0)
  <2>1. Column(1) + 0 = 0
    BY DEF Column
  <2>2. Picture(72, Line(p), 0) = {}
    BY NothingDrawn
  <2>3. vram' = TitleShown
    BY <1>8, <1>9
  <2>4. QED
    BY <2>1, <2>2, <2>3
<1>11. todo' = <<Rest(12 * Column(1), 72, Piece(p, 1), 0)>> \o SubSeq(Progress(p), 1 + 2, 6)
  <2>1. Follows(p, 1)
    BY NextString
  <2>2. 1 + 1 = 2
    OBVIOUS
  <2>3. SubSeq(Progress(p), 2, 6)
            = <<Rest(12 * Column(1), 72, Piece(p, 1), 0)>> \o SubSeq(Progress(p), 1 + 2, 6)
    BY <2>1, <2>2 DEF Follows
  <2>4. QED
    BY <1>5, <1>7, <2>3
<1>12. Writing(p, 1, 0)'
  BY <1>10, <1>11 DEF Writing, TitleShown
<1>13. 0 \in 0 .. Len(Piece(p, 1))
  BY PieceFacts DEF Width
<1>14. Progressing'
  BY <1>2, <1>5, <1>6, <1>12, <1>13 DEF Progressing
<1>15. QED
  BY <1>2, <1>5, <1>14 DEF ScreenInv


(* A character of the title, and the end of the title.                     *)
LEMMA TitleKeepsScreen == ScreenInv /\ Titling /\ DrawNext => (Titling \/ Resting)'
<1> SUFFICES ASSUME ScreenInv, Titling, DrawNext PROVE (Titling \/ Resting)'
  OBVIOUS
<1>1. PICK k \in 0 .. Len(Title) : todo = <<Rest(0, 24, Title, k)>> /\ vram = Picture(24, Title, k)
  BY DEF Titling
<1>2. shown = 0 /\ shown' = shown /\ show' = show
  BY DEF Titling, DrawNext
<1>3. Title \in Seq(Chars) /\ Len(Title) \in Nat
  BY TitleFacts
<1>4. todo = <<Rest(0, 24, Title, k)>> \o <<>>
  <2> DEFINE e == Rest(0, 24, Title, k)
  <2> HIDE DEF e
  <2>1. <<e>> = <<e>> \o <<>>
    OBVIOUS
  <2>2. todo = <<e>>
    BY <1>1 DEF e
  <2>3. QED
    BY <2>1, <2>2 DEF e
<1>5. StringEnds(<<>>, Title, k) \/ OneDrawn(<<>>, 0, 24, Title, k)
  <2>1. <<>> \in Seq(Chars) /\ 0 \in Nat /\ 24 \in Nat
    OBVIOUS
  <2>2. Drawing(Chars, <<>>, 0, 24, Title, k)
    BY <1>3, <1>4, <2>1 DEF Drawing
  <2>3. QED
    BY <2>2, StringStep
<1>6. CASE StringEnds(<<>>, Title, k)
  <2>1. todo' = <<>> /\ vram' = TitleShown
    BY <1>1, <1>6 DEF TitleShown, StringEnds
  <2>2. UpToNow(0) = TitleShown
    BY DEF UpToNow
  <2>3. UpToNow(shown)' = TitleShown
    BY <1>2 DEF UpToNow, TitleShown
  <2>4. QED
    BY <2>1, <2>3 DEF Resting
<1>7. CASE OneDrawn(<<>>, 0, 24, Title, k)
  <2>0. /\ k < Len(Title) /\ Title[k + 1] \in Chars
        /\ todo' = <<Rest(0, 24, Title, k + 1)>> \o <<>>
        /\ vram' = vram \cup DrawChar(0 + 12 * k, 24, Title[k + 1])
    BY <1>7 DEF OneDrawn
  <2>1. k \in Nat /\ k + 1 \in 0 .. Len(Title) /\ 0 + 12 * k = 12 * k /\ 24 \in Nat
    BY <1>3, <2>0
  <2>2. Picture(24, Title, k) \cup DrawChar(12 * k, 24, Title[k + 1]) = Picture(24, Title, k + 1)
    BY <2>0, <2>1, OneMoreDrawn
  <2>3. vram' = Picture(24, Title, k + 1)
    BY <1>1, <2>0, <2>1, <2>2
  <2>4. todo' = <<Rest(0, 24, Title, k + 1)>>
    <3> DEFINE e == Rest(0, 24, Title, k + 1)
    <3> HIDE DEF e
    <3>1. <<e>> = <<e>> \o <<>>
      OBVIOUS
    <3>2. todo' = <<e>> \o <<>>
      BY <2>0 DEF e
    <3>3. QED
      BY <3>1, <3>2 DEF e
  <2>5. Titling'
    BY <1>2, <2>1, <2>3, <2>4 DEF Titling
  <2>6. QED
    BY <2>5
<1>8. QED
  BY <1>5, <1>6, <1>7

(* A character of the progress, the next of its strings, and its end.      *)
LEMMA NextOfWriting ==
    ASSUME NEW p \in Sizes8, NEW q \in 1..5, NEW k \in 0 .. Len(Piece(p, q)),
           Writing(p, q, k), DrawNext
    PROVE  \/ k + 1 \in 0 .. Len(Piece(p, q)) /\ Writing(p, q, k + 1)'
           \/ q + 1 \in 1..5 /\ Writing(p, q + 1, 0)'
           \/ todo' = <<>> /\ vram' = TitleShown \cup Picture(72, Line(p), 19)
<1> DEFINE string == Piece(p, q)
           later == SubSeq(Progress(p), q + 2, 6)
           x == 12 * Column(q)
           drawn == Column(q) + k
<1>1. string \in Seq(Chars) /\ Len(string) = Width(q) /\ Width(q) \in Nat
  BY PieceFacts, ColumnFacts
<1>2. later \in Seq(Work(p))
  BY FirstOfWriting
<1>3. Column(q) \in Nat /\ x \in Nat /\ 72 \in Nat /\ drawn \in Nat /\ k \in Nat
      /\ x + 12 * k = 12 * drawn /\ Column(q) + (k + 1) = drawn + 1
  <2>0. k \in 0 .. Width(q)
    BY <1>1
  <2>1. Column(q) \in Nat /\ k \in Nat
    <3>1. Column(q) \in Nat
      BY ColumnFacts
    <3>2. k \in Nat
      BY <1>1, <2>0
    <3>3. QED
      BY <3>1, <3>2
  <2>2. \A c, j \in Nat : /\ 12 * c \in Nat /\ c + j \in Nat
                          /\ 12 * c + 12 * j = 12 * (c + j) /\ c + (j + 1) = (c + j) + 1
    OBVIOUS
  <2>3. QED
    BY <2>1, <2>2
<1>4. todo = <<Rest(x, 72, string, k)>> \o later
      /\ vram = TitleShown \cup Picture(72, Line(p), drawn)
  BY DEF Writing
<1>5. k \in 0 .. Len(string)
  OBVIOUS
<1>6. k < Len(string) => string[k + 1] = Line(p)[drawn + 1]
  <2> SUFFICES ASSUME k < Len(string) PROVE string[k + 1] = Line(p)[drawn + 1]
    OBVIOUS
  <2>1. k + 1 \in 1 .. Width(q)
    BY <1>1, <1>3
  <2>2. \A i \in 1..5 : \A j \in 1 .. Width(i) : Line(p)[Column(i) + j] = Piece(p, i)[j]
    BY LineFacts
  <2>3. Line(p)[Column(q) + (k + 1)] = Piece(p, q)[k + 1]
    BY <2>1, <2>2
  <2>4. QED
    BY <1>3, <2>3
<1>7. TitleShown' = TitleShown
  BY DEF TitleShown
<1> HIDE DEF string, later, x, drawn
<1>8. StringEnds(later, string, k) \/ OneDrawn(later, x, 72, string, k)
  <2>1. Drawing(Work(p), later, x, 72, string, k)
    BY <1>1, <1>2, <1>3, <1>4, <1>5 DEF Drawing
  <2>2. QED
    BY <2>1, StringStep
<1>9. CASE OneDrawn(later, x, 72, string, k)
  <2>0. /\ k < Len(string) /\ string[k + 1] \in Chars
        /\ todo' = <<Rest(x, 72, string, k + 1)>> \o later
        /\ vram' = vram \cup DrawChar(x + 12 * k, 72, string[k + 1])
    BY <1>9 DEF OneDrawn
  <2>1. Picture(72, Line(p), drawn) \cup DrawChar(12 * drawn, 72, Line(p)[drawn + 1])
            = Picture(72, Line(p), drawn + 1)
    BY <1>3, <1>6, <2>0, OneMoreDrawn
  <2>2. vram' = TitleShown \cup Picture(72, Line(p), drawn + 1)
    <3>1. vram' = vram \cup DrawChar(12 * drawn, 72, Line(p)[drawn + 1])
      BY <1>3, <1>6, <2>0
    <3>2. QED
      BY <1>4, <2>1, <3>1
  <2>3. vram' = TitleShown \cup Picture(72, Line(p), Column(q) + (k + 1))
    BY <1>3, <2>2
  <2>4. todo' = <<Rest(12 * Column(q), 72, Piece(p, q), k + 1)>> \o SubSeq(Progress(p), q + 2, 6)
    BY <2>0 DEF x, string, later
  <2>5. Writing(p, q, k + 1)'
    BY <1>7, <2>3, <2>4 DEF Writing
  <2>6. k + 1 \in 0 .. Len(string)
    BY <1>1, <1>3, <2>0
  <2>7. QED
    BY <2>5, <2>6 DEF string
<1>10. CASE StringEnds(later, string, k)
  <2>0. k = Len(string) /\ todo' = later /\ vram' = vram
    BY <1>10 DEF StringEnds
  <2>1. drawn = Column(q + 1)
    BY <1>1, <2>0, ColumnFacts DEF drawn
  <2>2. vram' = TitleShown \cup Picture(72, Line(p), Column(q + 1))
    BY <1>4, <2>0, <2>1
  <2>3. CASE q = 5
    <3>1. Column(q + 1) = 19
      BY <2>3 DEF Column
    <3>2. todo' = SubSeq(Progress(p), 7, 6)
      BY <2>0, <2>3 DEF later
    <3>3. SubSeq(Progress(p), 7, 6) = <<>>
      <4>1. Progress(p) \in Seq(Work(p))
        BY ProgressSteps
      <4>2. 6 < 7
        OBVIOUS
      <4>3. QED
        BY <4>1, <4>2, SubSeqEmpty
    <3>4. QED
      BY <2>2, <3>1, <3>2, <3>3
  <2>4. CASE q # 5
    <3>1. q + 1 \in 1..5 /\ (q + 1) + 1 = q + 2 /\ Column(q + 1) + 0 = Column(q + 1)
      BY <1>3, <2>1, <2>4
    <3>2. SubSeq(Progress(p), (q + 1) + 1, 6)
              = <<Rest(12 * Column(q + 1), 72, Piece(p, q + 1), 0)>> \o SubSeq(Progress(p), (q + 1) + 2, 6)
      BY <3>1, NextString DEF Follows
    <3>3. todo' = <<Rest(12 * Column(q + 1), 72, Piece(p, q + 1), 0)>> \o SubSeq(Progress(p), (q + 1) + 2, 6)
      BY <2>0, <3>1, <3>2 DEF later
    <3>4. vram' = TitleShown \cup Picture(72, Line(p), Column(q + 1) + 0)
      BY <2>2, <3>1
    <3>5. Writing(p, q + 1, 0)'
      BY <1>7, <3>3, <3>4 DEF Writing
    <3>6. QED
      BY <3>1, <3>5
  <2>5. QED
    BY <2>3, <2>4
<1>11. QED
  BY <1>8, <1>9, <1>10


LEMMA DrawKeepsScreen == ScreenInv /\ DrawNext => ScreenInv'
<1> SUFFICES ASSUME ScreenInv, DrawNext PROVE ScreenInv'
  OBVIOUS
<1>1. show' = show /\ shown' = shown /\ regs' = regs
  BY DEF DrawNext
<1>2. show \in Shows /\ shown \in 0 .. Len(show.progress) /\ Len(show.progress) \in Nat
  <2>1. show \in Shows /\ shown \in 0 .. Len(show.progress)
    BY DEF ScreenInv
  <2>2. QED
    BY <2>1, ProgressOfShow
<1>3. CASE Titling
  <2>1. Titling' \/ Resting'
    BY <1>3, TitleKeepsScreen
  <2>2. QED
    BY <1>1, <2>1 DEF ScreenInv
<1>4. CASE Progressing
  <2>1. shown > 0 /\ shown \in 1 .. Len(show.progress)
    BY <1>2, <1>4 DEF Progressing
  <2>2. PICK p \in Sizes8 : p = show.progress[shown]
    BY <1>2, <2>1, Shown8
  <2>3. PICK q \in 1..5 : \E k \in 0 .. Len(Piece(p, q)) : Writing(p, q, k)
    BY <1>4, <2>2 DEF Progressing
  <2>4. PICK k \in 0 .. Len(Piece(p, q)) : Writing(p, q, k)
    BY <2>3
  <2>5. \/ k + 1 \in 0 .. Len(Piece(p, q)) /\ Writing(p, q, k + 1)'
        \/ q + 1 \in 1..5 /\ Writing(p, q + 1, 0)'
        \/ todo' = <<>> /\ vram' = TitleShown \cup Picture(72, Line(p), 19)
    BY <2>2, <2>4, NextOfWriting
  <2>6. p = show'.progress[shown'] /\ shown' > 0
    BY <1>1, <2>1, <2>2
  <2>7. CASE k + 1 \in 0 .. Len(Piece(p, q)) /\ Writing(p, q, k + 1)'
    <3>1. Progressing'
      BY <2>6, <2>7 DEF Progressing
    <3>2. QED
      BY <1>1, <3>1 DEF ScreenInv
  <2>8. CASE q + 1 \in 1..5 /\ Writing(p, q + 1, 0)'
    <3>1. 0 \in 0 .. Len(Piece(p, q + 1))
      BY <2>8, PieceFacts, ColumnFacts
    <3>2. Progressing'
      BY <2>6, <2>8, <3>1 DEF Progressing
    <3>3. QED
      BY <1>1, <3>2 DEF ScreenInv
  <2>9. CASE todo' = <<>> /\ vram' = TitleShown \cup Picture(72, Line(p), 19)
    <3>1. UpToNow(shown)' = TitleShown \cup Picture(72, Line(p), 19)
      BY <2>6 DEF UpToNow, TitleShown
    <3>2. Resting'
      BY <2>9, <3>1 DEF Resting
    <3>3. QED
      BY <1>1, <3>2 DEF ScreenInv
  <2>10. QED
    BY <2>5, <2>7, <2>8, <2>9
<1>5. Titling \/ Progressing
  BY WhoseTurn DEF DrawNext
<1>6. QED
  BY <1>3, <1>4, <1>5

(* After every step the screen shows the title and what the progress under *)
(* way has drawn of its line, nothing of an older line once the lines are  *)
(* cleared, and what is to be done is the rest of the same drawing; the    *)
(* display's registers are the ones for its cable and depth.               *)
THEOREM ScreenStays == ScreenSpec => []ScreenInv
<1>1. ScreenInit => ScreenInv
  BY ScreenHolds
<1>2. ScreenInv /\ [ScreenNext]_screenVars => ScreenInv'
  <2> SUFFICES ASSUME ScreenInv, [ScreenNext]_screenVars PROVE ScreenInv'
    OBVIOUS
  <2>1. CASE SetupVideo
    BY <2>1, SetupKeepsScreen
  <2>2. CASE ClearLines
    BY <2>2, ClearKeepsScreen
  <2>3. CASE DrawNext
    BY <2>3, DrawKeepsScreen
  <2>4. CASE DrawProgress
    BY <2>4, ProgressKeepsScreen
  <2>5. CASE UNCHANGED screenVars
    BY <2>5 DEF screenVars, ScreenInv, Dark, Titling, Resting, Clearing, Progressing, Writing,
                UpToNow, TitleShown
  <2>6. QED
    BY <2>1, <2>2, <2>3, <2>4, <2>5 DEF ScreenNext
<1>3. QED
  BY <1>1, <1>2, PTL DEF ScreenSpec


-----------------------------------------------------------------------------
(* The display goes through the frame line by line, or by its even and its *)
(* odd lines.                                                              *)
LEMMA ByTwoFields ==
    ASSUME NEW bytes \in Nat
    PROVE  LinesFrom({0, bytes}, 2 * bytes, 240) = LinesFrom({0}, bytes, 480)
<1> DEFINE fields == {b + j * (2 * bytes) : b \in {0, bytes}, j \in 0 .. 240 - 1}
           lines == {b + k * bytes : b \in {0}, k \in 0 .. 480 - 1}
<1>1. \A j \in 0 .. 240 - 1 : 0 + j * (2 * bytes) = (2 * j) * bytes
                              /\ bytes + j * (2 * bytes) = (2 * j + 1) * bytes
                              /\ 2 * j \in 0..479 /\ 2 * j + 1 \in 0..479
  OBVIOUS
<1>2. ASSUME NEW a \in fields PROVE a \in lines
  <2>1. PICK b \in {0, bytes}, j \in 0 .. 240 - 1 : a = b + j * (2 * bytes)
    OBVIOUS
  <2>2. CASE b = 0
    <3>1. a = (2 * j) * bytes /\ 2 * j \in 0..479
      BY <1>1, <2>1, <2>2
    <3>2. a = 0 + (2 * j) * bytes /\ 2 * j \in 0 .. 480 - 1
      BY <3>1
    <3>3. QED
      BY <3>2
  <2>3. CASE b = bytes
    <3>1. a = (2 * j + 1) * bytes /\ 2 * j + 1 \in 0..479
      BY <1>1, <2>1, <2>3
    <3>2. a = 0 + (2 * j + 1) * bytes /\ 2 * j + 1 \in 0 .. 480 - 1
      BY <3>1
    <3>3. QED
      BY <3>2
  <2>4. QED
    BY <2>2, <2>3
<1>3. ASSUME NEW a \in lines PROVE a \in fields
  <2>1. PICK b \in {0}, k \in 0 .. 480 - 1 : a = b + k * bytes
    OBVIOUS
  <2>0. k \in 0..479 /\ a = k * bytes
    BY <2>1
  <2>2. PICK j \in 0 .. 240 - 1 : k = 2 * j \/ k = 2 * j + 1
    <3>1. k \div 2 \in 0 .. 240 - 1 /\ (k = 2 * (k \div 2) \/ k = 2 * (k \div 2) + 1)
      OBVIOUS
    <3>2. QED
      BY <3>1
  <2>3. CASE k = 2 * j
    <3>1. a = 0 + j * (2 * bytes)
      BY <1>1, <2>0, <2>3
    <3>2. QED
      BY <3>1
  <2>4. CASE k = 2 * j + 1
    <3>1. a = bytes + j * (2 * bytes)
      BY <1>1, <2>0, <2>4
    <3>2. QED
      BY <3>1
  <2>5. QED
    BY <2>2, <2>3, <2>4
<1> HIDE DEF fields, lines
<1>4. fields = lines
  BY <1>2, <1>3
<1>5. QED
  BY <1>4 DEF fields, lines, LinesFrom

LEMMA LineSizes ==
    ASSUME NEW mode \in 0..3
    PROVE  /\ 640 * 2 ^ PixelShift(mode) \in Nat \ {0} /\ WordsPerLine(mode) \in Nat
           /\ 4 * WordsPerLine(mode) = 640 * 2 ^ PixelShift(mode)
<1> DEFINE Fine(s) == 640 * 2 ^ s \in Nat \ {0} /\ 160 * 2 ^ s \in Nat /\ 4 * (160 * 2 ^ s) = 640 * 2 ^ s
<1>1. Fine(0) /\ Fine(1) /\ Fine(2)
  OBVIOUS
<1>2. PixelShift(mode) \in {0, 1, 2}
  <2>1. mode = 0 \/ mode = 1 \/ mode = 2 \/ mode = 3
    OBVIOUS
  <2>2. PixelShift(0) = 1 /\ PixelShift(1) = 1 /\ PixelShift(2) = 0 /\ PixelShift(3) = 2
    BY DEF PixelShift
  <2>3. QED
    BY <2>1, <2>2
<1> HIDE DEF Fine
<1>3. Fine(PixelShift(mode))
  BY <1>1, <1>2
<1>4. QED
  BY <1>3 DEF Fine, WordsPerLine

LEMMA TwoElements ==
    ASSUME NEW a, NEW b, a # b
    PROVE  Cardinality({a, b}) = 2
<1>1. IsFiniteSet({a}) /\ Cardinality({a}) = 1
  BY FS_Singleton
<1>2. b \notin {a} /\ {a} \cup {b} = {a, b}
  OBVIOUS
<1>3. Cardinality({a} \cup {b}) = Cardinality({a}) + 1
  BY <1>1, <1>2, FS_AddElement
<1>4. QED
  BY <1>1, <1>2, <1>3

LEMMA LinesOfFrame ==
    ASSUME ScreenInv, regs # <<>>
    PROVE  EveryLineShown
<1> DEFINE cable == CheckCable(show.port)
           bytes == 640 * 2 ^ PixelShift(show.mode)
           words == WordsPerLine(show.mode)
           step == 4 * (regs.size.words + regs.size.modulo - 1)
           begins == IF regs.interlaced THEN {regs.long, regs.short} ELSE {regs.long}
<1>1. bytes \in Nat \ {0} /\ words \in Nat /\ 4 * words = bytes
  <2>1. show \in Shows
    BY DEF ScreenInv
  <2>2. show.mode \in 0..3
    BY <2>1, ProgressOfShow
  <2>3. QED
    BY <2>2, LineSizes
<1>2. regs = InitVideo(cable, show.mode)
  BY DEF ScreenInv
<1>3. /\ regs.long = 0 /\ regs.short = bytes /\ regs.interlaced = ~IsVga(cable)
      /\ regs.size.words = words /\ regs.size.modulo = (IF IsVga(cable) THEN 1 ELSE 1 + words)
      /\ regs.size.lines = (IF IsVga(cable) THEN 480 ELSE 240)
  BY <1>2 DEF InitVideo, Modulo
<1> HIDE DEF cable, bytes, words
<1> DEFINE Whole == /\ 4 * regs.size.words = bytes
                    /\ LinesFrom(begins, step, regs.size.lines) = LinesFrom({0}, bytes, 480)
                    /\ Cardinality(begins) * regs.size.lines = 480
<1>4. CASE IsVga(cable)
  <2>1. regs.size.lines = 480 /\ begins = {0} /\ regs.size.words = words /\ regs.size.modulo = 1
    BY <1>3, <1>4
  <2>2. step = bytes
    BY <1>1, <2>1
  <2>3. LinesFrom(begins, step, regs.size.lines) = LinesFrom({0}, bytes, 480)
    <3> HIDE DEF begins, step
    <3>1. QED
      BY <2>1, <2>2
  <2>4. Cardinality({0}) = 1 /\ 1 * 480 = 480
    <3>1. Cardinality({0}) = 1
      BY FS_Singleton
    <3>2. QED
      BY <3>1
  <2>5. Whole
    <3> HIDE DEF begins, step
    <3>1. QED
      BY <1>1, <2>1, <2>3, <2>4
  <2>6. QED
    BY <2>5 DEF EveryLineShown, bytes
<1>5. CASE ~IsVga(cable)
  <2>1. /\ regs.size.lines = 240 /\ begins = {0, bytes} /\ regs.size.words = words
        /\ regs.size.modulo = 1 + words
    BY <1>3, <1>5
  <2>2. step = 2 * bytes
    <3>1. 4 * (words + (1 + words) - 1) = 2 * (4 * words)
      BY <1>1
    <3>2. QED
      BY <1>1, <2>1, <3>1
  <2>3. LinesFrom(begins, step, regs.size.lines) = LinesFrom({0}, bytes, 480)
    <3> HIDE DEF begins, step
    <3>1. QED
      BY <1>1, <2>1, <2>2, ByTwoFields
  <2>4. Cardinality({0, bytes}) = 2 /\ 2 * 240 = 480
    <3>1. 0 # bytes
      BY <1>1
    <3>2. Cardinality({0, bytes}) = 2
      BY <3>1, TwoElements
    <3>3. QED
      BY <3>2
  <2>5. Whole
    <3> HIDE DEF begins, step
    <3>1. QED
      BY <1>1, <2>1, <2>3, <2>4
  <2>6. QED
    BY <2>5 DEF EveryLineShown, bytes
<1>6. QED
  BY <1>4, <1>5

LEMMA VisiblePictures ==
    ASSUME ScreenInv, todo = <<>>
    PROVE  Visible = Drawn(0, 24, Title)
                     \cup (IF shown = 0 THEN {} ELSE ProgressLine(show.progress[shown]))
<1>1. vram = UpToNow(shown)
  BY WhoseTurn DEF Resting
<1>2. Visible = {Seen(a) : a \in UpToNow(shown)}
  BY <1>1 DEF Visible, Seen
<1>3. {Seen(a) : a \in TitleShown} = Drawn(0, 24, Title)
  BY TitleFacts, SeenAsDrawn DEF TitleShown
<1>4. CASE shown = 0
  <2>1. UpToNow(shown) = TitleShown
    BY <1>4 DEF UpToNow
  <2>2. QED
    BY <1>2, <1>3, <1>4, <2>1
<1>5. CASE shown # 0
  <2>1. show \in Shows /\ shown \in 0 .. Len(show.progress)
    BY DEF ScreenInv
  <2>2. shown \in 1 .. Len(show.progress)
    BY <1>5, <2>1, ProgressOfShow
  <2>3. PICK p \in Sizes8 : p = show.progress[shown]
    BY <2>1, <2>2, Shown8
  <2>4. Len(Line(p)) = 19 /\ 19 \in Nat /\ 12 * 19 <= 640 /\ 72 \in Nat
    BY LineFacts
  <2>5. {Seen(a) : a \in Picture(72, Line(p), 19)} = Drawn(0, 72, Line(p))
    BY <2>4, SeenAsDrawn
  <2>6. Drawn(0, 72, Line(p)) = ProgressLine(p)
    BY DEF ProgressLine, Line
  <2>7. UpToNow(shown) = TitleShown \cup Picture(72, Line(p), 19)
    BY <1>5, <2>3 DEF UpToNow
  <2>8. Visible = {Seen(a) : a \in TitleShown} \cup {Seen(a) : a \in Picture(72, Line(p), 19)}
    BY <1>2, <2>7
  <2>9. QED
    BY <1>3, <1>5, <2>3, <2>5, <2>6, <2>8
<1>6. QED
  BY <1>4, <1>5

(* When nothing is left to be drawn the viewer sees the title and the last *)
(* progress, every dot at its place and no other, on lines that are each   *)
(* shown once (init_video, draw_string and draw_progress).                 *)
THEOREM ScreenRight == ScreenSpec => []ShowsTheLast
<1>1. ScreenInv => ShowsTheLast
  <2> SUFFICES ASSUME ScreenInv PROVE ShowsTheLast
    OBVIOUS
  <2>1. EveryLineShown
    BY LinesOfFrame DEF EveryLineShown
  <2>2. QED
    BY <2>1, VisiblePictures DEF ShowsTheLast
<1>2. QED
  BY <1>1, ScreenStays, PTL
=============================================================================
