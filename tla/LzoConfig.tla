----------------------------- MODULE LzoConfig ------------------------------
(***************************************************************************)
(* lzo_init (minilzo.c: __lzo_init_v2 and _lzo_config_check): before       *)
(* anything is compressed the library finds out whether it was compiled    *)
(* for the machine it runs on, and as its caller was.  It puts bytes into  *)
(* a union and reads words from odd addresses.                             *)
(*                                                                         *)
(* A word is the sequence of its bytes, the least significant first.       *)
(***************************************************************************)
EXTENDS Integers, Sequences, Bitwise, TLC

CONSTANT Builds
    \* library, caller: what each was compiled with, as in LzoTypes; unsaid:
    \* the sizes a caller does not tell, which are then not compared; version;
    \* of the machine: order, "little" or "big"; strict: it cannot read a word
    \* from an address that is not a multiple of its size

VARIABLES
    build,      \* one of Builds
    found,      \* what its compilers have found out: [library, caller], each
                \* [os, cc, arch, size] as in LzoTypes
    union,      \* the bytes of the union
    agrees,     \* r
    test,       \* the number of the next test
    checked     \* what has come of it: "not compiled" and on to "measured",
                \* "refused" by the compiler, "not yet", "trap", or what lzo_init returns

configVars == <<build, found, union, agrees, test, checked>>

L == INSTANCE LzoTypes WITH target <- build.library, os <- found.library.os,
         cc <- found.library.cc, arch <- found.library.arch, size <- found.library.size
C == INSTANCE LzoTypes WITH target <- build.caller, os <- found.caller.os,
         cc <- found.caller.cc, arch <- found.caller.arch, size <- found.caller.size
-----------------------------------------------------------------------------
(* What the library decides of its machine.                                *)
Defined(macro) == L!Defined(macro)
When(condition, value) == L!When(condition, value)
FirstOf(rows, otherwise) == L!FirstOf(rows, otherwise)
Arch == found.library.arch
Told == L!Told

(* LZO_OPT_UNALIGNED16, 32 and 64: words that are read from anywhere, of   *)
(* so many bytes; or they are defined by hand.  "__ARM_ARCH >= 7" stands   *)
(* for what each compiler calls it.                                        *)
Upto(n) == {2, 4, 8} \cap 1..n
SafeSizes == FirstOf(<<
    When(Arch \in {"amd64", "arm64"}, Upto(8)),
    When(Arch \in {"cris", "i386"}, Upto(4)),
    When(Arch = "arm" /\ (Defined("__ARM_FEATURE_UNALIGNED") \/ L!Thumb2 \/ Defined("__ARM_ARCH >= 7")), Upto(4)),
    When(Arch = "m68k" /\ L!Alone("__mc68020__", "__mcoldfire__"), Upto(4)),
    When(Arch = "powerpc" /\ (Told = "big" \/ L!WordSize = 8), Upto(L!WordSize)),
    When(Arch \in {"riscv", "s390"}, Upto(L!WordSize))>>, {})
ByHand == {n \in {2, 4, 8} : Defined(CASE n = 2 -> "LZO_OPT_UNALIGNED16"
                                       [] n = 4 -> "LZO_OPT_UNALIGNED32"
                                       [] n = 8 -> "LZO_OPT_UNALIGNED64")}
Unaligned == IF Defined("LZO_ABI_NEUTRAL_ENDIAN") THEN {} ELSE SafeSizes \cup ByHand
Wide == 8 \in Unaligned

(* LZO_BITOPS_USE_...: how the first and the last bit of a word are found. *)
(* LLVM is taken to be new enough.                                         *)
BitScan == FirstOf(<<
    When(Arch = "amd64" /\ found.library.cc = "gnuc" /\ ~Defined("__GNUC__ >= 4") /\ ~Defined("LZO_ABI_NEUTRAL_ENDIAN"), "asm"),
    When(found.library.cc \in {"clang", "llvm"} \/ L!Gnuc("__GNUC__ >= 3.4"), "builtin"),
    When(found.library.os \in {"win32", "win64"} /\ found.library.cc = "msc" /\ Defined("_MSC_VER >= 1400"), "intrinsic")>>, "none")
-----------------------------------------------------------------------------
Zeroes == [i \in 0..15 |-> 0]
Reversed(w) == [i \in DOMAIN w |-> w[Len(w) + 1 - i]]
Read(u, n, at) == [i \in 1..n |-> u[at + i - 1]]

(* UA_GET_NE: bytes as the machine takes them.  UA_GET_LE: the same if the *)
(* machine is known to be little-endian, and byte by byte if not.          *)
GetNe(u, n, at) == IF build.order = "little" THEN Read(u, n, at) ELSE Reversed(Read(u, n, at))
GetLeAsIs(u, n, at) == GetNe(u, n, at)      \* mutant: the machine's order, whatever it is
GetLe(u, n, at) == IF Told = "little" THEN GetNe(u, n, at) ELSE Read(u, n, at)

(* bsr, clz and ctz of a word of n bits of which only bit i is set, and    *)
(* what lzo_bitops_ctlz and lzo_bitops_cttz make of them, if there are any *)
(* for such words.                                                         *)
Bsr(i) == i
Ctz(i) == i
Clz(n, i) == (n - 1) - i
ByBsr(n) == Arch = "amd64" \/ (n = 32 /\ Arch = "i386")
Ctlz(n, i) == FirstOf(<<
    When(BitScan = "intrinsic" /\ ByBsr(n), Bsr(i) ^^ (n - 1)),
    When(BitScan = "asm" /\ ByBsr(n), Bsr(i) ^^ (n - 1)),
    When(BitScan = "builtin" /\ n = 32 /\ found.library.size["int"] = 4, Clz(32, i)),
    When(BitScan = "builtin" /\ n = 32 /\ found.library.size["long"] = 8 /\ L!WordSize >= 8, Clz(64, i) ^^ 32),
    When(BitScan = "builtin" /\ n = 64 /\ 8 \in {found.library.size["long"], found.library.size["long long"]} /\ L!WordSize >= 8, Clz(64, i))>>, -1)
-----------------------------------------------------------------------------
(* The tests, in their order: bytes that are set, after all were cleared   *)
(* or not, and the words that are to be read then.                         *)
Trial(clear, put, words) == [clear |-> clear, put |-> put, words |-> words]
Ne(at, word) == [get |-> "ne", at |-> at, word |-> word]
Le(at, word) == [get |-> "le", at |-> at, word |-> word]

Number(n, byte) == [i \in 1..n |-> IF i = 1 THEN byte ELSE 0]
AsTold(word) == CASE Told = "little" -> {Ne(1, word)}
                  [] Told = "big" -> {Ne(1, Reversed(word))}
                  [] OTHER -> {}

UintSize == L!Real(L!LzoInt)
TestOrder ==
    CASE Told = "little" -> <<Trial(TRUE, 0 :> 128, {Ne(0, Number(UintSize, 128))})>>
      [] Told = "big" -> <<Trial(TRUE, UintSize - 1 :> 128, {Ne(0, Number(UintSize, 128))})>>
      [] OTHER -> <<>>
Test16 == <<
    Trial(TRUE, 0 :> 1 @@ 3 :> 2, {Ne(1, Number(2, 0)), Le(1, Number(2, 0))}),
    Trial(FALSE, 1 :> 128, {Le(1, Number(2, 128))}),
    Trial(FALSE, 2 :> 129, {Le(1, <<128, 129>>)} \cup AsTold(<<128, 129>>))>>
Test32 == <<
    Trial(TRUE, 0 :> 3 @@ 5 :> 4, {Ne(1, Number(4, 0)), Le(1, Number(4, 0))}),
    Trial(FALSE, 1 :> 128, {Le(1, Number(4, 128))}),
    Trial(FALSE, 2 :> 129 @@ 3 :> 130 @@ 4 :> 131,
         {Le(1, <<128, 129, 130, 131>>)} \cup AsTold(<<128, 129, 130, 131>>))>>
(* The bytes around the word are cleared again before it is read.          *)
Test64 ==
    IF ~Wide THEN <<>>
    ELSE <<Trial(TRUE, 0 :> 5 @@ 9 :> 6, {})>> \o
         (IF Told = "little"
          THEN <<Trial(TRUE, <<>>, {Ne(1, Number(8, 0)), Le(1, Number(8, 0))}),
                 Trial(FALSE, 1 :> 128, {Le(1, Number(8, 128))})>>
          ELSE <<Trial(TRUE, <<>>, {Ne(1, Number(8, 0))})>>)
Tests == TestOrder \o Test16 \o Test32 \o Test64

(* The library and its caller are compiled: both copies of lzodefs.h name  *)
(* the system, the compiler and the processor, then the sizes of types.    *)
(* minilzo.c asks for a type of two bytes besides.                         *)
Identify ==
    /\ checked = "not compiled"
    /\ checked' = "identified"
    /\ found' = [library |-> [os |-> L!Os, cc |-> L!Cc, arch |-> "not yet", size |-> <<>>],
                 caller |-> [os |-> C!Os, cc |-> C!Cc, arch |-> "not yet", size |-> <<>>]]
    /\ UNCHANGED <<build, union, agrees, test>>
NameProcessor ==
    /\ checked = "identified"
    /\ checked' = "processor"
    /\ found' = [found EXCEPT !.library.arch = L!Arch, !.caller.arch = C!Arch]
    /\ UNCHANGED <<build, union, agrees, test>>
Measure ==
    /\ checked = "processor"
    /\ checked' = "measured"
    /\ found' = [found EXCEPT !.library.size = L!Measured, !.caller.size = C!Measured]
    /\ UNCHANGED <<build, union, agrees, test>>
Compile ==
    /\ checked = "measured"
    /\ checked' = IF L!Compiles /\ L!Int16e # "none" /\ C!Compiles THEN "not yet" ELSE "refused"
    /\ UNCHANGED <<build, found, union, agrees, test>>

(* __lzo_init_v2: a caller compiled otherwise, or one without a version.   *)
SizesAgree == \A n \in DOMAIN L!Sizes : n \in build.unsaid \/ C!Sizes[n] = L!Sizes[n]
LzoInitV2 ==
    /\ test = 0 /\ checked = "not yet"
    /\ IF build.version # 0 /\ SizesAgree
       THEN test' = 1 /\ UNCHANGED checked
       ELSE checked' = "LZO_E_ERROR" /\ UNCHANGED test
    /\ UNCHANGED <<build, found, union, agrees>>

(* A word that is read at once, where it is, or a few bytes of it at a     *)
(* time.                                                                   *)
AtOnce(w) == Len(w.word) \in Unaligned /\ (w.get = "ne" \/ Told = "little")
Traps(w) == build.strict /\ AtOnce(w) /\ w.at % Len(w.word) # 0

RunTest ==
    /\ checked = "not yet"
    /\ test \in DOMAIN Tests
    /\ LET t == Tests[test]
       IN  /\ union' = t.put @@ (IF t.clear THEN Zeroes ELSE union)
           /\ agrees' = (agrees /\ \A w \in t.words :
                 w.word = IF w.get = "ne" THEN GetNe(union', Len(w.word), w.at)
                          ELSE GetLe(union', Len(w.word), w.at))
           /\ checked' = IF \E w \in t.words : Traps(w) THEN "trap" ELSE checked
    /\ test' = test + 1
    /\ UNCHANGED <<build, found>>

(* The scans of words with one bit, and the end.                           *)
TestBits ==
    /\ checked = "not yet"
    /\ test = Len(Tests) + 1
    /\ agrees' = (agrees /\ \A n \in {32, 64} : \A i \in 0 .. n - 1 :
                     Ctlz(n, i) # -1 => Ctlz(n, i) = n - 1 - i /\ Ctz(i) = i)
    /\ checked' = IF agrees' THEN "LZO_E_OK" ELSE "LZO_E_ERROR"
    /\ UNCHANGED <<build, found, union, test>>

Unidentified == LET none == [os |-> "", cc |-> "", arch |-> "", size |-> <<>>]
                IN  [library |-> none, caller |-> none]
Configured(b) ==
    build = b /\ found = Unidentified /\ union = Zeroes /\ agrees = TRUE /\ test = 0 /\ checked = "not compiled"
ConfigInit == \E b \in Builds : Configured(b)
ConfigNext == Identify \/ NameProcessor \/ Measure \/ Compile \/ LzoInitV2 \/ RunTest \/ TestBits
-----------------------------------------------------------------------------
(* Whatever the compiler, the library knows the byte order of its machine, *)
(* or does not rely on one, and reads no word that the machine cannot      *)
(* read, unless it was told otherwise by hand.  What is compiled for one   *)
(* of the usual data models is compiled, unless the configuration is wrong *)
(* about a size or the byte order is told both ways, and everything else   *)
(* is refused.  lzo_init finds nothing wrong exactly when the byte order   *)
(* is right and the caller, if it tells all sizes, was compiled for the    *)
(* same data model as the library.                                         *)
OrderByHand == Defined("LZO_ABI_BIG_ENDIAN") \/ Defined("LZO_ABI_LITTLE_ENDIAN")
Model(t) == [type \in {"short", "int", "long", "void *", "size_t", "ptrdiff_t"} |-> t.real[type]]
DataModel(int, long, pointer) ==
    "short" :> 2 @@ "int" :> int @@ "long" :> long @@
    [type \in {"void *", "size_t", "ptrdiff_t"} |-> pointer]
Usual(t) ==
    /\ Model(t) \in {DataModel(4, 4, 4), DataModel(4, 8, 8), DataModel(4, 4, 8), DataModel(4, 8, 4)}
    /\ \A type \in DOMAIN t.config : t.config[type] = t.real[type]
Sensible == Usual(build.library) /\ Usual(build.caller) /\ L!Told # "both" /\ C!Told # "both"
SameModel == Model(build.library) = Model(build.caller)
Fits == Told \in {build.order, "unknown"} /\ build.version # 0
Outcomes == {"LZO_E_OK", "LZO_E_ERROR", "trap"}
ConfigJudged ==
    /\ checked = "refused" => ~Sensible
    /\ checked \in Outcomes =>
        /\ Sensible
        /\ Told \notin {build.order, "unknown"} => OrderByHand
        /\ checked = "trap" => ByHand # {}
        /\ checked = "LZO_E_OK" => Fits /\ (build.unsaid = {} => SameModel)
        /\ Fits /\ SameModel => checked \in {"LZO_E_OK", "trap"}
=============================================================================
