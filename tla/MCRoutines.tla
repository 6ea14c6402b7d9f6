----------------------------- MODULE MCRoutines -----------------------------
(* Blocks, calls, exceptions and command lines at the boundaries of each,  *)
(* and more directories than the table has entries.                        *)
EXTENDS Routines

MCNumbers == "512" :> 512 @@ "115200" :> 115200 @@ "57600" :> 57600

-----------------------------------------------------------------------------
(* Nothing repeats in a ramp; a fill is one byte again and again.          *)
Ramp(n) == [i \in 1..n |-> IF i % 2 = 0 THEN (i \div 2) % 256 ELSE 1 + (((i \div 512) * 2) % 256)]
Fill(n, byte) == [i \in 1..n |-> byte]
(* len bytes that were there before, back bytes behind.                    *)
Again(len, back) ==
    LET head == Ramp(400)
    IN  head \o Fill(back - 395, 7) \o SubSeq(head, 6, 5 + len) \o Ramp(30)
Bits == [1..4 -> {0, 1}]

MCSources ==
    {Ramp(n) : n \in {1, 3, 18, 19, 21, 22, 60, 238, 239, 292, 300, 600}}
    \cup {Fill(n, 0) : n \in {20, 21, 26, 27, 30, 31, 32, 60, 100, 600}}
    \cup {Again(len, back) : len \in {4, 8, 9, 33, 34, 289}, back \in {2048, 2049}}
    \cup {Again(len, back) : len \in {8, 10}, back \in {16384, 16385}}
    \cup {Again(10, 49140) \o Fill(60, 3)}
    \cup {w \o w \o v \o w \o Fill(20, 3) : w, v \in Bits}

(* A match of three bytes after a run, 2108 bytes back, and one of two     *)
(* bytes after two literals.                                               *)
MCForeign == {[
    stream |-> <<21, 1, 2, 3, 4, 32, 0, 0, 0, 0, 0, 0, 0, 0, 29, 0, 0, 1, 9, 8, 7, 6,
                 14, 14, 50, 51, 5, 0, 60, 17, 0, 0>>,
    source |-> <<1, 2, 3, 4>> \o Fill(2102, 4) \o <<9, 8, 7, 6, 3, 4, 4, 50, 51, 50, 51, 60>>]}

(* Streams for lzo1x_decompress_safe: whole ones with every instruction,   *)
(* each cut short everywhere, with a byte damaged anywhere, and with more  *)
(* or less room than the source takes.                                     *)
Whole == MCForeign \cup {
    [stream |-> <<0, 1>> \o Fill(19, 9) \o <<129, 0, 7, 17, 0, 0>>, source |-> Fill(24, 9) \o <<7>>],
    [stream |-> <<18, 5, 40, 2, 0, 1, 6, 5, 0, 9, 104, 0, 17, 0, 0>>,
     source |-> Fill(11, 5) \o <<1, 6, 1, 6, 9, 1, 6, 9, 1>>]}
Far == [stream |-> <<21, 1, 2, 3, 4, 32>> \o Fill(64, 0) \o <<60, 0, 0, 17, 132, 0, 17, 0, 0>>,
        source |-> <<1, 2, 3, 4>> \o Fill(16413, 4) \o <<1, 2, 3>>]
Come(w, stream, room) == [stream |-> stream, room |-> room, whole |-> w.stream, source |-> w.source]
MCReceived ==
    UNION {{Come(w, SubSeq(w.stream, 1, n), Len(w.source)) : n \in 0 .. Len(w.stream)}
           \cup {Come(w, w.stream, Len(w.source) + d) : d \in {-6, -3, -2, -1, 1}}
           \cup {Come(w, [w.stream EXCEPT ![i] = b], Len(w.source)) :
                     i \in DOMAIN w.stream, b \in {0, 1, 2, 15, 16, 24, 32, 63, 64, 255}} :
           w \in Whole}
    \cup {Come(Far, SubSeq(Far.stream, 1, n), Len(Far.source) - d) : n \in {74, 75, 76, 79}, d \in {0, 1}}

(* Compilers with what they define: of two names that lzodefs.h takes for  *)
(* the same the shorter list has one.  Gcc has told the sizes of its types *)
(* since 4.3.                                                              *)
GccOld == {"__GNUC__", "__GNUC_MINOR__", "__VERSION__", "__GNUC__ >= 2.8", "__GNUC__ >= 2.95"}
Gcc3 == GccOld \cup {"__GNUC__ >= 3.3", "__LONG_MAX__", "__LONG_LONG_MAX__"}
Gcc == Gcc3 \cup {"__GNUC__ >= 3.4", "__GNUC__ >= 4", "__SIZEOF_...__", "__STDC_VERSION__ >= 199901L"}
Clang == Gcc \cup {"__clang__", "__llvm__"}
Msc == {"_MSC_VER", "_MSC_VER >= 1300", "_MSC_VER >= 1400", "_WIN32"}
Lp64 == {"__LP64__"}

(* The sizes of the types, with or without __int64 and its kin.            *)
Reals(int, long, pointer, msc) ==
    [type \in {"int"} |-> int] @@ [type \in {"long"} |-> long] @@
    [type \in {"void *", "char *", "size_t", "ptrdiff_t"} |-> pointer] @@
    "short" :> 2 @@ "long long" :> 8 @@ "char" :> 1 @@ "mode HI" :> 2 @@ "mode SI" :> 4 @@
    "none" :> 0 @@ "__int16" :> (IF msc THEN 2 ELSE 0) @@
    "__int32" :> (IF msc THEN 4 ELSE 0) @@ "__int64" :> (IF msc THEN 8 ELSE 0)
Ilp == Reals(4, 4, 4, FALSE)
Lp == Reals(4, 8, 8, FALSE)
Win32 == Reals(4, 4, 4, TRUE)
Win64 == Reals(4, 4, 8, TRUE)
Long64 == Reals(4, 8, 4, FALSE)
Dos == Reals(2, 4, 4, FALSE)

Target(defines, real) == [defines |-> defines, real |-> real, config |-> <<>>]
Build(library, caller, order, strict) ==
    [library |-> library, caller |-> caller, order |-> order, strict |-> strict,
     version |-> 8352, unsaid |-> {}]
Machine(defines, real, order, strict) ==
    Build(Target(defines, real), Target(defines, real), order, strict)
Amd == {"__amd64__", "__x86_64__"}
Machines ==
    {Machine(Amd \cup by, Lp, "little", FALSE) :
        by \in {Gcc \cup Lp64 \cup {"__linux__"}, Clang \cup Lp64, Gcc3, GccOld, {}}}
    \cup {Machine(Amd \cup Gcc \cup {"__ILP32__"}, Ilp, "little", FALSE)}
    \cup {Machine(Amd \cup by \cup {"_WIN64", "_WIN32"}, Win64, "little", FALSE) : by \in {Gcc, Clang, Msc}}
    \cup {Machine({"__i386__"} \cup by, Ilp, "little", FALSE) : by \in {Gcc, Clang, Gcc3, {}}}
    \cup {Machine({"__i386__"} \cup by, Win32, "little", FALSE) :
              by \in {Msc, {"_MSC_VER", "_WIN32"}, {"__BORLANDC__", "__BORLANDC__ >= 0x0520", "_WIN32"},
                      {"__WATCOMC__", "__WATCOMC__ >= 1100", "__NT__", "_WIN32"}, {"__MSDOS__", "__DMC__", "__SC__"},
                      Gcc \cup {"__CYGWIN__"}}}
    \cup {Machine({"_M_ARM", "__ARM_ARCH >= 7"} \cup Msc, Win32, "little", FALSE),
          Machine({"_M_ARM64", "_WIN64"} \cup Msc, Win64, "little", FALSE)}
    \cup {Machine({"__arm__", end.macro} \cup Gcc \cup more, Ilp, end.order, more = {}) :
             end \in {[macro |-> "__ARMEL__", order |-> "little"], [macro |-> "__ARMEB__", order |-> "big"]},
             more \in {{}, {"__ARM_FEATURE_UNALIGNED"}, {"__thumb__", "__thumb2__"}, {"__ARM_ARCH >= 7"}}}
    \cup {Machine({"__arm__", "__ARMCC_VERSION"}, Ilp, "little", TRUE),
          Machine({"__arm__", "__ARMCC_VERSION", "__BIG_ENDIAN"}, Ilp, "big", TRUE),
          Machine({"__aarch64__", "__AARCH64EL__"} \cup Gcc, Lp, "little", FALSE),
          Machine({"__aarch64__", "__AARCH64EB__", "__ARM_BIG_ENDIAN"} \cup Gcc, Lp, "big", FALSE),
          Machine({"__powerpc__", "__BIG_ENDIAN__"} \cup Gcc3, Ilp, "big", FALSE),
          Machine({"__powerpc__", "__LITTLE_ENDIAN__"} \cup Gcc, Ilp, "little", TRUE),
          Machine({"__powerpc__", "__powerpc64__", "__LITTLE_ENDIAN__"} \cup Gcc, Lp, "little", FALSE),
          Machine({"__mips__", "__MIPSEB__"} \cup Gcc3, Ilp, "big", TRUE),
          Machine({"__mips__", "__MIPSEL__"} \cup Gcc, Ilp, "little", TRUE),
          Machine({"__mips__", "__MIPSEL__", "__R5900__"} \cup GccOld, Long64, "little", TRUE),
          Machine({"__sh__", "__LITTLE_ENDIAN__"} \cup Gcc3, Ilp, "little", TRUE),
          Machine({"__sh__", "__BIG_ENDIAN__"} \cup Gcc, Ilp, "big", TRUE),
          Machine({"__m68k__"} \cup GccOld, Ilp, "big", TRUE),
          Machine({"__m68k__", "__mc68020__"} \cup Gcc, Ilp, "big", FALSE),
          Machine({"__ia64__", "__linux__"} \cup Gcc, Lp, "little", TRUE),
          Machine({"__ia64__"} \cup Gcc, Lp, "big", TRUE),
          Machine({"__riscv"} \cup Gcc, Lp, "little", FALSE), Machine({"__s390x__"} \cup Gcc, Lp, "big", FALSE),
          Machine({"__alpha__"} \cup GccOld, Lp, "little", TRUE), Machine({"__sparc__"} \cup Gcc, Lp, "big", TRUE),
          Machine({"__sparc__", "__SUNPRO_C", "__STDC_VERSION__ >= 199901L"}, Ilp, "big", TRUE),
          Machine({"__hppa__"} \cup Gcc3, Ilp, "big", TRUE)}

(* Callers and libraries that do not belong together: the other compiler   *)
(* of the machine, another data model (gcc's -m32, -mx32 and the like),    *)
(* 16-bit DOS, and a size that was configured wrong.                       *)
Amd64 == Target(Amd \cup Gcc \cup Lp64, Lp)
X32 == Target(Amd \cup Gcc \cup {"__ILP32__"}, Ilp)
I386 == Target({"__i386__"} \cup Gcc, Ilp)
W64 == Target(Amd \cup Msc \cup {"_WIN64"}, Win64)
Mingw64 == Target(Amd \cup Gcc \cup {"_WIN64", "_WIN32"}, Win64)
I086 == Target({"__MSDOS__", "__TURBOC__"}, Dos)
Wrong(t, type, size) == [t EXCEPT !.config = type :> size]
Pairs == {<<Amd64, I386>>, <<Amd64, X32>>, <<X32, I386>>, <<W64, Mingw64>>, <<W64, Amd64>>, <<I386, W64>>,
          <<I086, I086>>, <<I386, I086>>}
         \cup {<<Amd64, Wrong(Amd64, type, 4)>> : type \in {"int", "long", "void *", "size_t"}}
         \cup {<<Wrong(I386, type, 8), I386>> : type \in {"short", "int", "long", "ptrdiff_t"}}
Mixed == {Build(p[1], p[2], "little", FALSE) : p \in Pairs}
Unsaid == {[b EXCEPT !.unsaid = without] : b \in Mixed, without \in {{3}, {3, 5}, 3..9}}

Some == {Machine({"__x86_64__"} \cup Gcc, Lp, "little", FALSE), Machine({"__sh__", "__LITTLE_ENDIAN__"} \cup Gcc3, Ilp, "little", TRUE),
         Machine({"__sparc__"} \cup Gcc, Lp, "big", TRUE)}
ByUser == {"LZO_ABI_NEUTRAL_ENDIAN", "LZO_ABI_BIG_ENDIAN", "LZO_ABI_LITTLE_ENDIAN",
           "LZO_OPT_UNALIGNED16", "LZO_OPT_UNALIGNED32"}
MCBuilds ==
    Machines \cup Mixed \cup Unsaid
    \cup {[x EXCEPT !.library.defines = @ \cup {macro}] : x \in Some, macro \in ByUser}
    \cup {[x EXCEPT !.version = 0] : x \in Some}

-----------------------------------------------------------------------------
Addresses == 0..71
Distinct == [a \in Addresses |-> a]
Call(name, to, from, n, mem) == [name |-> name, to |-> to, from |-> from, n |-> n, m |-> mem]

MCCalls ==
    {Call("memcpy", 40 + d, 4 + s, n, Distinct) : d \in 0..3, s \in 0..3, n \in 0..28}
    \cup {Call("memmove", 20 + d, s, n, Distinct) :
             d \in 0..3, s \in 16..44, n \in {0, 1, 15, 16, 23}}
    \cup {Call("memset", 20 + d, 99, n, Distinct) : d \in 0..3, n \in 0..40}
    \cup {Call("memcmp", 4 + d, 40 + s, n, [a \in Addresses |-> IF a = 40 + s + k THEN b ELSE 6]) :
             d \in {0, 1}, s \in {0, 1}, n \in 0..10, k \in 0..10, b \in {5, 7}}

-----------------------------------------------------------------------------
MCCodes == DOMAIN Described \cup {0}

(* A font with pixels at all edges, the characters at the edges of the     *)
(* font, all cables, and numbers with digits whose neighbours differ.      *)
MCFont == [i \in 0 .. 36 * 289 - 1 |->
              IF i >= 36 * Blank THEN 0 ELSE (i * 37 + (i \div 36) * 11) % 256]
MCTitle == <<100, 127, 33, 126, 160, 255, 32, 159>>
Eight(a, b) == <<48, 48, 48, 48, 48, 48, a, b>>
Of(a, b) == [current |-> Eight(a, b), total |-> Eight(65, 70)]
MCShows == {[port |-> port, mode |-> mode, progress |-> <<Of(48, 48), Of(55, 57), Of(65, 70)>>] :
               port \in {0, 512, 785}, mode \in {0, 1}}

(* An image of the size this one has, one that ends at the buffer, and the *)
(* largest and smallest; the largest lie in the buffer, too.               *)
MCImages == {i \in [data : {4, 20000, 30000}, end : {20000, 20004, BufferAt, 45276}, exception : {4, 3072}] :
                i.data <= i.end}
(* Where areas begin and end, and the last words before.                   *)
Edges == {BufferAt, BufferAt + BufferSize, ExceptionAt, LoaderAt, LoaderAt + CodeSize, LoaderAt + ProgramSize}
        \cup UNION {{i.data, i.end, i.end + 4, ExceptionAt + i.exception} : i \in MCImages}
MCObserved == {0} \cup Edges \cup {a - 4 : a \in Edges} \cup {a - 1 : a \in Edges}

-----------------------------------------------------------------------------
Intent(letter, arg) == [letter |-> letter, arg |-> arg]
Intents == {Intent("x", "prog"), Intent("d", "dump"), Intent("s", "512"), Intent("b", "115200"),
            Intent("i", "iso"), Intent("p", ""), Intent("e", ""), Intent("q", ""),
            Intent("h", "")}
Ways == {"own", "joined"}
MCTyped == UNION {{[intents |-> intents, words |-> Written(intents, ways)] :
                      intents \in [1..n -> Intents], ways \in [1..n -> Ways]} : n \in 1..3}
=============================================================================
