------------------------------ MODULE LzoTypes ------------------------------
(***************************************************************************)
(* What lzodefs.h and lzoconf.h make of a compiler: the system, the        *)
(* compiler and the processor it compiles for, the sizes of its types, and *)
(* which types get the names of a width.  minilzo.c holds the text of      *)
(* lzodefs.h once more, so that the library and each of its callers decide *)
(* for themselves.                                                         *)
(*                                                                         *)
(* A macro that is compared with a number is written with the comparison.  *)
(* Left out: what is overridden by hand, Crays, and the memory models of   *)
(* machines with ints of 16 bits, all of which lzoconf.h refuses.          *)
(***************************************************************************)
EXTENDS Integers, Sequences, TLC

VARIABLES
    target,     \* defines: what the compiler, its headers and the user define;
                \* real: the size of each type, 0 if the compiler has no such
                \* type; config: the sizes of some types, which the user's
                \* configuration gives
    os, cc, arch,   \* LZO_OS_..., LZO_CC_..., LZO_ARCH_...
    size        \* LZO_SIZEOF_..., as a function of the type

Defined(macro) == macro \in target.defines
OneOf(macros) == macros \cap target.defines # {}
Real(type) == target.real[type]

(* The first row of a chain of #if and #elif whose condition holds; a row  *)
(* may hold for any of several sets of macros.                             *)
When(condition, value) == [holds |-> condition, value |-> value]
Row(value, alternatives) == When(\E macros \in alternatives : macros \subseteq target.defines, value)
FirstOf(rows, otherwise) ==
    LET hits == SelectSeq(rows, LAMBDA row : row.holds)
    IN  IF hits = <<>> THEN otherwise ELSE Head(hits).value

(* By UINT_MAX.                                                            *)
ByInt(narrow, wide) ==
    CASE Real("int") = 2 -> narrow [] Real("int") = 4 -> wide [] OTHER -> "error"
-----------------------------------------------------------------------------
(* The system, the compiler and the processor *)

Os == FirstOf(<<
    Row("freestanding", {{"LZO_OS_FREESTANDING"}}),
    Row("embedded", {{"LZO_OS_EMBEDDED"}, {"__IAR_SYSTEMS_ICC__"}}),
    Row("cygwin", {{"__CYGWIN__", "__GNUC__"}, {"__CYGWIN32__", "__GNUC__"}}),
    Row("emx", {{"__EMX__", "__GNUC__"}}),
    Row("beos", {{"__BEOS__"}}), Row("lynxos", {{"__Lynx__"}}),
    Row("os400", {{"__OS400__"}}), Row("qnx", {{"__QNX__"}}),
    Row("dos32", {{"__BORLANDC__ >= 0x0460", "__DPMI32__"}}),
    Row("dos16", {{"__BORLANDC__", "__DPMI16__"}}),
    Row("dos32", {{"__ZTC__", "DOS386"}}),
    Row(ByInt("os216", "os2"), {{"__OS2__"}, {"__OS2V2__"}}),
    Row("win64", {{"__WIN64__"}, {"_WIN64"}, {"WIN64"}}),
    Row("win32", {{"__WIN32__"}, {"_WIN32"}, {"WIN32"}, {"__WINDOWS_386__"}, {"__MWERKS__", "__INTEL__"}}),
    Row(ByInt("win16", "win32"), {{"__WINDOWS__"}, {"_WINDOWS"}, {"_Windows"}}),
    Row(ByInt("dos16", "dos32"),
        {{"__DOS__"}, {"__MSDOS__"}, {"_MSDOS"}, {"MSDOS"}, {"__PACIFIC__", "DOS"}}),
    When(Defined("__WATCOMC__") /\ Defined("__NT__") /\ Real("int") = 2, "dos16"),
    Row("win32", {{"__WATCOMC__", "__NT__", "__WATCOMC__ < 1100"}}),
    Row("posix", {{"__WATCOMC__", "__linux__"}, {"__WATCOMC__", "__LINUX__"}}),
    Row("error", {{"__WATCOMC__"}}),
    Row("palmos", {{"__palmos__"}}), Row("tos", {{"__TOS__"}, {"__atarist__"}}),
    When(Defined("macintosh") /\ ~OneOf({"__arm__", "__i386__", "__ppc__", "__x64_64__"}), "macclassic"),
    Row("vms", {{"__VMS"}}),
    Row("console", {{"__mips__", "__R5900__"}, {"__MIPS_PSX2__"}, {"__mips__", "__psp__"}})>>, "posix")

SystemOf16 == os \in {"dos16", "os216", "win16"}
SystemOf32 == os \in {"dos32", "os2", "win32", "win64"}

Cc == FirstOf(<<
    Row("cilly", {{"CIL", "_GNUCC", "__GNUC__"}}),
    Row("pathscale", {{"__PATHSCALE__", "__PATHCC_PATCHLEVEL__"}}),
    Row("intelc", {{"__INTEL_COMPILER"}}), Row("pellesc", {{"__POCC__", "_WIN32"}}),
    Row("armcc_gnuc", {{"__ARMCC_VERSION", "__GNUC__", "__GNUC_MINOR__", "__VERSION__"}}),
    Row("clang", {{"__clang__", "__c2__", "__c2_version__", "_MSC_VER"},
                  {"__clang__", "__llvm__", "__VERSION__"}}),
    Row("llvm", {{"__llvm__", "__GNUC__", "__GNUC_MINOR__", "__VERSION__"}}),
    Row("ack", {{"__ACK__", "_ACK"}}), Row("armcc", {{"__ARMCC_VERSION"}}),
    Row("aztecc", {{"__AZTEC_C__"}}), Row("codegear", {{"__CODEGEARC__"}}),
    Row("borlandc", {{"__BORLANDC__"}}), Row("dmc", {{"__DMC__", "__SC__"}}),
    Row("decc", {{"__DECC"}}),
    Row("ghs", {{"__ghs", "__GHS_VERSION_NUMBER"}, {"__ghs__", "__GHS_VERSION_NUMBER"}}),
    Row("highc", {{"__HIGHC__"}}), Row("hpacc", {{"__HP_aCC"}}),
    Row("iarc", {{"__IAR_SYSTEMS_ICC__"}}), Row("ibmc", {{"__IBMC__"}, {"__IBMCPP__"}}),
    Row("keilc", {{"__KEIL__", "__C166__"}}),
    Row("lccwin32", {{"__LCC__", "_WIN32", "__LCCOPTIMLEVEL"}}), Row("lcc", {{"__LCC__"}}),
    Row("mwerks", {{"__MWERKS__"}}), Row("ndpc", {{"__NDPC__", "__i386"}, {"__NDPX__", "__i386"}}),
    Row("pacificc", {{"__PACIFIC__"}}),
    Row("pgi", {{"__PGI", "__PGIC__", "__PGIC_MINOR__"}, {"__PGI", "__linux__"}, {"__PGI", "__WIN32__"}}),
    Row("purec", {{"__PUREC__", "__TOS__"}}), Row("symantecc", {{"__SC__", "__ZTC__"}}),
    Row("sunproc", {{"__SUNPRO_C"}, {"__SUNPRO_CC"}}), Row("tinyc", {{"__TINYC__"}}),
    Row("topspeedc", {{"__TSC__"}}), Row("watcomc", {{"__WATCOMC__"}}),
    Row("turboc", {{"__TURBOC__"}}), Row("zortechc", {{"__ZTC__"}}),
    Row("gnuc", {{"__GNUC__", "__VERSION__"}}), Row("msc", {{"_MSC_VER"}})>>, "unknown")
Gnuc(version) == cc = "gnuc" /\ Defined(version)

(* Some macros only count if ints have 16 bits, or with the IAR compiler.  *)
Narrow(value, macro) == When(Real("int") = 2 /\ Defined(macro), value)
Iar(value, macro) == Row(value, {{"__IAR_SYSTEMS_ICC__", macro}})
Arch == FirstOf(<<
    When(SystemOf16, "i086"),
    Row("arm64", {{"__aarch64__"}, {"_M_ARM64"}}),
    Row("alpha", {{"__alpha__"}, {"__alpha"}, {"_M_ALPHA"}}),
    Row("amd64", {{"__amd64__"}, {"__x86_64__"}, {"_M_AMD64"}}),
    Row("arm", {{"__arm__"}, {"_M_ARM"}}), Iar("arm", "__ICCARM__"),
    Narrow("avr", "__AVR__"), Row("avr32", {{"__avr32__"}, {"__AVR32__"}}),
    Row("blackfin", {{"__bfin__"}}), Narrow("c166", "__C166__"), Row("cris", {{"__cris__"}}),
    Iar("ez80", "__ICCEZ80__"),
    Row("h8300", {{"__H8300__"}, {"__H8300H__"}, {"__H8300S__"}, {"__H8300SX__"}}),
    Row("hppa", {{"__hppa__"}, {"__hppa"}}),
    Row("i386", {{"__386__"}, {"__i386__"}, {"__i386"}, {"_M_IX86"}, {"_M_I386"}}),
    When(cc = "zortechc" /\ Defined("__I86__"), "i386"),
    When(os = "dos32" /\ cc = "highc" /\ Defined("_I386"), "i386"),
    Row("ia64", {{"__ia64__"}, {"__ia64"}, {"_M_IA64"}}),
    Narrow("m16c", "__m32c__"), Iar("m16c", "__ICCM16C__"), Row("m32r", {{"__m32r__"}}),
    When(os = "tos", "m68k"),
    Row("m68k", {{"__m68k__"}, {"__m68000__"}, {"__mc68000__"}, {"__mc68020__"}, {"_M_M68K"}}),
    Narrow("mcs251", "__C251__"), Narrow("mcs51", "__C51__"), Iar("mcs51", "__ICC8051__"),
    Row("mips", {{"__mips__"}, {"__mips"}, {"_MIPS_ARCH"}, {"_M_MRX000"}}),
    Narrow("msp430", "__MSP430__"), Iar("msp430", "__ICC430__"),
    Row("powerpc",
        {{"__powerpc__"}, {"__powerpc"}, {"__ppc__"}, {"__PPC__"}, {"_M_PPC"}, {"_ARCH_PPC"}, {"_ARCH_PWR"},
         {"__powerpc64__"}, {"__powerpc64"}, {"__ppc64__"}, {"__PPC64__"},
         {"__powerpc64le__"}, {"__powerpc64le"}, {"__ppc64le__"}, {"__PPC64LE__"}}),
    Row("riscv", {{"__riscv"}}), Row("s390", {{"__s390__"}, {"__s390"}, {"__s390x__"}, {"__s390x"}}),
    Row("sh", {{"__sh__"}, {"_M_SH"}}), Row("sparc", {{"__sparc__"}, {"__sparc"}, {"__sparcv8"}}),
    Row("spu", {{"__SPU__"}}), Narrow("z80", "__z80")>>, "unknown")
Thumb2 == /\ arch = "arm" /\ OneOf({"__thumb__", "__thumb", "_M_THUMB"})
          /\ OneOf({"__thumb2__", "__TARGET_ARCH_THUMB >= 4", "_M_THUMB >= 7"})

(* Configurations that are told to be unexpected.                          *)
LimitsAre(int, long) == Real("int") = int /\ Real("long") = long
Unexpected ==
    \/ os = "error"
    \/ SystemOf16 /\ ~LimitsAre(2, 4)
    \/ SystemOf32 /\ (~LimitsAre(4, 4) \/ arch = "unknown")
    \/ arch = "i086" /\ ~LimitsAre(2, 4)
    \/ arch = "i386" /\ ~LimitsAre(IF Defined("__i386_int16__") THEN 2 ELSE 4, 4)
-----------------------------------------------------------------------------
(* The sizes of types: LZO_SIZEOF_..., 0 if it is not defined *)

(* By the user or, under other names, by the compiler itself.              *)
NamedByCompiler == {"short", "int", "long", "long long", "void *", "size_t", "ptrdiff_t"}
Said(type) ==
    IF type \in DOMAIN target.config THEN target.config[type]
    ELSE IF Defined("__SIZEOF_...__") /\ type \in NamedByCompiler THEN Real(type)
    ELSE 0
FirstSaid(type, otherwise) == IF Said(type) # 0 THEN Said(type) ELSE otherwise
(* By its greatest value.                                                  *)
ByLimit(type, sizes) == IF Real(type) \in sizes THEN Real(type) ELSE 0

SizeofShort == FirstSaid("short", ByLimit("short", {1, 2, 4, 8, 16}))
SizeofInt == FirstSaid("int", ByLimit("int", {1, 2, 4, 8, 16}))
SizeofLong == FirstSaid("long", ByLimit("long", {1, 2, 4, 5, 8, 16}))

(* The type that is longer than long, if long has not got eight bytes.     *)
LL(n) == [type |-> "long long", size |-> n]
Int64Type == [type |-> "__int64", size |-> 8]
NoType == [type |-> "none", size |-> 0]
I386By(compilers) == arch = "i386" /\ cc \in compilers
Windows == os = "win32" \/ Defined("_WIN32")
Windows64 == os = "win64" \/ Defined("_WIN64")
Vms64 == OneOf({"__vms", "__VMS"}) /\ Defined("__INITIAL_POINTER_SIZE == 64")
LongLongLimit == Gnuc("__GNUC__ >= 3.3") /\ {"__LONG_MAX__", "__LONG_LONG_MAX__"} \subseteq target.defines
Longer ==
    IF Said("long long") # 0 \/ Said("__int64") # 0 \/ SizeofLong \notin 1..7 THEN NoType
    ELSE FirstOf(<<
        When(LongLongLimit /\ Real("long") = Real("long long"), LL(SizeofLong)),
        When(LongLongLimit /\ Real("long long") = 4, LL(4)),
        When(arch = "i086" /\ cc = "dmc", NoType),
        When(cc \in {"cilly", "armcc_gnuc", "clang", "gnuc", "llvm", "pathscale"}, LL(8)),
        When((Windows \/ Windows64) /\ cc = "msc" /\ Defined("_MSC_VER >= 1400"), LL(8)),
        When(Windows64, Int64Type),
        When(I386By({"dmc"}), LL(8)),
        When(I386By({"symantecc"}) /\ Defined("__SC__ >= 0x700"), LL(8)),
        When(I386By({"intelc"}) /\ Defined("__linux__"), LL(8)),
        When(I386By({"mwerks", "pellesc", "pgi", "sunproc"}), LL(8)),
        When(I386By({"intelc", "msc"}), Int64Type),
        When(Windows /\ cc = "msc", Int64Type),
        When(I386By({"borlandc"}) /\ Defined("__BORLANDC__ >= 0x0520"), Int64Type),
        When(I386By({"watcomc"}) /\ Defined("__WATCOMC__ >= 1100"), Int64Type),
        When(cc = "ghs" /\ Defined("__LLONG_BIT == 64"), LL(8)),
        When(cc = "watcomc" /\ Defined("_INTEGRAL_MAX_BITS == 64"), Int64Type),
        When(Defined("__OS400__") /\ Defined("__LLP64_IFC__"), LL(8)),
        When(Vms64, LL(8)),
        Row(LL(8), {{"__STDC_VERSION__ >= 199901L"}})>>, NoType)
SizeOfLonger(type) == FirstSaid(type, IF Longer.type = type THEN Longer.size ELSE 0)
LongLong ==
    IF OneOf({"LZO_CFG_NO_LONG_LONG", "__NO_LONG_LONG", "_NO_LONGLONG"})
       \/ (Defined("__cplusplus") /\ cc = "gnuc" /\ ~Defined("__GNUC__ >= 2.8"))
    THEN 0
    ELSE SizeOfLonger("long long")
Int64 == SizeOfLonger("__int64")

H8300Wide == OneOf({"__H8300H__", "__H8300S__", "__H8300SX__"})
PlayStation2 == SizeofLong = 8 /\ ({"__mips__", "__R5900__"} \subseteq target.defines \/ Defined("__MIPS_PSX2__"))
Os400 == Defined("__OS400__")

(* A row of LZO_SIZEOF_VOID_P: the size, and whether what is asserted in   *)
(* passing is true.                                                        *)
Pointer(n, asserted) == [size |-> n, asserted |-> asserted]
OwnWordSize == FirstOf(<<
    When(arch \in {"alpha", "amd64", "arm64", "ia64"}, 8),
    When(arch = "h8300", IF H8300Wide THEN 4 ELSE 2),
    When(arch = "spu", 4),
    When(PlayStation2 \/ Os400 \/ Vms64, 8)>>, 0)
Ilp32 == {"__ILP32__", "__ILP32", "_ILP32"}
Ilp64 == {"__ILP64__", "__ILP64", "_ILP64"}
Llp64 == {"__LLP64__", "__LLP64", "_LLP64", "_WIN64"}
Lp64 == {"__LP64__", "__LP64", "_LP64"}
VoidPByAbi == FirstOf(<<
    When(OneOf(Ilp32), Pointer(4, LimitsAre(4, 4))),
    When(OneOf(Ilp64), Pointer(8, LimitsAre(8, 8))),
    When(OneOf(Llp64), Pointer(8, Real("long") = 4)),
    When(OneOf(Lp64), Pointer(8, Real("long") = 8)),
    When(arch = "h8300", Pointer(IF H8300Wide /\ ~Defined("__NORMAL_MODE__") THEN 4 ELSE 2, TRUE)),
    When(arch = "spu" \/ PlayStation2, Pointer(4, TRUE)),
    When(Os400, Pointer(IF Defined("__LLP64_IFC__") THEN 8 ELSE 16, TRUE)),
    When(Vms64, Pointer(8, TRUE))>>, Pointer(SizeofLong, TRUE))
VoidP == FirstSaid("void *", VoidPByAbi.size)
(* What size_t and ptrdiff_t are then, if not as long as a pointer.         *)
SizeByAbi ==
    IF Said("void *") # 0 \/ OneOf(Ilp32 \cup Ilp64 \cup Llp64 \cup Lp64) THEN 0
    ELSE FirstOf(<<
        When(arch = "h8300",
             IF cc = "gnuc" /\ ~Defined("__GNUC__ >= 4") /\ SizeofInt = 4 THEN SizeofInt ELSE 0),
        When(arch = "spu" \/ PlayStation2, 0),
        When(Os400 \/ Vms64, SizeofLong)>>, 0)
SizeT == IF SizeByAbi # 0 THEN SizeByAbi ELSE FirstSaid("size_t", VoidP)
PtrdiffT == IF SizeByAbi # 0 THEN SizeByAbi ELSE FirstSaid("ptrdiff_t", SizeT)
WordSize == IF OwnWordSize # 0 THEN OwnWordSize ELSE VoidP
Measured ==
    [short |-> SizeofShort, int |-> SizeofInt, long |-> SizeofLong, char |-> 1, none |-> 0] @@
    "long long" :> LongLong @@ "__int64" :> Int64 @@ "__int16" :> Said("__int16") @@
    "__int32" :> Said("__int32") @@ "mode HI" :> 2 @@ "mode SI" :> 4 @@
    "void *" :> VoidP @@ "char *" :> VoidP @@ "size_t" :> SizeT @@ "ptrdiff_t" :> PtrdiffT
-----------------------------------------------------------------------------
(* The byte order: LZO_ABI_LITTLE_ENDIAN and LZO_ABI_BIG_ENDIAN *)

Alone(macro, other) == Defined(macro) /\ ~Defined(other)
LinuxOnly == os = "posix" /\ OneOf({"__linux__", "__linux", "__LINUX__"})
             /\ ~OneOf({"_AIX", "__AIX__", "__aix__", "__FreeBSD__", "__hpux__", "__hpux",
                        "__INTERIX", "__IRIX__", "__irix__"})
Told == FirstOf(<<
    When(Defined("LZO_ABI_NEUTRAL_ENDIAN"), "unknown"),
    When(Defined("LZO_ABI_BIG_ENDIAN") /\ Defined("LZO_ABI_LITTLE_ENDIAN"), "both"),
    When(Defined("LZO_ABI_BIG_ENDIAN"), "big"),
    When(Defined("LZO_ABI_LITTLE_ENDIAN"), "little"),
    When(arch = "ia64" /\ (LinuxOnly \/ os = "win64"), "little"),
    When(arch \in {"alpha", "amd64", "blackfin", "cris", "i086", "i386", "msp430", "riscv"}, "little"),
    When(arch \in {"avr32", "m68k", "s390", "spu"}, "big"),
    Iar(IF Defined("__LITTLE_ENDIAN__ == 1") THEN "little" ELSE "big", "__LITTLE_ENDIAN__"),
    When(Alone("__BIG_ENDIAN__", "__LITTLE_ENDIAN__"), "big"),
    When(Alone("__LITTLE_ENDIAN__", "__BIG_ENDIAN__"), "little"),
    When(arch = "arm" /\ (Defined("__ARM_BIG_ENDIAN") \/ Alone("__ARMEB__", "__ARMEL__")), "big"),
    When(arch = "arm" /\ Alone("__ARMEL__", "__ARMEB__"), "little"),
    When(arch = "arm" /\ Defined("_MSC_VER") /\ Defined("_WIN32"), "little"),
    When(arch = "arm" /\ cc = "armcc", IF Defined("__BIG_ENDIAN") THEN "both" ELSE "little"),
    When(arch = "arm64" /\ (Defined("__ARM_BIG_ENDIAN") \/ Alone("__AARCH64EB__", "__AARCH64EL__")), "big"),
    When(arch = "arm64" /\ Alone("__AARCH64EL__", "__AARCH64EB__"), "little"),
    When(arch = "arm64" /\ Defined("_MSC_VER") /\ Defined("_WIN32"), "little"),
    When(arch = "mips" /\ Alone("__MIPSEB__", "__MIPSEL__"), "big"),
    When(arch = "mips" /\ Alone("__MIPSEL__", "__MIPSEB__"), "little")>>, "unknown")
-----------------------------------------------------------------------------
(* The types that are named for their width *)

(* Types of two and four bytes that gcc makes on demand.                   *)
Modes == cc \in {"clang", "llvm"} \/ Gnuc("__GNUC__ >= 2.95")
Int16e == FirstOf(<<
    When(size["long"] = 2, "long"), When(size["int"] = 2, "int"), When(size["short"] = 2, "short"),
    When(Modes /\ ~Defined("LZO_CFG_TYPE_NO_MODE_HI"), "mode HI"),
    When(Said("__int16") = 2, "__int16")>>, "none")
Int32e == FirstOf(<<
    When(size["long"] = 4, "long"), When(size["int"] = 4, "int"), When(size["short"] = 4, "short"),
    When(size["long long"] = 4, "long long"),
    When(Modes /\ Real("int") > 4 /\ ~Defined("LZO_CFG_TYPE_NO_MODE_SI"), "mode SI"),
    When(Said("__int32") = 4, "__int32")>>, "none")
Borland64 == cc = "borlandc" /\ size["__int64"] = 8
Int64e == FirstOf(<<
    When(size["int"] = 8 /\ size["int"] < size["long"], "int"),
    When(size["long"] = 8 /\ ~Borland64, "long"),
    When(size["long long"] = 8 /\ ~Borland64, "long long"),
    When(size["__int64"] = 8, "__int64")>>, "none")
Int32l == FirstOf(<<
    When(Int32e # "none", Int32e),
    When(size["int"] >= 4 /\ size["int"] < size["long"], "int"), When(size["long"] >= 4, "long")>>, "none")
Int64l == Int64e
Int32f == IF size["size_t"] >= 8 THEN Int64l ELSE Int32l

IntptrIsPointer == os = "os400" /\ size["void *"] = 16
Intptr == FirstOf(<<
    When(IntptrIsPointer, "char *"),
    When(cc = "msc" /\ Defined("_MSC_VER >= 1300") /\ size["void *"] = 4 /\ size["int"] = 4, "int"),
    When(size["short"] = size["void *"] /\ size["int"] > size["void *"], "short"),
    When(size["int"] >= size["void *"] /\ size["int"] < size["long"], "int"),
    When(size["long"] >= size["void *"], "long"),
    When(size[Int64l] >= size["void *"], Int64l)>>, "none")
Word == FirstOf(<<
    When(WordSize = size[Intptr] /\ ~IntptrIsPointer, Intptr),
    When(WordSize = size["long"], "long"), When(WordSize = size["int"], "int"),
    When(WordSize = size["short"], "short"),
    When(WordSize = 1, "char"), When(WordSize = size[Int64l], Int64l)>>, "none")

(* lzoconf.h: the names of the data models, and lzo_uint.                  *)
Abi ==
    LET model == <<size["int"], size["long"], size["void *"]>>
    IN  FirstOf(<<
        When(model = <<2, 4, 4>>, "lp32"), When(model = <<4, 4, 4>>, "ilp32"),
        When(model = <<4, 4, 8>> /\ size["size_t"] = 8, "llp64"),
        When(model = <<4, 8, 8>>, "lp64"), When(model = <<8, 8, 8>>, "ilp64"),
        When(model = <<4, 8, 4>>, "ip32l64")>>, "unknown")
LzoInt == FirstOf(<<
    When(Abi = "llp64", IF os = "win64" THEN "__int64" ELSE "long long"),
    When(Abi = "ip32l64", "int"),
    When(Real("long") >= 4, "long")>>, "none")
SizeofLzoInt == IF Abi = "llp64" THEN 8 ELSE size[LzoInt]
-----------------------------------------------------------------------------
(* LZO_COMPILE_TIME_ASSERT_HEADER and #error: what is found wrong when     *)
(* this is compiled.                                                       *)
SizesRight ==
    /\ \A type \in {"short", "int", "long", "void *", "size_t", "ptrdiff_t"} :
          size[type] = Real(type) /\ size[type] # 0
    /\ Said("void *") = 0 => VoidPByAbi.asserted
(* A type that is chosen is as long as it is taken to be.                  *)
IsOf(type, sizes) == type # "none" /\ Real(type) \in sizes
WidthsRight ==
    /\ Int16e # "none" => IsOf(Int16e, {2})
    /\ Int32e # "none" => IsOf(Int32e, {4})
    /\ Int64e # "none" => IsOf(Int64e, {8})
    /\ Real(Int32l) >= 4 /\ Real(Int32l) = size[Int32l]
    /\ Real(Int32f) >= 4 /\ Real(Int32f) = size[Int32f]
    /\ Intptr # "none" /\ Real(Intptr) >= Real("void *")
    /\ \/ Word # "none" /\ Real(Word) = WordSize
       \/ Word = "none" /\ arch = "spu" /\ cc = "gnuc"
Xint == IF SizeofLzoInt >= 4 THEN LzoInt ELSE Int32e
Supported ==
    /\ ~IntptrIsPointer
    /\ LzoInt # "none" /\ Real(LzoInt) = SizeofLzoInt
    /\ Int32e # "none" /\ Real(Xint) >= Real(LzoInt) /\ Real(Xint) >= Real(Int32e)
    /\ size["int"] >= 4 /\ Real("int") >= 4 /\ Real(LzoInt) >= 4
    /\ Real(LzoInt) = Real("size_t") /\ Real(LzoInt) = Real("ptrdiff_t")
    /\ Real(LzoInt) = Real(Intptr) /\ Real("void *") = Real(Intptr)
Compiles ==
    ~Unexpected /\ Told # "both" /\ SizesRight /\ WidthsRight /\ Supported

(* What lzo_init tells, and what the library compares with it.             *)
Callback == 4 * Real("void *") + 2 * Real(Xint)
Sizes == <<Real("short"), Real("int"), Real("long"), Real(Int32e), Real(LzoInt),
           Real("void *"), Real("void *"), Real("void *"), Callback>>
=============================================================================
