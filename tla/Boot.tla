-------------------------------- MODULE Boot --------------------------------
(***************************************************************************)
(* How dcload gets to its place in memory and stays there: loader.s, which *)
(* the boot ROM runs from the CD, the start of dcload (dcload-crt0.s), and *)
(* what dcload's main, a program or an exception lead to afterwards; and   *)
(* the processor's caches, which may hold on to what a place held before,  *)
(* or to what was to be written there.                                     *)
(*                                                                         *)
(* An address is an offset from 0x8c004000.                                *)
(***************************************************************************)
EXTENDS Integers, Sequences

CONSTANTS Images,       \* sizes in bytes: [data, end, exception]
          Observed      \* the addresses that are looked at

ExceptionAt == 46080    \* 0x8c00f400
StackTop == 46080       \* _stack
LoaderAt == 49152       \* 0x8c010000, where the boot ROM loads and programs are loaded
BufferAt == 24428       \* 0x8c009f6c
BufferSize == 16384 + 16384 \div 64 + 16 + 3
StackLeast == 800

(* What the linker sees to: the image ends in whole words, bss behind what *)
(* was compiled into it, and leaves room for the stack.  It may reach into *)
(* the buffer: nothing keeps it from that.                                 *)
WholeWords(size) == size \in Nat \ {0} /\ size % 4 = 0
Linked(i) == WholeWords(i.data) /\ WholeWords(i.end) /\ i.data <= i.end
ASSUME BootAssumption ==
    /\ \A i \in Images :
        /\ Linked(i)
        /\ StackTop - i.end > StackLeast
        /\ WholeWords(i.exception) /\ i.exception <= LoaderAt - ExceptionAt
    /\ Observed \subseteq Nat

VARIABLES
    image,      \* the sizes of this build
    part,       \* what runs
    program,    \* the program loaded last
    memory,     \* what is at each address: of which file, and which byte of it
    cache,      \* "off", "through" (writes go to memory at once) or "back"
    dirty,      \* writes that are in the operand cache only: areas
    fetched     \* code in the instruction cache: areas

bootVars == <<image, part, program, memory, cache, dirty, fetched>>

Area(from, size, what) == [from |-> from, to |-> from + size, what |-> what]
ProgramSize == 4096
CodeSize == 2048        \* the part of a program that it does not write to

Buffer == Area(BufferAt, BufferSize, "block")

(* What an area brings to an address in it.                                *)
Covers(w, a) == w.from <= a /\ a < w.to
Content(w, a) == <<w.what, IF w.what = "zero" THEN 0 ELSE a - w.from>>

Over(old, w) == [a \in Observed |-> IF Covers(w, a) THEN Content(w, a) ELSE old[a]]
Wrote(w) ==
    /\ memory' = IF cache = "back" THEN memory ELSE Over(memory, w)
    /\ dirty' = IF cache = "back" THEN Append(dirty, w) ELSE dirty

(* The code that a part consists of, where it was linked to.               *)
Code(p) ==
    CASE p \in {"start", "clear", "copyException", "copyDcload"} ->
            Area(LoaderAt, CodeSize, "loader")
      [] p \in {"crt0", "bss", "main", "loaded"} -> Area(0, image.data, "dcload")
      [] p = "handler" -> Area(ExceptionAt, image.exception, "exception")
      [] p = "entry" -> Area(LoaderAt, ProgramSize, program)
      [] p = "program" -> Area(LoaderAt, CodeSize, program)

(* The cache control register is written, from uncached memory: both       *)
(* caches are emptied, with nothing of them written back.                  *)
SetCacheOnly(mode) == cache' = mode /\ UNCHANGED <<dirty, fetched>>     \* mutant: not emptied
SetCache(mode) == cache' = mode /\ dirty' = <<>> /\ fetched' = {}

(* Code that runs while the caches are on is in one of them.               *)
CacheStays ==
    /\ fetched' = fetched \cup (IF cache = "off" THEN {} ELSE {Code(part)})
    /\ UNCHANGED cache

Runs(now, then) == part = now /\ part' = then /\ UNCHANGED image
-----------------------------------------------------------------------------
(* The loader: words are stored until their count is down to 0.            *)
DisableCache == Runs("start", "clear") /\ SetCache("off") /\ UNCHANGED <<memory, program>>

ClearedWords == (LoaderAt - 0) \div 4
ClearArea ==
    /\ Runs("clear", "copyException") /\ CacheStays
    /\ Wrote(Area(0, 4 * ClearedWords, "zero"))
    /\ UNCHANGED program

CopyException ==
    /\ Runs("copyException", "copyDcload") /\ CacheStays
    /\ Wrote(Area(ExceptionAt, 4 * (image.exception \div 4), "exception"))
    /\ UNCHANGED program

CopyDcload ==
    /\ Runs("copyDcload", "crt0") /\ CacheStays
    /\ Wrote(Area(0, 4 * (image.data \div 4), "dcload"))
    /\ UNCHANGED program

(* crt0: the caches are on, and write through, from here on.  Zeroes are   *)
(* stored from _edata on until the next one would be behind _end, so the   *)
(* word at _end is one of them.                                            *)
SetupCache == Runs("crt0", "bss") /\ SetCache("through") /\ UNCHANGED <<memory, program>>
BssFromStart == 0       \* mutant: everything is cleared
BssFrom == image.data
ClearBss ==
    /\ Runs("bss", "main") /\ CacheStays
    /\ Wrote(Area(BssFrom, image.end + 4 - BssFrom, "zero"))
    /\ UNCHANGED program

(* main: a compressed block arrives in the buffer, a program is loaded     *)
(* behind dcload, and is started with the caches off.                      *)
ReceiveBlock ==
    /\ Runs("main", "main") /\ CacheStays
    /\ Wrote(Buffer)
    /\ UNCHANGED program
LoadProgram ==
    /\ \E p \in {"main", "loaded"} : Runs(p, "loaded")
    /\ CacheStays
    /\ \E name \in {"first", "second"} :
          program' = name /\ Wrote(Area(LoaderAt, ProgramSize, name))
Execute ==
    /\ Runs("loaded", "entry") /\ SetCache("off")
    /\ UNCHANGED <<memory, program>>

(* A program, which uses the caches as it likes and writes to its data,    *)
(* until it or its exception goes back to the start of dcload.             *)
ProgramStarts ==
    /\ Runs("entry", "program")
    /\ \E mode \in {"through", "back"} : SetCache(mode)
    /\ UNCHANGED <<memory, program>>
ProgramWrites ==
    /\ Runs("program", "program") /\ CacheStays
    /\ dirty = <<>>
    /\ Wrote(Area(LoaderAt + CodeSize, ProgramSize - CodeSize, "data"))
    /\ UNCHANGED program
ProgramOver == Runs("program", "crt0") /\ CacheStays /\ UNCHANGED <<memory, program, dirty>>
ProgramFault == Runs("program", "handler") /\ CacheStays /\ UNCHANGED <<memory, program, dirty>>
HandlerOver == Runs("handler", "crt0") /\ CacheStays /\ UNCHANGED <<memory, program, dirty>>

(* A line of the operand cache is needed for something else.               *)
WriteBack ==
    /\ cache # "off" /\ dirty # <<>>
    /\ memory' = Over(memory, Head(dirty))
    /\ dirty' = Tail(dirty)
    /\ UNCHANGED <<image, part, program, cache, fetched>>

(* The boot ROM has run the bootstrap of the CD, and loaded the loader.    *)
Booted(i) ==
    /\ image = i
    /\ part = "start" /\ program = "none"
    /\ memory = Over([a \in Observed |-> <<"nothing", 0>>], Area(LoaderAt, ProgramSize, "loader"))
    /\ cache \in {"off", "through", "back"} /\ dirty = <<>>
    /\ fetched = {Area(16384, 32768, "bootstrap")}
BootInit == \E i \in Images : Booted(i)

BootNext ==
    \/ DisableCache \/ ClearArea \/ CopyException \/ CopyDcload
    \/ SetupCache \/ ClearBss
    \/ ReceiveBlock \/ LoadProgram \/ Execute
    \/ ProgramStarts \/ ProgramWrites \/ ProgramOver \/ ProgramFault \/ HandlerOver
    \/ WriteBack

BootSpec == BootInit /\ [][BootNext]_bootVars
-----------------------------------------------------------------------------
(* An area is there, but for what of it a block may have been written to.  *)
(* That is nothing, unless the image reaches into the buffer.              *)
There(w) ==
    \A a \in Observed : Covers(w, a) /\ ~Covers(Buffer, a) => memory[a] = Content(w, a)

(* Whenever main runs, for the first time or again, dcload's code and data *)
(* are where they were linked to, its uninitialized data is zero, and the  *)
(* exception handler is where the vectors are: all of that, if the image   *)
(* ends before the buffer, and else what is outside the buffer.            *)
LaidOut ==
    part \in {"main", "loaded", "entry", "program"} =>
        /\ There(Area(0, image.data, "dcload"))
        /\ There(Area(image.data, image.end - image.data, "zero"))
        /\ There(Area(ExceptionAt, image.exception, "exception"))

(* What the processor fetches is the code that was to run, from memory or  *)
(* from its cache: nothing is gone that it was not done with, no write is  *)
(* still, or for ever, in a cache, and neither an earlier program nor the  *)
(* CD's bootstrap is run in its place.                                     *)
RunsWhatWasWritten ==
    part # "off" =>
    LET code == Code(part)
    IN  /\ There(code)
        /\ cache # "off" => \A f \in fetched :
              f.to <= code.from \/ code.to <= f.from \/ <<f.from, f.what>> = <<code.from, code.what>>
=============================================================================
