# A formal model of dcload-serial

dcload-serial lets a PC load, run and serve programs on a Sega Dreamcast over
one serial cable. It is two programs that share a protocol nobody wrote down:
`dc-tool` on the PC ("the host", `host-src/tool/`) and `dcload` on the
Dreamcast ("the target", `target-src/dcload/`). Each side's half of the
protocol is straight-line C: write some bytes, wait for some bytes, with no
timeout and no resynchronisation. If the two halves ever disagree about what
comes next, by one byte, both wait for ever. This project states that they
agree, checks it with TLC, and proves the central part with TLAPS.

Paths below are relative to `src/` of the repository, except that
`dc-tool.c` is `host-src/tool/dc-tool.c`, `dcload.c` is
`target-src/dcload/dcload.c`, and "host `syscalls.c`" and "target `syscalls.c`"
are the two files of that name.

## 1. Inventory

| part | where | state | operations | talks to |
|---|---|---|---|---|
| block transfer, host to target | `send_data` (dc-tool.c), `load_data_block_general` (dcload.c) | bytes left, source and target pointers, the block in hand, both compression buffers | header, echo, payload and sum, answer, resend | each other, over both directions of the line |
| block transfer, target to host | `send_data_block_uncompressed`, `send_data_block_compressed` (dcload.c), `recv_data` (dc-tool.c) | the same, and whether there is work memory for the compressor | one block, or chunks repeated until the answer is 'G' | each other |
| console | the 21 calls of target `syscalls.c` and `cdfs_syscalls.c`, the handlers of host `syscalls.c`, `do_console` | the call in progress on each side, gdb's socket | number and arguments, blocks, the call itself, results | transfers; the host's operating system |
| open directories | `opendirs` in host `syscalls.c` | which entry holds which directory | opendir, readdir, rewinddir, closedir | console; the operating system's directory positions |
| sessions | `main`, `upload`, `download`, `execute`, `change_speed`, `do_dumbterm` (dc-tool.c); `main` (dcload.c); `go.s`, `dcload-crt0.s`, `cdfs_redir.s` | speed of each port, console flag, redirected CD vector, who owns the screen, what is loaded | commands A, B, D to H, S, V; program start and end; repeated runs of dc-tool | all of the above |
| CD redirection | `cdfs_syscalls.c`, `cdfs_redir.s` | `gdStatus`, the saved vector | read sectors; the six GD-ROM calls that answer locally | console |
| serial drivers | `scif.c`; `open_serial`, `blread`, `serial_write` | divisor, registers and FIFO; speed and kept settings of the port | init, flush, get, put | everything |
| gdb server socket | `open_gdb_socket` (dc-tool.c), `dc_gdbpacket` | listening and connected socket | accept, send, recv | console, gdb |
| command line | `getopt` and `main` (dc-tool.c) | word, place in it; main's variables | one option a turn | sessions |
| executables | `upload` (dc-tool.c), libelf or libbfd | – | which sections to send, where to start | sessions |
| compression | `minilzo.c`, `lzodefs.h` | dictionary, pending literals, both buffers | compress, decompress with and without tests, the library's test of itself | transfers, both `main`s |
| memory routines | `memcpy.S`, `memset.S`, `memmove.c`, `memcmp.c` | the memory they are given | one each | dcload |
| screen | `video.s`; `clear_lines`, `draw_progress` (dcload.c) | video registers and memory | set up, clear, draw | `main` of dcload, the exception handler |
| exception display | `exception.s`, `exception_code_to_string` (dcload.c) | the registers as they were | save, draw, return to dcload | screen, boot |
| boot | `loader.s`, `disable.s`, `dcload-crt0.s`, `dcload.x` | memory map, both caches | clear, copy, clear bss, jump | everything on the target |
| examples | `example-src` | – | test for dcload, start, end | console, boot |

What is hard about this code:

* **Framing.** Sizes, flags and results decide how many bytes follow, on both
  ends, in different source files, under conditional compilation on one side.
* **Waiting.** Each end blocks on the other in turn. The host's payload must not
  be sent before the target has entered its read loop (16 bytes of FIFO, no
  interrupt), and the only thing that holds it back is the echo of a size.
* **Repeats.** An answer other than 'G' makes the sender repeat, but what is
  repeated (a block or only its payload) differs from what the reader expects.
* **Numbers.** Totals are unsigned and are decreased by what arrived; loops end
  on exactly zero.
* **State that outlives a run.** dcload stays up while dc-tool comes and goes:
  its speed, its console flag, its CD vector and its idea of the screen must be
  right for the next session, after every path by which the last one may end.
* **Handles.** The target holds numbers of the host's table entries.
* **Loops by hand.** The compressor and the memory routines copy words for bytes,
  overlapping, to limits that are less than the end; the exception handler stores
  registers by means of registers.
* **Memory as it is.** Image, stack, handler, buffer and program share a memory map
  that is written down in several places, behind caches that are switched by hand.

`PROJECT.json` lists 40 hazards of these kinds, each at its line, with the
properties that cover it or the reason why none does.

## 2. The modules

```
Wire ──┬── SendData ──┬── MCSendData         Rpc ◄── Console ──┬── MCConsole
       │        │     └── SendDataProofs                        └── ConsoleProofs
       │        ▼ implements                 DirTable ──┬── MCDirTable
       │     Transfer                                   ├── DirTableProofs
       │        ▲ implements                            └── Routines (below)
       └── RecvData ──┬── MCRecvData         Serial ◄── Session ──┬── MCSession
                      └── RecvDataProofs                          │       │ MC only
                                                                  │  CommandLine
  Lzo ── LzoProofs                                                │       │
   │        ▼                                  SessionProofs ─────┘       │
  LzoSafe ─ LzoSafeProofs                                                 │
   │                                                                      │
  LzoTypes ─ LzoConfig ─┐                                                 ▼
  Exception ────────────┼──────────────────────────────────► Routines ── MCRoutines
  Memory ──┬────────────┤
  Boot ────┤            │
  Screen ──┼────────────┘
           └── MemoryProofs
```

**`Wire`** is what travels: each direction is a FIFO of items, an item being
what one call puts on the line (a byte, the four bytes of an unsigned, a
payload). A payload is known by its provenance (source positions
`from+1 .. from+len`, in `wire` bytes), not by its contents, so memory can be
checked byte by byte for where it came from. The compressor may turn n bytes
into any number up to the n + n/16 + 67 that `testmini.c` provides for
(`MostCompressed`); decompression inverts it, or, for a damaged payload, fails
or yields anything. `SubU` is subtraction of an unsigned int.

**`Transfer`** is the abstract transfer: memory fills from the front in blocks,
each byte from its own source position, and the transfer ends when all of it
has arrived.

**`SendData`** is `send_data` against `load_data_block_general`. `hpc` is where
`send_data` is (`header`: top of the loop; `echo`: inside `send_uint`; `ack`:
inside `blread` of the answer; `done`: returned), `tpc` where the target is
(`type`, `size`, `data`, `sum`, `done`). One action per blocking read, which
carries everything up to the next one:

| action | code |
|---|---|
| `HostHeader` | choose the size, compress into the host's buffer (449, 462), write type and size (456-472, 491-493) |
| `HostEcho` | the echo, then payload and sum (353-363, 474-482, 494-500) |
| `HostAck` | the answer: resend the payload, or next chunk (473, 483-505) |
| `TargetType`, `TargetSize` | dcload.c 239-243; `get_uint` echoes |
| `TargetData`, `TargetSum` | dcload.c 246-271: to memory or to `buffer`, sum dropped, answer |
| `Call` | both functions are called with the same size, again and again, on the same line |

Each end has a compression buffer of its own: what is sent is no longer than the
chunk it stands for, but the host compresses a chunk before it knows that. A host
whose buffer (`HostBuffer`) is too small for what comes of it is at `overrun`, and
nothing is said of it from there on. In the run `send` the buffer is as large as
testmini.c's; `send_buffer` has the one dc-tool allocates.

**`RecvData`** is the other direction, where the size is *not* echoed: the
target puts type, size, payload and sum on the line at once. `OneBlock` is the
test for work memory and for fewer than 19 bytes (`Small`).

**`Console`** has both halves of all 21 calls. Every half is a script of reads
and writes, read off the source, which what has been read so far may extend
(`utime`'s flag, `readdir`'s found, gdb's sizes); actions interpret the two
scripts against each other. A program reaches a call by a number of its own
(`ProgramNumber`), through dcload's jump table with its range check
(`SyscallTable`, `Dispatch`), and CD calls through the redirected vector
(`GdTable`, `GdDispatch`); those that answer from `gdStatus` are `TLocal`.
`Handler` is `do_console`'s switch, `Number` the numbers the target announces.
A block is one item and its answer here (transfers are the modules above).
`OpenGdbSocket`, `Accepted`, `GdbReads` and `Cleanup` are the life of gdb's
socket. **`Rpc`** is what the console promises: a call is carried out once, as
the call it is, with its arguments, and returns what came of it.

**`DirTable`** is `opendirs` with its handlers, one step each since the host
serves one call at a time, plus the program that holds the handles. Nothing that waits
reads or writes it, so `Routines` runs it beside the parts that run by themselves.

**`Serial`** has the speeds: which one the host's operating system is asked for
(`SupportedSpeed`), which one the target is told of (`ToldSpeed`, with -e and -E),
the divisor of `scif_init` and the speed it makes (`Divisor`, `Rate`), and when two
ends can read each other (`Meets`: within 5 per cent, half a bit in ten).

**`Session`** is the two `main`s. dc-tool is started again and again with any
command line of `Invocations`, which `MCSession` obtains from the words as they are
typed by way of `CommandLine`. What its `main` does for it and for the file it is
given is a sequence of parts (`From`, `After`: the speed, redirection, each section
of `ToUpload`, execute, download, the speed put back), and a file or a size that
cannot be used (`Unusable`) ends it where the code finds that out, after the speed
change and the redirection; `place` is the part it is at, and `HostScript` what it
writes and reads there. `TScript` is what dcload's `main` does for each command
byte. Every item carries the speed it was sent at, the target's being that of its
divisor. `OpenPort` and `FinishSerial` are the settings that are kept and put back.
`Program` is a program that runs: it calls the host if it finds dcload there
(`Wrapped`), ends, or faults, after which dcload's `main` starts over (`MainStarts`,
`SaveVector`, `ScreenAtStart`). `Boot` is the power switch.

**`Routines`** runs, one at a time, what neither waits nor is waited for:

* **`Lzo`**: `lzo1x_1_compress` block by block and probe by probe, with its
  dictionary, the literals it holds back (`ti`), its copies of 4 and 16 bytes, and
  how far it reads and writes (`reach`); then `lzo1x_decompress` on what came of
  it, one instruction of the stream a step, and on streams that this compressor
  does not make (`Foreign`). **`LzoSafe`** is `lzo1x_decompress_safe`: the same
  steps, each behind its tests in their order (`Guarded`, `Stopped`).
* **`LzoTypes`** is what `lzodefs.h` and `lzoconf.h` make of a compiler: system,
  compiler, processor, the sizes of types (`SizeofShort` to `PtrdiffT`), byte order
  (`Told`), and which type gets the name of which width. `minilzo.c` has that text
  once more, so **`LzoConfig`** has two instances of it, library and caller: a build
  is judged step by step (`Identify`, `NameProcessor`, `Measure`, `Compile`), then
  `__lzo_init_v2` and `_lzo_config_check`. `SafeSizes`, `Unaligned` and `BitScan` are
  what minilzo.c decides from it; `RunTest` and `TestBits` are the tests of the running
  machine, which reads in its own order (`Read`, `GetNe`) and may not read words
  from odd addresses at all (`Traps`).
* **`Memory`**: the four routines, one loop turn a step, with every access to
  memory and its width.
* **`Exception`**: `general_1`, `regdump` and what is drawn, with the registers
  that the handler itself overwrites on the way (`Overwrite`).
* **`Screen`**: `init_video` with its registers, `clrscr`, `draw_string`, and
  dcload's progress line over the one before, pixel by pixel.
* **`Boot`**: loader, crt0 and main on dcload's memory map: each part that runs writes
  its areas, and the state is what is then found at each address of `Observed` (in
  the run the edges of all areas; in the proofs any set of addresses), in memory, in the
  operand cache (`dirty`: written and not yet in memory) and in the instruction cache
  (`fetched`), while programs are loaded, started, and end or fault, one after another.
* **`CommandLine`**: dc-tool's `getopt`, call by call, and the loop of `main`.

The state-to-code correspondence of every definition, with line ranges, is
`map` in `PROJECT.json`. `MC*` modules only give the constants their values.

## 3. What is checked

Every property of a passing run has a mutant: an operator marked `mutant:` in
the module, a plausible bug at that place, with which TLC finds it violated.

| run | question | distinct states |
|---|---|---|
| `send` | do both ends of `send_data` stay in step, does the memory arrive, do both return? | 2 102 |
| `recv` | the same for the other direction, with and without work memory | 2 730 |
| `console` | do the two halves of every call agree; is it carried out once; does it return? | 104 422 |
| `session` | do the two mains agree on what comes next and on the speed; is dcload left ready? | 8 029 |
| `routines` | do the parts that run by themselves do what they are for, within their memory, and return; does the handle of a directory stay its own? | 54 292 |

The properties:

* `Aligned` (`SendData`, `RecvData`), `HalvesAgree` (`Console`), `MainsAgree`
  (`Session`): whatever is next on a line is what its reader is about to read,
  with the right size, field or speed. This is *the* property of a protocol
  without resynchronisation.
* `StoredPrefix`: the target area holds exactly the first bytes of the source,
  each in place; nothing beyond is written (in `RecvData` a part of `Bookkeeping`).
* `Bookkeeping`: the two counts agree to within a block, the unsigned total has
  not wrapped, and when the sender returns the receiver has returned too and
  the lines are empty. So the next transfer starts clean.
* `PayloadAwaited` (`SendData` only): a payload is on the line only when the
  target is in the loop that reads it.
* `TargetFits` (`SendData`): what the target receives fits its buffer, and what it
  stores fits the target area. `BlockFits` (`RecvData`): what the target's compressor
  makes of a chunk fits its buffer (it compresses 8192 bytes at a time into a buffer
  sized for 16384, so the worst case has room), and what the host stores fits its
  destination. That the host's own buffer holds what *it* makes of a chunk is
  `HostBufferFits`, which is violated: see `send_buffer` below.
* `TransferSpec`, `RpcSpec`: refinement of `Transfer` and `Rpc`.
* `HandleGood`, `NoEntryLost`, `ReadsInOrder`: the directory table.
* `LeftReady`: after dc-tool and the program have ended dcload listens at the speed
  the next dc-tool begins with, CD calls go where they go without dcload, and the
  lines are empty. `CallServed`: a program's call finds somebody to answer.
  `RunsAsAsked`: all sections loaded, console and CD redirection as asked for.
  `OwnScreen`: dcload draws on a screen it has set up. `PortPutBack`: which settings
  of the port a program's exit puts back. They are those that dc-tool found only if
  the initial speed was asked for. With any other, each opening after the first
  keeps settings of dc-tool's own (dc-tool.c:624), and the ones for the initial
  speed come back, although dc-tool never wanted them; also when the host does not
  know the speed and the initial one is used in its place, since dc-tool has tried
  it. (Without a console `finish_serial` is not called at all.)
* `Completes`, `CallReturns`, `MainEnds`, `Returns`: nobody waits or loops for ever.
* `Reproduces`: what `lzo1x_1_compress` makes of a block decompresses to it.
  `WithinBuffers`: both stay within the source, the room that `testmini.c` provides
  (`OUT_LEN`, n + n/16 + 64 + 3) and the target area, copies of words included. The
  buffers of the two programs are smaller, n + n/64 + 19: the target compresses at
  most half as much as its buffer is for, so its own is large enough; dc-tool's is
  the subject of `send_buffer`.
* `Judged`: whatever stream arrives, `lzo1x_decompress_safe` neither reads nor writes
  outside (its part `NothingOutside`); an intact one is accepted and gives its source,
  one that is cut off or does not fit is refused with the error it deserves.
* `ConfigJudged`: the test accepts a compilation just if its byte order, widths and
  bit scans are those of the machine and the caller agrees with it.
* `DoneAsDefined`: the memory routines do what C says of them, with aligned accesses
  only and none outside (`AccessesFit`).
* `ShownAsItWas`: each register is shown beside its name, with the value it had at the
  exception, and no text is drawn over another (`TextsApart`).
* `ShowsTheLast`: the picture is dcload's title and its last progress, and nothing else;
  every line of the picture is shown, interlaced or not (`EveryLineShown`).
* `LaidOut`: once dcload's `main` runs, its image, its bss and the handler are where
  they were linked to, and stay so whatever is received and loaded; of an image that
  reaches into the buffer, which nothing keeps it from, that holds outside the buffer.
  `RunsWhatWasWritten`: what the processor fetches is the code that was to run:
  no write is lost or still in a cache, and nothing older is fetched in its place;
  again but for code in the buffer, where a block may have been written over it.
* `OptionsUnderstood`: `main` understands what the user means, whichever way the
  options are written down.

### Bounds

* `send`, `recv`: chunk 3, sizes 0 to 8, so nothing, less than a chunk, exactly
  one, one more, two, two more; a chunk of one byte cannot be compressed, larger
  ones may come out at every size from one byte to the worst case, so both block
  types occur in every order. `Wrap` is 16: small enough that a total that is
  decreased too much becomes a large number, as in 32 bits. Transfers repeat
  without bound. For `recv` `Small` is 3, so sizes lie on both sides of it, and
  0 is left out (see `recv_empty`).
* `console`: sizes and lengths to 2, which separates none, one and a different
  one; the sizes of two names differ from each other and from gdb's. `flag`
  and `retval` have two values. Calls and sessions repeat without bound, in any
  order; since nothing but gdb's socket outlives a call, two calls in a row show
  every order. A write of no bytes is left out (`MinWrite = 1`, see
  `recv_empty`), and so is a read of no CD sectors.
* `session`: -x, -u and -d with -i, -q, -n and -p where they make a difference, at
  the initial speed, 115200, 230400 with -e, and one the port does not know; an
  executable with sections of every kind, raw files of no bytes and some, files that
  are missing, cannot be opened or are broken, both libraries; -i only with a console
  to answer (with -n or -p nobody reads the image, and the program's first CD read
  waits for ever: dc-tool.c:1413-1426), -d only with -s, unusable files only at the
  initial speed and without -i, and no -E. What these limits leave out does happen: after an
  unusable file dcload stays at the other speed and CD reads stay redirected
  (`session_exits`), after -E it stays with the external clock (`session_external`).
  With such sessions among them `LeftReady`, `MainsAgree` and `RunsAsAsked` fail.
  Sessions, and the power switch, repeat without bound, so that any of those that
  are in follows any other.
* `routines`: blocks of no match, of one match at every boundary of lengths (4, 8,
  9, 33, 34, 289) and distances (2048, 2049, 16384, 16385, 49151), fills, and all
  repetitions of short words; lengths at which runs of literals change their form
  (3, 18, 19, 21, 238, 239, 600) and one block of more than 48 KiB. Streams for the
  safe decompressor: three with every instruction in them, cut off everywhere, each
  byte replaced by the values at which instructions change, with more and less room.
  Compilers and machines: `Machines`, for rows of the preprocessor's table; three of
  them (x86-64, SH little-endian, SPARC) also with wrong or hand-defined macros,
  versions and sizes. Copies: every alignment of both ends, all lengths to 28,
  memmove at every distance near overlap, memset to 40, memcmp with the difference
  everywhere. Option lists of up to three options, each in words of its own or
  joined. `Boot` has images of least, usual and greatest size, one that just ends
  before the buffer, and some whose bss or code lies in it; two programs of 4096
  bytes (`ProgramSize`) half of which (`CodeSize`) is code, and one unwritten write
  of a program at a time (`dirty = <<>>` in `ProgramWrites`): a second one to the
  same place would tell nothing more. Two entries in the table of directories and
  three directories: the table fills, and an entry is used again while another is
  open. A directory has two entries to read, and the program leaves one alone once
  it has rewound it (see `dirs_rewind`).

`routines` has `CHECK_DEADLOCK FALSE` since its calls return and nothing comes after
them (`Boot` alone goes on for ever), and its directories are bounded. The other
passing runs check deadlock.

### Fairness

`Spec` of the concurrent modules has weak fairness of each end: a processor that
can read what is on its line, or write, does so. Nothing else runs on the target,
and the host's process is scheduled by its operating system. Each end always has
at most one kind of step enabled, so weak fairness of the end is enough, and no
strong fairness is used. There is no fairness of the environment: that a transfer
or call is made, that dc-tool is started or interrupted, that a program calls,
ends or ever returns. In `Session` `ProgramReply` is left out of it for the same
reason. `Routines` has weak fairness of its next step: a function that can go on
goes on, there being nothing else on its processor. (`Returns` says nothing of the
directories, which a program need not ever close.)

### Disagreements with what the code says of itself

Each of these runs checks one property and TLC finds it violated; the findings
in `PROJECT.json` quote the lines.

| run | what happens |
|---|---|
| `send_damage` | A payload is damaged on the line. Its sum is received (dcload.c:250, 257), never compared, and the block is acknowledged. |
| `send_buffer` | `send_data` compresses a chunk of 16384 bytes into a buffer of 16659 (dc-tool.c:449); testmini.c:49-55 provides 17475 for it. |
| `recv_empty` | A transfer of no bytes, as `write(fd, buf, 0)` makes it: the target sends a block and waits for its answer; `recv_data(0)` reads nothing. |
| `console_gdb` | `accept` fails with -1, the code tests for 0, `recv` on -1 fails, nothing is sent back and the target waits for ever. |
| `dirs_rewind` | `dc_rewinddir` gives the entry back while the program still holds its handle. |
| `session_exits` | `-b 115200 -i iso -x f` with a file that cannot be opened: `upload` ends dc-tool after the speed has been changed and CD reads redirected. dcload stays at that speed and keeps sending CD reads to the host. A download without `-s` exits at the other speed too (dc-tool.c:1434-1437). |
| `session_external` | With `-E` changing the speed back sends 0 again: dcload keeps the external clock, the host goes to 57600. |

Seen while modelling, and not runs of their own:

* Compiled on FreeBSD (`Platform = "freebsd"` in `Console`), `dc_readdir` leaves out
  `d_off` (host `syscalls.c`:442), which the target reads: `HalvesAgree` fails.
* `lzoconf.h`:330-331 says of `lzo_init` "Check the return code !"; dcload.c:302 and
  dc-tool.c:903 do not, `host-src/misc/lzo.c`:72 does. For the machines of the two
  programs the test succeeds (`ConfigJudged`).
* The test of 64-bit reads clears the bytes on both sides of the word before it reads
  it (minilzo.c:4504-4507), so it would accept a read of too many bytes.
* dc-tool.c:747-748 give the errors of the normal divisors as 4.3% and 11.5%; `Rate`
  gives 260416 bits a second for 230400 asked, 13.0% too fast.
* At the initial speed an early exit of a session with -i leaves just the redirection:
  the next dc-tool finds dcload at its speed, and `-x` without `-i` runs a program whose
  CD reads go to the host (`RunsAsAsked` fails), where `do_console` passes on an `isofd`
  that it sets only with -i (dc-tool.c:1128-1131, 1206).
* How much `send_buffer` matters is open. 17475 is what is proved of the compressor
  (`StaysWithinBuffers`), and it is not tight; but that n + n/64 + 19 is enough cannot
  be proved either, by the argument of `LzoProofs` or any like it: nineteen literals
  followed by a match of four bytes from more than 2048 back take 24 bytes for 23,
  more than one in 64 too many.
* Nothing keeps dcload's image out of the buffer at 0x8c009f6c: `dcload.x`:237-238 asks for
  room for the stack only. An image that reaches that far is written over by the first
  compressed block.

## 4. What is proved

All proofs are checked by tlapm to the last leaf; nothing is assumed but the
named assumptions on the constants.

**`SendDataProofs`**, under `SendAssumption` (chunk and modulus positive, the
target's buffer as large as dcload.c makes it, sizes below the modulus), for every
chunk, modulus, set of sizes, and buffer of the host, one that is too small too:

* `Lockstep`: `UnheededSpec => []IInv`, with
  `IInv == Accounts /\ StoredPrefix /\ Phase`. The checked invariants are not
  inductive: `Aligned` says what kind of item is next, not what is behind it.
  `Phase` says that a transfer is in one of seven joint phases (`Idle`,
  `HeaderSent`, `TypeRead`, `SizeRead`, `BodySent`, `DataRead`, `Answered`), each
  of which fixes both program counters, the exact contents of both lines and
  whether the target is level with the host or one block ahead. `Accounts` keeps
  `hsize + haddr = count` and the block in hand within what is left. There is
  one lemma per action: each phase is left by one action, for the next.
* From it `TypeCorrect`, `FramingKept`, `PrefixStored`, `BooksBalance`,
  `NoPayloadUnawaited`, `TargetNotOverrun`: all the invariants of the run `send`.
  (The last is about the target's buffer; of the host's nothing is proved.)
* `SendImplementsTransfer`: `UnheededSpec => TransferSpec`. `TargetSum` of a compressed
  block and `TargetData` of an uncompressed one deliver, the last `HostAck`
  finishes, `Call` calls, everything else stutters.

* All of it holds of `UnheededSpec`, which the run checks too: a line that may damage
  any echo, which nobody looks at, and the answer to any uncompressed block, which is
  read and dropped (`NoiseOK`). `CleanLine` says that `Spec` is a special case.

A consequence worth having in words: as long as a line damages nothing else, the host
never sees 'B' after a compressed block, so the resend loop of `send_data` is never
entered.

**`DirTableProofs`**, for every size of the table, under the assumption
`~Rewinds` (the program leaves a directory alone once it has rewound it; without
it `dirs_rewind` refutes the first of them): `TableInvariant`, `HandlesGood`,
`NoneLost`, `InOrder`. The invariant strengthens `ReadsInOrder`, which speaks of
directories that are held, to all directories: what has been read of each is its
position, opened or not, since a directory opened next must start with the two
equal.

**`RecvDataProofs`**, under `RecvAssumption` and `0 \notin Sizes` (a transfer of
no bytes refutes the first of them: `recv_empty`): `Lockstep`, from which
`TypeCorrect`, `FramingKept`, `BooksBalance`, `NoOverrun`, and
`RecvImplementsTransfer`. Since the target sends a whole block at once, the line
holds up to four items; each of the six phases (`Idle`, `BlockSent`, `TypeRead`,
`SizeRead`, `DataRead`, `Answered`) says which of them are left, and whether the
host is level with the target or one block ahead. That `total` never wraps
(`BooksBalance`) is where the unsigned subtraction of dc-tool.c is settled.

**`LzoProofs`**, under `LzoAssumption` alone (sources and streams are sequences of
bytes), for every source of whatever length:

* `StaysWithinBuffers`: `lzo1x_1_compress` never reads behind its source, wide
  compares and all, and never writes behind the n + n/16 + 67 bytes that `testmini.c`
  provides, wide copies and all. The invariant (`KeepsPacking`) bounds what the
  next instruction may take: the stream is at most 17/16 of what it stands for,
  since a match of at least four bytes takes as many bytes at most as it replaces
  and only runs of more than 18 literals add to it; a match begins before the
  limit and is extended in steps of eight at most 12 bytes past it, which is less
  than the `Margin` of 20 that the limit is before the end.
* `WritesAStream`: what it writes is a stream of LZO1X, and stands for the source.
  `StandsFor(o, s)` is the format as such, without a decompressor: there is a set M
  of pairs (position in the stream, position in the source) at each of which
  literals are announced (`Announced`), are those of the source (`Literals`), and are
  followed by the end of the stream or by an instruction (`Instructs`) whose match
  repeats the source (`Repeats`) up to the next pair of M. The invariant is that the
  stream so far begins one (`Begins`), with two things to be careful about: the low bits of
  the last match are still free, as the literals behind it are put there later
  (`Grows`), and the literals held back between two blocks are in no instruction yet.
* `ComesBackAsItWas`: `lzo1x_decompress` gives back what was compressed, byte for byte.
  At each label the decompressor is at an instruction of a pair of M, and has written
  the source up to it (`Decoded`); a match that overlaps what it writes repeats it with
  the period of its offset.

`Foreign` streams take part under `ForeignStands`: they are of the format. The stream of
the run `routines` is.

Neither needs an induction over the data: M stands in for the recursion over the stream,
and what a loop over zero bytes adds up to is `AddedUp`, whose last zero byte is the
least of its kind.

**`LzoSafeProofs`**, first part, for every set of streams of bytes, wherever they come from,
and every amount of room: `SafeStaysInside`, that `lzo1x_decompress_safe` reads no byte
outside the stream and writes none, and copies from none, outside its buffer
(`NothingOutside`, the part of `Judged` that a damaged line can put to the test).
The invariant (`Contained`) is what the bare property does not say: most reads
have no test of their own and rely on one made up to two steps earlier, so each
label of the code has an amount of stream that is known to be there (`Within`).

Second part, under `ReceivedStands` (what comes is of streams of the format, damaged
or not; those of the run `routines` are): `AnswersRightly`, all of `Judged`. A
stream that was cut short anywhere is followed beside `lzo1x_decompress` with the
whole stream, by the theorems of `LzoProofs`: as long as no test stops it each step
is the same step, because what it reads is there (`SameIn`, `SameLength`,
`SameOffset`), and a test that does stop it is `Fair`: the bytes it asks for are in
the whole stream, the room it asks for is what the source takes, and what it looks
back at was written.

**`SessionProofs`**, under `SessionAssumption` and `SerialAssumption` alone, for any
set of command lines and files, and any host, whether it knows a speed or not:
`TypeCorrect`; `ScreenOwned`; and `PortAtExit` (`PortPutBack`), which
settings a program's exit puts back. Its invariant (`PortKept`) says which
settings dc-tool has kept while it is at work for a program: the ones it found, if
the initial speed was asked for; with another, until the port has been opened again for it
(`ToReopen`), the port is at the settings for the initial speed, and from then on
these are the ones kept. Three cases meet in the last: a speed the host makes, one
it replaces by the initial one (`FellBack`: only if it knows that), and one it
replaces by 38400.

Its second part is under `AllUsual`, an assumption on each command line by
itself: `MainsGoInStep`, `ReadyForTheNext`, `CallsAreServed`, `ProgramAsAsked`.
`AllUsual` asks for a host that supports the initial speed, and excludes what the two
violated session runs show to be needed (no -E; at another speed than the initial
one, or with `-i`, a file and a size with which dc-tool reaches the end); speeds
that the two clocks cannot both make within 5 per cent; and `-i` without a console
to use the image. The run `session` satisfies
it, and is far from filling it: any number of command lines, files with any
number of sections at any addresses, of any sizes.

The argument (`AlwaysInPhase`): the two mains are in one of five phases. `AtWork`:
main of dc-tool is in a part, and `Here(k)` says for each part where dcload may be
while dc-tool is at step k, since dcload works ahead: it draws its screen, changes
its speed, or is done with a block while dc-tool has still to read the
last echo. Within it, nothing is on the line (`Free`), a question (`Asking`) or its
echo (`Echoing`); a block or its answer; and what the target sends of its own accord
behind the last echo (`Checked`, `Sent`, and `Fetched`, in which dc-tool is already
putting the speed back). `InPace` says which speed each end has at which step.
`Going`, `InProgram`, `Calling`: the program has been told to start, runs, or calls,
while dc-tool may still have the last echo to read. `Resting`: dcload waits. What
the properties need besides is history, and the phases carry it: what of the
file has been loaded (`LoadedBefore`), and where the vector points (`Pointed`), which
a session must find as `bios` and leave so. The sections of a file come in order
because each part is the least that is left (`FromSection`), shown once
(`LeastSection`), so no induction over the file is needed.

**`ConsoleProofs`**, for all sizes, whatever goes wrong with gdb's socket (any
`GdbFaults`), under `Usual`: directory entries have all of their fields
(`Platform`; on FreeBSD the target reads one number more than is sent), and nobody
writes no bytes (`MinWrite > 0`; `recv_empty` shows what comes of it). `TypeCorrect`;
`HalvesInStep`: in each of the 21 calls either half reads what the other has
written; and `ConsoleImplementsRpc`: each call is carried out just once, with the
arguments of the program, and the program gets what came of it.

The argument is in two parts. First the scripts (`HalvesFit`, from one lemma per
pair of scripts): the steps of the two halves go together one by one, first those
by which the target tells the host of the call (`Ins` of them), then the call
itself, then those by which the host answers; and a script that depends on a value
(`utime`'s flag, the size of a gdb packet, whether an entry was found) depends on
one that its half already knows (`Heard`, `Learned`). Then the invariant
(`Invariant`), which places the two halves in the scripts of one call and says what
is on the lines:

* `Resting`: no call, or the host has still the last echo of the one before to read.
* `Behind`, `Hearing`: the target is some steps ahead, since it waits only
  for the reply to a block, and the line holds one item for each step between them;
  the host may still be at the last call's echo (`Behind`) or in this call.
* `Due`, `Sent`, `Taken`: the host answers, one item at a time, each of which is due,
  on the line, or read and replied to. The target may still be waiting for the reply
  to its last block (`Late`), and an empty block, which `read` asks for, is passed
  over by both ends, each at its own time (`Skips`).
* `Stuck`: gdb's socket has failed and nothing is ever sent back (the finding of
  `console_gdb`): nobody is told anything wrong. `Over`: the program has ended.

The checked invariant is not inductive, since `HalvesAgree` speaks of the next item
only. Which call it is, and what both ends know, the history variables `asked`,
`executed` and `result` say, of which `Rpc`'s state is made: so each step shows
at the same time what it does in `Rpc`.

**`MemoryProofs`**, for every length, alignment, content of the memory and overlap,
under `MemoryAssumption` (what string.h and the comments of `memcpy.S` and `memset.S`
ask of a caller; TLC evaluates it for the calls of the run `routines`):
`RoutinesRight`, that the four routines return what string.h says and that no access
on the way is unaligned or out of place. The invariant (`Underway`) says at each
place of the code how much has been copied, set or found alike (`Front`, `Back`,
`FilledTo`, `AlikeTo`), how the registers are aligned, and how much is certainly
left: that is what the limits `end - 3`, `end - 9` and `end - 16` are for, at which the
loops on words stop, and why 11 and 12 bytes are the fewest for them (three may go
to the alignment, and a turn takes eight). The half word that is carried from one turn
to the next is the source's, since a copy from the front overwrites nothing that
has still to be read (`Harmless`); from the back, the same follows from the destination
being behind. Addresses are not taken modulo 2^32: with areas that ascend, nothing
below the first byte is computed but by `memset`, hence its `c.to >= 4`.

Second, the boot, for every set of images the linker lets through (`BootAssumption`:
what `dcload.x` asserts), and whatever addresses are looked at: `DcloadInPlace`
(`LaidOut`) and `NothingStaleRuns` (`RunsWhatWasWritten`), through any number of
blocks, programs and exceptions. All that is said of the image is said outside the
buffer, hence of all of it if it ends before the buffer; nothing is assumed of where
it ends but room for the stack. `BootInv` says at each part that runs what is
certainly in memory (`Contents`: the image until a part that may write over it, the
handler from its copy on, a program from its last block on) and what the caches may
hold (`Caches`). The properties do not mention what makes them true: the loader's
own code is above all that it writes; what is left dirty when dcload is entered
again is a program's data, which is nobody's code; and what is left in the
instruction cache at `bss` is the image, which is still what was copied. A write is
a matter of two areas beside each other (`Beside`, `WriteIsThere`), a block one of
looking elsewhere (`BlockElsewhere`).

Third, the screen, under `ScreenAssumption` (the title fits on a line, the font
holds bytes, a size has eight digits), for every font, title and load, each cable
and each depth: `ScreenRight` (`ShowsTheLast`). `ScreenInv` says for each character
of each string which pixels are lit: those of the title (`TitleShown`) and of the
characters of the line that have been drawn (`Writing`: `k` of string `q`, whose
first is character `Column(q)` of the line). It rests on two facts about
`draw_char12`: the 24 bits shifted out of three bytes of the font are two rows of
twelve as a viewer reads them (`WordOfThree`, `BitOfChar`, bit by bit), and the
steps between pixels and lines add up to the pixel's place (`CharPixels`). Clearing
24 lines leaves nothing of the old line and all of the title (`ClearedLines`). That
an interlaced display shows the same lines as a VGA one, in two fields, is
`ByTwoFields`.

TLC checked every one of these inductive invariants on the instance of the run of
that component before it was proved.

Only model-checked:

* Liveness (`Completes`, `CallReturns`, `MainEnds`, `Returns`): out of TLAPS's reach here.
* `ConfigJudged`: a table of macros and compilers; its rows are checked for the machines
  listed (`Machines`), and a proof would be the same list by another name.
* `ShownAsItWas`: the handler's steps do not depend on anything but the code of the
  exception, so TLC enumerates all there is; and it measures texts, whose
  lengths the provers know nothing of.
* `OptionsUnderstood`: says what `getopt` makes of a whole command line, an induction over
  its words, which is out of TLAPS's reach here.

## 5. Assumptions and what is not modelled

* A line delivers each direction in order and loses nothing; damage is modelled
  in `SendData` only: of payloads (`NoisySpec`), and of what nobody acts on
  (`UnheededSpec`, which the run `send` checks). After a misread a model stops at
  the item its reader would take for another one; what bytes mean when read for
  what they are not is not modelled, hence also not what a resend of a compressed
  payload (which has no header) does to its reader.
* Reads and writes of the serial device do not fail.
* dc-tool is started when dcload waits for a command. Starting it while a program
  runs makes the program's bytes and dc-tool's meet; nothing is promised then.
* Closing and opening the host's port takes longer than `scif_init`, which empties
  the receive FIFO (`HReopen`).
* gdb's packets fit `GDBBUFSIZE`.
* The port's status bits never show an error, and a speed is met within 5 per cent.
* `Lzo` compares bytes where the code compares words and counts zero bits; that the
  count is right is `LzoConfig`'s `TestBits`. What the wide copies put behind the end
  of what they copy is overwritten later; only how far they reach is kept.
* A compiler for ARMv7 that is told not to read unaligned words is taken not to exist
  (lzodefs.h:2616-2626 look at the version of the machine).
* `Boot` has writes of whole areas, seen at the addresses of `Observed`; dcload's
  writes to its own variables, its stack, transfers by other devices than the
  processor, and reads of stale data from the operand cache are left out. A program
  emptying the caches itself is left out too.
* The linker sees to what `dcload.x` asserts (`BootAssumption`). An image that
  reaches into the buffer is taken to run on when a block has been written over it;
  what it would then do is not modelled, only what is left where.
* What is drawn fits on the screen (`ScreenAssumption`): `draw_string` does not check it.
* Not modelled, and why: the status bits of the serial registers (each is waited for
  in a loop of its own); failing reads and writes of the serial device and the
  Windows calls of the host, except where they change what goes over the line (their
  results are not used, so every step after them would be a misread); the big-endian
  half of `memcpy.S` (128-221), the memory models of 16-bit machines, Crays and
  hand-made overrides in `lzodefs.h`, and `lzo_adler32` (not compiled, or called by
  nobody); `shim.c`, `misc/`, `testmini.c` and the makefiles (tools beside the two
  programs); the examples' own code (sequences of calls); the headers of
  `target-inc` (declarations).

## 6. Plan

Done: `Wire`, `Transfer`, `SendData`, `RecvData`, `DirTable`, `Serial`, `Session`,
`Lzo`, `LzoSafe`, `Rpc`, `Console`, `Memory`, `Boot` and `Screen`, each with its
proofs; `Routines` with its other modules.

Next, in this order:

1. A transfer that goes on after a misread, at the level of bytes: a resend
   without its header, an answer that is damaged, a damaged size.
2. The console over real transfers: a call's blocks as `SendData` and `RecvData`
   steps, and gdb packets longer than the host's buffer.
3. A failing device: `blread` that loops, commands that are read twice.
4. What an untested decompressor does with a damaged stream, within a bound.
