------------------------------ MODULE Console ------------------------------
(***************************************************************************)
(* The console: a program on the target makes a system call, the target's  *)
(* half of it (target-src/dcload/syscalls.c, cdfs_syscalls.c) puts the     *)
(* call's number and arguments on the line, and the host (do_console and   *)
(* the handlers of host-src/tool/syscalls.c) carries it out and answers.   *)
(*                                                                         *)
(* Each half of a call is a straight-line script of reads and writes; what *)
(* a half has read so far may extend its script.  The number of bytes of   *)
(* an argument is written in one place and used for a block in another,    *)
(* and the two halves of a call live in different files.  A call has three *)
(* numbers: the program's, an index into the table of dcload-crt0.s; the   *)
(* one its function puts on the line; and the one do_console tests for.    *)
(*                                                                         *)
(* A block transfer is one item and its answer (SendData and RecvData say  *)
(* how): the target sends a block whatever its size, everyone else does    *)
(* nothing when there are no bytes.  Of a field the model keeps the value  *)
(* where a script depends on it or it is the result of the call.           *)
(***************************************************************************)
EXTENDS Integers, Sequences, TLC

CONSTANTS Platform,    \* what dc-tool was compiled for
          MaxSize,     \* bound on sizes and lengths
          MinWrite,    \* the least number of bytes written
          MinusOne,    \* -1 as an unsigned int
          GdbFaults    \* what may go wrong with gdb's socket: "bind", "accept", "close", "read"

ASSUME ConsoleAssumption ==
    /\ Platform \in {"linux", "apple", "windows", "freebsd", "cygwin"}
    /\ MaxSize \in Nat
    /\ MinWrite \in 0..MaxSize
    /\ MinusOne \in Nat \ (0..MaxSize)
    /\ GdbFaults \subseteq {"bind", "accept", "close", "read"}

VARIABLES
    tcall,      \* target: the call being made, "idle" or "exited"
    tpc,        \* target: the next step of its script
    tenv,       \* target: the values it knows
    twait,      \* target: waiting for the answer to a block
    gdStatus,   \* target: what the program learns of its latest CD request
    hcall,      \* host: the call being handled, "loop" or "gone"
    hpc,        \* host: the next step of its script
    henv,       \* host: the values it knows
    hwait,      \* host: what it waits for, "none", "echo" or "answer"
    gdb,        \* host: gdb's socket, "none", "unbound", "listening", "connected",
                \* "lost" or "closed"
    toHost,     \* the line from the target to the host
    toTarget,   \* the line from the host to the target
    asked,      \* the latest call and its arguments
    executed,   \* the call and arguments the host has carried out since
    done,       \* how many calls that was
    result,     \* what came of it
    answer      \* what the latest call returned to the program

targetVars == <<tcall, tpc, tenv, twait, gdStatus>>
hostVars == <<hcall, hpc, henv, hwait, gdb>>
history == <<asked, executed, done, result, answer>>
vars == <<targetVars, hostVars, toHost, toTarget, history>>
-----------------------------------------------------------------------------
(* The steps of a script.  On the target, "put" is put_uint, "get" is      *)
(* get_uint, "send" and "load" the transfer of a block whose size is the   *)
(* named value.  On the host, "recv" is recv_uint, "send" send_uint,       *)
(* "data" recv_data, "block" send_data, and "run" the call itself.         *)
Step(do, field) == [do |-> do, field |-> field]
Steps(do, fields) == [i \in DOMAIN fields |-> Step(do, fields[i])]

StatFields == <<"dev", "ino", "mode", "nlink", "uid", "gid", "rdev", "size",
                "blksize", "blocks", "atime", "mtime", "ctime">>

(* The values scripts depend on, and those that make up a call's result.   *)
Values == {"count", "namelen", "namelen2", "flag", "found", "num",
           "in_size", "out_size", "retval", "silent"}
Unknown == [v \in Values |-> 0]
ValueOf(env, field) == IF field \in Values THEN env[field] ELSE 0
Learn(env, field, n) == IF field \in Values THEN [env EXCEPT ![field] = n] ELSE env
-----------------------------------------------------------------------------
(* The target's half of each call, after its number.                       *)
TName(namelen) == <<Step("put", namelen), Step("send", namelen)>>
TRetval == <<Step("get", "retval")>>

TRead == <<Step("put", "fd"), Step("put", "count"), Step("load", "count")>> \o TRetval
TWrite == <<Step("put", "fd"), Step("put", "count"), Step("send", "count")>> \o TRetval
TOpen == TName("namelen") \o <<Step("put", "flags"), Step("put", "mode")>> \o TRetval
TClose == <<Step("put", "fd")>> \o TRetval
TCreat == TName("namelen") \o <<Step("put", "mode")>> \o TRetval
TLink == TName("namelen") \o TName("namelen2") \o TRetval
TUnlink == TName("namelen") \o TRetval
TChdir == TName("namelen") \o TRetval
TChmod == TName("namelen") \o <<Step("put", "mode")>> \o TRetval
TLseek == Steps("put", <<"fd", "offset", "whence">>) \o TRetval
TFstat == <<Step("put", "fd")>> \o Steps("get", StatFields) \o TRetval
TTime == TRetval
TStat == TName("namelen") \o Steps("get", StatFields) \o TRetval
TUtime(env) == TName("namelen") \o
               Steps("put", IF env["flag"] = 0 THEN <<"flag">>
                            ELSE <<"flag", "actime", "modtime">>) \o TRetval
TOpendir == TName("namelen") \o TRetval
TClosedir == <<Step("put", "dir")>> \o TRetval
TReaddir(env) == <<Step("put", "dir"), Step("get", "found")>> \o
                 IF env["found"] = 0 THEN <<>>
                 ELSE Steps("get", <<"d_ino", "d_off", "d_reclen", "d_type", "namelen">>)
                      \o <<Step("load", "namelen")>>
TGdbpacket(env) ==
    Steps("put", <<"in_size", "out_size">>) \o
    (IF env["in_size"] = 0 THEN <<>> ELSE <<Step("send", "in_size")>>) \o TRetval \o
    (IF env["retval"] \in 1..env["out_size"] THEN <<Step("load", "retval")>> ELSE <<>>)
TRewinddir == <<Step("put", "dir")>> \o TRetval
TCdfs == <<Step("put", "start"), Step("put", "num"), Step("load", "num")>>
TExit == <<Step("put", "retval")>>

TScript(c, env) ==
    CASE c = "read" -> TRead            [] c = "write" -> TWrite
      [] c = "open" -> TOpen            [] c = "close" -> TClose
      [] c = "creat" -> TCreat          [] c = "link" -> TLink
      [] c = "unlink" -> TUnlink        [] c = "chdir" -> TChdir
      [] c = "chmod" -> TChmod          [] c = "lseek" -> TLseek
      [] c = "fstat" -> TFstat          [] c = "time" -> TTime
      [] c = "stat" -> TStat            [] c = "utime" -> TUtime(env)
      [] c = "opendir" -> TOpendir      [] c = "closedir" -> TClosedir
      [] c = "readdir" -> TReaddir(env) [] c = "gdbpacket" -> TGdbpacket(env)
      [] c = "rewinddir" -> TRewinddir  [] c = "cdfs" -> TCdfs
      [] c = "exit" -> TExit

(* The table of system calls that _dcloadsyscall jumps through.  A program *)
(* calls by number; a number beyond the table is -1.  Entry 19 is empty    *)
(* and is not called.                                                      *)
SyscallTableSwapped ==  \* mutant: two entries in the wrong order
    <<"read", "write", "open", "close", "creat", "link", "unlink", "chmod", "chdir",
      "lseek", "fstat", "time", "stat", "utime", "assign_wrkmem", "exit", "opendir",
      "closedir", "readdir", "unk19", "gdbpacket", "rewinddir">>
SyscallTable ==
    <<"read", "write", "open", "close", "creat", "link", "unlink", "chdir", "chmod",
      "lseek", "fstat", "time", "stat", "utime", "assign_wrkmem", "exit", "opendir",
      "closedir", "readdir", "unk19", "gdbpacket", "rewinddir">>
Dispatch(nr) == IF nr <= 21 THEN SyscallTable[nr + 1] ELSE "bad"
ProgramNumber == [read |-> 0, write |-> 1, open |-> 2, close |-> 3, creat |-> 4, link |-> 5,
                  unlink |-> 6, chdir |-> 7, chmod |-> 8, lseek |-> 9, fstat |-> 10,
                  time |-> 11, stat |-> 12, utime |-> 13, assign_wrkmem |-> 14, exit |-> 15,
                  opendir |-> 16, closedir |-> 17, readdir |-> 18, gdbpacket |-> 20,
                  rewinddir |-> 21]

(* The table that cdfs_redir jumps through, for CD calls, and the commands *)
(* that one of them takes.                                                 *)
GdTable == <<"ReqCmd", "GetCmdStat", "ExecServer", "InitSystem", "GetDrvStat",
             "bad", "bad", "bad", "bad", "bad", "ChangeDataType">>
GdDispatch(nr) == IF nr <= 10 THEN GdTable[nr + 1] ELSE "bad"
ReqCmd(cmd) == CASE cmd = 16 -> "read sectors"
                 [] cmd = 19 -> "read toc"
                 [] cmd = 24 -> "init disc"
                 [] OTHER -> "unknown"

(* The number each call announces itself with.                             *)
Number == [fstat |-> 1, write |-> 2, read |-> 3, open |-> 4, close |-> 5,
           creat |-> 6, link |-> 7, unlink |-> 8, chdir |-> 9, chmod |-> 10,
           lseek |-> 11, time |-> 12, stat |-> 13, utime |-> 14,
           opendir |-> 16, closedir |-> 17, readdir |-> 18, cdfs |-> 19,
           gdbpacket |-> 20, rewinddir |-> 21, exit |-> 22]
Calls == DOMAIN Number
-----------------------------------------------------------------------------
(* The host's handlers, after the number.                                  *)
HName(namelen) == <<Step("recv", namelen), Step("data", namelen)>>
HRun == <<Step("run", "retval")>>
HReply == HRun \o <<Step("send", "retval")>>

HRead == Steps("recv", <<"fd", "count">>) \o HRun \o
         <<Step("block", "count"), Step("send", "retval")>>
HWrite == Steps("recv", <<"fd", "count">>) \o <<Step("data", "count")>> \o HReply
HOpenNoMode == HName("namelen") \o <<Step("recv", "flags")>> \o HReply  \* mutant: mode is not read
HOpen == HName("namelen") \o Steps("recv", <<"flags", "mode">>) \o HReply
HClose == <<Step("recv", "fd")>> \o HReply
HCreat == HName("namelen") \o <<Step("recv", "mode")>> \o HReply
HLink == HName("namelen") \o HName("namelen2") \o HReply
HUnlink == HName("namelen") \o HReply
HChdir == HName("namelen") \o HReply
HChmod == HName("namelen") \o <<Step("recv", "mode")>> \o HReply
HLseek == Steps("recv", <<"fd", "offset", "whence">>) \o HReply
HFstat == <<Step("recv", "fd")>> \o HRun \o Steps("send", StatFields) \o
          <<Step("send", "retval")>>
HTime == HReply
HStat == HName("namelen") \o HRun \o Steps("send", StatFields) \o
         <<Step("send", "retval")>>
HUtime(env) == HName("namelen") \o
               Steps("recv", IF env["flag"] = 0 THEN <<"flag">>
                             ELSE <<"flag", "actime", "modtime">>) \o HReply
HOpendir == HName("namelen") \o HReply
HClosedir == <<Step("recv", "dir")>> \o HReply

(* Which fields of a directory entry there are depends on the platform.    *)
EntryFields ==
    CASE Platform \in {"linux", "apple", "windows"} -> <<"d_off", "d_reclen", "d_type">>
      [] Platform = "freebsd" -> <<"d_reclen", "d_type">>
      [] Platform = "cygwin" -> <<"d_type">>
HReaddir(env) ==
    <<Step("recv", "dir")>> \o HRun \o <<Step("send", "found")>> \o
    IF env["found"] = 0 THEN <<>>
    ELSE Steps("send", <<"d_ino">> \o EntryFields \o <<"namelen">>) \o
         <<Step("block", "namelen")>>

(* When reading from gdb fails there is no reply.                          *)
HGdbpacket(env) ==
    Steps("recv", <<"in_size", "out_size">>) \o
    (IF env["in_size"] = 0 THEN <<>> ELSE <<Step("data", "in_size")>>) \o HRun \o
    (IF env["silent"] = 1 THEN <<>>
     ELSE <<Step("send", "retval")>> \o
          IF env["retval"] \in 1..MaxSize THEN <<Step("block", "retval")>> ELSE <<>>)
HRewinddirSilent == <<Step("recv", "dir")>> \o HRun  \* mutant: no reply
HRewinddir == <<Step("recv", "dir")>> \o HReply
HCdfs == Steps("recv", <<"start", "num">>) \o HRun \o <<Step("block", "num")>>
HExit == <<Step("recv", "retval")>> \o HRun

HScript(c, env) ==
    CASE c = "read" -> HRead            [] c = "write" -> HWrite
      [] c = "open" -> HOpen            [] c = "close" -> HClose
      [] c = "creat" -> HCreat          [] c = "link" -> HLink
      [] c = "unlink" -> HUnlink        [] c = "chdir" -> HChdir
      [] c = "chmod" -> HChmod          [] c = "lseek" -> HLseek
      [] c = "fstat" -> HFstat          [] c = "time" -> HTime
      [] c = "stat" -> HStat            [] c = "utime" -> HUtime(env)
      [] c = "opendir" -> HOpendir      [] c = "closedir" -> HClosedir
      [] c = "readdir" -> HReaddir(env) [] c = "gdbpacket" -> HGdbpacket(env)
      [] c = "rewinddir" -> HRewinddir  [] c = "cdfs" -> HCdfs
      [] c = "exit" -> HExit

(* do_console's table.  Number 15 does nothing; on 0, or a number that is  *)
(* not in the table, the host exits.                                       *)
Handler(n) ==
    CASE n = 1 -> "fstat"     [] n = 2 -> "write"     [] n = 3 -> "read"
      [] n = 4 -> "open"      [] n = 5 -> "close"     [] n = 6 -> "creat"
      [] n = 7 -> "link"      [] n = 8 -> "unlink"    [] n = 9 -> "chdir"
      [] n = 10 -> "chmod"    [] n = 11 -> "lseek"    [] n = 12 -> "time"
      [] n = 13 -> "stat"     [] n = 14 -> "utime"    [] n = 15 -> "loop"
      [] n = 16 -> "opendir"  [] n = 17 -> "closedir" [] n = 18 -> "readdir"
      [] n = 19 -> "cdfs"     [] n = 20 -> "gdbpacket"
      [] n = 21 -> "rewinddir" [] n = 22 -> "exit"    [] OTHER -> "gone"
-----------------------------------------------------------------------------
(* What goes over the line: a call's number, the four bytes of a value, a  *)
(* block, and the answer to a block.                                       *)
Command(n) == <<"command", n>>
Word(field, n) == <<"word", field, n>>
Block(size) == <<"block", size>>
Good == <<"good">>
Kind(item) == item[1]

(* The arguments of a call that its halves depend on.  A name is at least  *)
(* its terminating zero.  A read of no sectors is left out: it returns     *)
(* without an answer, before the host has seen it.                         *)
Params(c) ==
    CASE c \in {"read", "write"} -> {"count"}
      [] c \in {"open", "creat", "unlink", "chdir", "chmod", "stat", "opendir"} -> {"namelen"}
      [] c = "link" -> {"namelen", "namelen2"}
      [] c = "utime" -> {"namelen", "flag"}
      [] c = "gdbpacket" -> {"in_size", "out_size"}
      [] c = "cdfs" -> {"num"}
      [] c = "exit" -> {"retval"}
      [] OTHER -> {}
Least(c, param) == CASE param \in {"namelen", "namelen2", "num"} -> 1
                     [] c = "write" -> MinWrite
                     [] OTHER -> 0
Args(c) == {a \in [Params(c) -> 0..MaxSize] :
              /\ \A param \in Params(c) : a[param] >= Least(c, param)
              /\ \A param \in Params(c) \cap {"flag", "retval"} : a[param] <= 1}

(* What a call returns to the program.                                     *)
Answer(c, env) == IF c = "readdir" THEN env["found"]
                  ELSE IF c = "cdfs" THEN 0 ELSE env["retval"]

(* -g opens a socket, and goes on whatever comes of it.                    *)
OpenGdbSocket == {"none", "listening"} \cup IF "bind" \in GdbFaults THEN {"unbound"} ELSE {}

Init == /\ tcall = "idle" /\ tpc = 1 /\ tenv = Unknown /\ twait = FALSE
        /\ gdStatus = 0
        /\ hcall = "loop" /\ hpc = 1 /\ henv = Unknown /\ hwait = "none"
        /\ gdb \in OpenGdbSocket
        /\ toHost = <<>> /\ toTarget = <<>>
        /\ asked = <<"none", <<>>>> /\ executed = <<"none", <<>>>>
        /\ done = 0 /\ result = 0 /\ answer = 0
-----------------------------------------------------------------------------
(* The target.                                                             *)
TDoing(do) == /\ tcall \in Calls
              /\ ~twait
              /\ TScript(tcall, tenv)[tpc].do = do
TField == TScript(tcall, tenv)[tpc].field

(* A step is done, and env is known now; after the last one the call       *)
(* returns to the program.                                                 *)
TAdvanceOnePast(env) ==  \* mutant: off by one
    /\ twait' = FALSE
    /\ IF tpc <= Len(TScript(tcall, env))
       THEN tpc' = tpc + 1 /\ tenv' = env /\ UNCHANGED <<tcall, gdStatus, answer>>
       ELSE /\ tpc' = 1
            /\ tenv' = Unknown
            /\ tcall' = "idle"
            /\ answer' = Answer(tcall, env)
            /\ UNCHANGED gdStatus
TAdvance(env) ==
    /\ twait' = FALSE
    /\ IF tpc < Len(TScript(tcall, env))
       THEN tpc' = tpc + 1 /\ tenv' = env /\ UNCHANGED <<tcall, gdStatus, answer>>
       ELSE /\ tpc' = 1
            /\ tenv' = Unknown
            /\ tcall' = IF tcall = "exit" THEN "exited" ELSE "idle"
            /\ gdStatus' = IF tcall = "cdfs" THEN 2 ELSE gdStatus
            /\ answer' = IF tcall = "exit" THEN answer ELSE Answer(tcall, env)

(* The program makes a call, by its number, or asks the BIOS, it thinks,   *)
(* for sectors of its CD.                                                  *)
Entered(c) == IF c = "cdfs" THEN IF ReqCmd(16) = "read sectors" THEN "cdfs" ELSE "bad"
              ELSE Dispatch(ProgramNumber[c])
TCall == /\ tcall = "idle"
         /\ \E c \in Calls : \E a \in Args(c) :
               /\ tcall' = Entered(c)
               /\ tenv' = [v \in Values |-> IF v \in Params(c) THEN a[v] ELSE 0]
               /\ asked' = <<c, a>>
               /\ toHost' = Append(toHost, Command(Number[Entered(c)]))
         /\ tpc' = 1
         /\ executed' = <<"none", <<>>>> /\ done' = 0 /\ result' = 0 /\ answer' = 0
         /\ UNCHANGED <<twait, gdStatus, hostVars, toTarget>>

(* A CD request that the target answers itself; and the rest of the CD     *)
(* calls, a system call that is not in the table, and assign_wrkmem, which *)
(* change nothing that is modelled here.                                   *)
TLocal == /\ tcall = "idle"
          /\ \E cmd \in {19, 24, 0} :
                gdStatus' = IF ReqCmd(cmd) = "unknown" THEN 0 ELSE 2
          /\ UNCHANGED <<tcall, tpc, tenv, twait, hostVars, toHost, toTarget, history>>

TPut == /\ TDoing("put")
        /\ toHost' = Append(toHost, Word(TField, ValueOf(tenv, TField)))
        /\ TAdvance(tenv)
        /\ UNCHANGED <<hostVars, toTarget, asked, executed, done, result>>

(* get_uint sends back what it read.                                       *)
TGet == /\ TDoing("get")
        /\ toTarget # <<>>
        /\ Kind(Head(toTarget)) = "word"
        /\ toTarget' = Tail(toTarget)
        /\ toHost' = Append(toHost, Head(toTarget))
        /\ TAdvance(Learn(tenv, TField, Head(toTarget)[3]))
        /\ UNCHANGED <<hostVars, asked, executed, done, result>>

TSend == /\ TDoing("send")
         /\ toHost' = Append(toHost, Block(tenv[TField]))
         /\ twait' = TRUE
         /\ UNCHANGED <<tcall, tpc, tenv, gdStatus, hostVars, toTarget, history>>

TAnswer == /\ tcall \in Calls
           /\ twait
           /\ toTarget # <<>>
           /\ Head(toTarget) = Good
           /\ toTarget' = Tail(toTarget)
           /\ TAdvance(tenv)
           /\ UNCHANGED <<hostVars, toHost, asked, executed, done, result>>

TLoad == /\ TDoing("load")
         /\ IF tenv[TField] = 0
            THEN UNCHANGED <<toTarget, toHost>>
            ELSE /\ toTarget # <<>>
                 /\ Head(toTarget) = Block(tenv[TField])
                 /\ toTarget' = Tail(toTarget)
                 /\ toHost' = Append(toHost, Good)
         /\ TAdvance(tenv)
         /\ UNCHANGED <<hostVars, asked, executed, done, result>>

Target == TPut \/ TGet \/ TSend \/ TAnswer \/ TLoad
-----------------------------------------------------------------------------
(* The host.                                                               *)
HDoing(do) == /\ hcall \in Calls
              /\ hwait = "none"
              /\ HScript(hcall, henv)[hpc].do = do
HField == HScript(hcall, henv)[hpc].field

HAdvance(env) ==
    /\ hwait' = "none"
    /\ IF hpc < Len(HScript(hcall, env))
       THEN hpc' = hpc + 1 /\ henv' = env /\ UNCHANGED hcall
       ELSE /\ hpc' = 1
            /\ henv' = Unknown
            /\ hcall' = IF hcall = "exit" THEN "gone" ELSE "loop"

HCommand == /\ hcall = "loop"
            /\ toHost # <<>>
            /\ Kind(Head(toHost)) = "command"
            /\ hcall' = Handler(Head(toHost)[2])
            /\ toHost' = Tail(toHost)
            /\ UNCHANGED <<targetVars, hpc, henv, hwait, gdb, toTarget, history>>

HRecv == /\ HDoing("recv")
         /\ toHost # <<>>
         /\ Kind(Head(toHost)) = "word"
         /\ toHost' = Tail(toHost)
         /\ HAdvance(Learn(henv, HField, Head(toHost)[3]))
         /\ UNCHANGED <<targetVars, gdb, toTarget, history>>

(* send_uint writes and waits for the echo.                                *)
HSend == /\ HDoing("send")
         /\ toTarget' = Append(toTarget, Word(HField, ValueOf(henv, HField)))
         /\ hwait' = "echo"
         /\ UNCHANGED <<targetVars, hcall, hpc, henv, gdb, toHost, history>>

HEcho == /\ hwait = "echo"
         /\ toHost # <<>>
         /\ Kind(Head(toHost)) = "word"
         /\ toHost' = Tail(toHost)
         /\ HAdvance(henv)
         /\ UNCHANGED <<targetVars, gdb, toTarget, history>>

HData == /\ HDoing("data")
         /\ IF henv[HField] = 0
            THEN UNCHANGED <<toHost, toTarget>>
            ELSE /\ toHost # <<>>
                 /\ Head(toHost) = Block(henv[HField])
                 /\ toHost' = Tail(toHost)
                 /\ toTarget' = Append(toTarget, Good)
         /\ HAdvance(henv)
         /\ UNCHANGED <<targetVars, gdb, history>>

HBlock == /\ HDoing("block")
          /\ IF henv[HField] = 0
             THEN HAdvance(henv) /\ UNCHANGED toTarget
             ELSE /\ toTarget' = Append(toTarget, Block(henv[HField]))
                  /\ hwait' = "answer"
                  /\ UNCHANGED <<hcall, hpc, henv>>
          /\ UNCHANGED <<targetVars, gdb, toHost, history>>

HAnswer == /\ hwait = "answer"
           /\ toHost # <<>>
           /\ Head(toHost) = Good
           /\ toHost' = Tail(toHost)
           /\ HAdvance(henv)
           /\ UNCHANGED <<targetVars, gdb, toTarget, history>>

(* gdb's socket.  The first packet waits for gdb to connect; accept fails  *)
(* with -1, which is taken for a connection.  What is read may be nothing, *)
(* because gdb has closed its end; the socket is lost then, and reading    *)
(* from a lost one is an error, after which nothing is sent back.          *)
Accepted == IF gdb = "listening"
            THEN {"connected"} \cup IF "accept" \in GdbFaults THEN {"lost"} ELSE {}
            ELSE IF gdb = "unbound" THEN {"lost"} ELSE {gdb}
GdbReads(socket, most) ==
    IF most = 0 THEN {[retval |-> 0, silent |-> 0, gdb |-> socket]}
    ELSE IF socket = "lost" THEN {[retval |-> 0, silent |-> 1, gdb |-> socket]}
    ELSE {[retval |-> n, silent |-> 0, gdb |-> socket] : n \in 1..most} \cup
         (IF "close" \in GdbFaults THEN {[retval |-> 0, silent |-> 0, gdb |-> "lost"]} ELSE {}) \cup
         (IF "read" \in GdbFaults THEN {[retval |-> 0, silent |-> 1, gdb |-> socket]} ELSE {})
GdbOutcomes(most) ==
    IF gdb = "none" THEN {[retval |-> MinusOne, silent |-> 0, gdb |-> gdb]}
    ELSE UNION {GdbReads(socket, most) : socket \in Accepted}

(* Before dc-tool ends it tells gdb that the program has, and closes both  *)
(* sockets.                                                                *)
Cleanup == IF gdb = "none" THEN gdb ELSE "closed"

(* The call itself.  exit's argument is its result.                        *)
HRunIt ==
    /\ HDoing("run")
    /\ CASE hcall = "gdbpacket" ->
              \E outcome \in GdbOutcomes(henv["out_size"]) :
                 /\ gdb' = outcome.gdb
                 /\ HAdvance([henv EXCEPT !["retval"] = outcome.retval,
                                          !["silent"] = outcome.silent])
                 /\ result' = outcome.retval
         [] hcall = "readdir" ->
              \E found \in 0..1 : \E namelen \in 1..MaxSize :
                 /\ HAdvance([henv EXCEPT !["found"] = found, !["namelen"] = namelen])
                 /\ result' = found
                 /\ UNCHANGED gdb
         [] hcall = "cdfs" ->
              HAdvance(henv) /\ result' = Answer(hcall, henv) /\ UNCHANGED gdb
         [] hcall = "exit" ->
              HAdvance(henv) /\ result' = Answer(hcall, henv) /\ gdb' = Cleanup
         [] OTHER ->
              \E retval \in {0, 1, MinusOne} :
                 /\ HAdvance([henv EXCEPT !["retval"] = retval])
                 /\ result' = retval
                 /\ UNCHANGED gdb
    /\ executed' = <<hcall, [param \in Params(hcall) |-> henv[param]]>>
    /\ done' = done + 1
    /\ UNCHANGED <<targetVars, toHost, toTarget, asked, answer>>

Host == HCommand \/ HRecv \/ HSend \/ HEcho \/ HData \/ HBlock \/ HAnswer \/ HRunIt

(* dc-tool is started again and in its console loop again, with a program  *)
(* running.                                                                *)
Restart == /\ tcall = "exited"
           /\ hcall = "gone"
           /\ tcall' = "idle"
           /\ hcall' = "loop"
           /\ gdb' \in OpenGdbSocket
           /\ gdStatus' = 0
           /\ UNCHANGED <<tpc, tenv, twait, hpc, henv, hwait, toHost, toTarget, history>>

Next == TCall \/ TLocal \/ Target \/ Host \/ Restart

Fairness == WF_vars(Target) /\ WF_vars(Host)

Spec == Init /\ [][Next]_vars /\ Fairness
-----------------------------------------------------------------------------
(* The types of both halves' variables and of what is on the line.         *)
TypeOK ==
    /\ tcall \in Calls \cup {"idle", "exited"}
    /\ hcall \in Calls \cup {"loop", "gone"}
    /\ tcall \in Calls => tpc \in 1..Len(TScript(tcall, tenv))
    /\ hcall \in Calls => hpc \in 1..Len(HScript(hcall, henv))
    /\ tenv \in [Values -> 0..MinusOne]
    /\ henv \in [Values -> 0..MinusOne]
    /\ twait \in BOOLEAN
    /\ hwait \in {"none", "echo", "answer"}
    /\ gdStatus \in {0, 2}
    /\ gdb \in {"none", "unbound", "listening", "connected", "lost", "closed"}
    /\ \A i \in DOMAIN toHost : Kind(toHost[i]) \in {"command", "word", "block", "good"}
    /\ \A i \in DOMAIN toTarget : Kind(toTarget[i]) \in {"word", "block", "good"}

(* The two halves of every call agree, step by step, although they are     *)
(* written in two programs: the next item on a line is the one its reader  *)
(* is about to take it for, the very field, and a block of the very size;  *)
(* and nothing is on the line for a half that is over.                     *)
HReads == LET item == Head(toHost) IN
    /\ hcall # "gone"
    /\ hcall = "loop" => Kind(item) = "command"
    /\ hwait = "echo" => item = Word(HField, ValueOf(henv, HField))
    /\ hwait = "answer" => item = Good
    /\ HDoing("recv") => Kind(item) = "word" /\ item[2] = HField
    /\ HDoing("data") /\ henv[HField] # 0 => item = Block(henv[HField])
TReads == LET item == Head(toTarget) IN
    /\ tcall \in Calls
    /\ twait => item = Good
    /\ TDoing("get") => Kind(item) = "word" /\ item[2] = TField
    /\ TDoing("load") /\ tenv[TField] # 0 => item = Block(tenv[TField])
HalvesAgree == /\ toHost # <<>> => HReads
               /\ toTarget # <<>> => TReads

(* Every call is carried out once, as the call it is, with the arguments   *)
(* it was made with, and returns what came of it.                          *)
Phase == IF hcall = "gone" THEN "over"
         ELSE IF tcall = "idle" THEN "idle"
         ELSE IF done = 0 THEN "called" ELSE "executed"
R == INSTANCE Rpc WITH phase <- Phase, call <- asked, Answers <- 0..MinusOne
RpcSpec == R!Spec

(* A call returns to the program, and the host to its loop; after exit the *)
(* host is gone.                                                           *)
CallReturns == /\ tcall \in Calls ~> tcall \in {"idle", "exited"}
               /\ hcall \in Calls ~> hcall \in {"loop", "gone"}
               /\ tcall = "exited" ~> hcall = "gone"
=============================================================================
