------------------------------ MODULE Session ------------------------------
(***************************************************************************)
(* dc-tool is started again and again, with one dcload on the other end of *)
(* the line: main, upload, download, execute and change_speed of dc-tool   *)
(* against main of dcload, which reads a command byte, sends it back and   *)
(* does what it says; and a program that dcload has been told to run.      *)
(*                                                                         *)
(* Everything on the line carries the speed it was sent at.  A reader at   *)
(* another speed would read something else: the model stops there.  Block  *)
(* transfers are one item and its answer (SendData and RecvData say how),  *)
(* and so are a program's system calls and CD reads (Console says how).    *)
(*                                                                         *)
(* When dc-tool is started, dcload is waiting for a command.               *)
(***************************************************************************)
EXTENDS Serial, Sequences

CONSTANT Invocations  \* the command lines dc-tool is started with, and the files

Check == 48879        \* what is sent, and sent back, at a new speed
WorkMem == 255        \* where the target may keep the compressor's memory
Found == 0            \* the settings the port had before dc-tool

(* An invocation: what CommandLine makes of the words; the file that -x,   *)
(* -u or -d names ("missing" is found out at once, "closed" when it is     *)
(* opened, "broken" when its ELF header is read); and bfd, that dc-tool is *)
(* built with libbfd instead of libelf.  With -E the cable's clock makes   *)
(* the speed asked for.                                                    *)
ASSUME SessionAssumption ==
    \A o \in Invocations :
        /\ o.command \in {"x", "u", "d", "none"}
        /\ o.speed \in Nat \ {0} /\ {o.address, o.size} \subseteq Nat
        /\ {o.console, o.dumbterm, o.quiet, o.cdfs_redir, o.speedhack, o.use_extclk,
            o.ended, o.bfd} \subseteq BOOLEAN
        /\ o.file.status \in {"missing", "closed", "broken", "good"}
        /\ o.file.kind \in {"elf", "raw"} /\ {o.file.entry, o.file.size} \subseteq Nat
        /\ o.file.sections \in Seq([addr : Nat, size : Nat, contents : BOOLEAN, load : BOOLEAN])

VARIABLES
    opts,       \* host: the command line
    hstate,     \* host: "main", "console", "dumb" or "gone"
    place,      \* host: the part of what main does
    hpc,        \* host: the next step of this part
    hwait,      \* host: what it waits for, "none", "echo" or "answer"
    hspeed,     \* host: the speed of its serial port
    port,       \* host: the settings of the port, a speed or Found
    oldtio,     \* host: the settings it keeps to put back
    tstate,     \* target: "idle", a command, "program" or "calling"
    tpc,        \* target: the next step of the command
    tenv,       \* target: what it has read for the command
    twait,      \* target: waiting for the answer to a block
    tspeed,     \* target: the speed of its serial port
    tconsole,   \* target: the console is enabled (0x8c004004)
    vector,     \* target: where CD calls go (0x8c0000bc), "bios" or "dcload"
    saved,      \* target: the vector that dcload keeps, "none" at first
    booted,     \* target: dcload has set up the screen
    screen,     \* target: whose screen it is, "dcload", "program" or "dump"
    loaded,     \* target: what has been loaded since dc-tool was started
    toTarget,   \* the line from the host to the target
    toHost      \* the line from the target to the host

portVars == <<hspeed, port, oldtio>>
hostVars == <<opts, hstate, place, hpc, hwait, portVars>>
cdVars == <<vector, saved>>
programVars == <<tconsole, cdVars, booted, screen, loaded>>
targetVars == <<tstate, tpc, tenv, twait, tspeed, programVars>>
vars == <<hostVars, targetVars, toTarget, toHost>>

Item(kind, value, speed) == [kind |-> kind, value |-> value, speed |-> speed]
-----------------------------------------------------------------------------
(* What dc-tool's main does, step by step: "command" writes a byte and     *)
(* reads it back, "uint" is send_uint, "recv" recv_uint, "data" send_data, *)
(* "fetch" recv_data, and "reopen" closes the port and opens it again.     *)
Step(do, value) == [do |-> do, value |-> value]

(* The speed that is left of the one asked for once it has been tried; the *)
(* initial one is not tried.                                               *)
Speed(o) == IF o.speed = Initial THEN Initial ELSE SupportedSpeed(o.speed)
Told(o, speed) == ToldSpeed(speed, o.speedhack, o.use_extclk)
ChangeSpeedOneWay(o, speed) ==  \* mutant: what is sent back is not read
    <<Step("command", "S"), Step("uint", Told(o, speed)), Step("reopen", speed),
      Step("uint", Check)>>
ChangeSpeed(o, speed) ==
    <<Step("command", "S"), Step("uint", Told(o, speed)), Step("reopen", speed),
      Step("uint", Check), Step("recv", Check)>>

(* What is uploaded of a file: the sections of an executable that have     *)
(* something to load, or a raw file as it is, at the address of -a.        *)
IsExecutable(o) == o.file.kind = "elf" /\ (o.bfd => o.file.status # "broken")
HasData(o, section) == /\ section.contents
                       /\ section.size # 0
                       /\ IF o.bfd THEN section.load ELSE section.addr # 0
RawFile(o) == [addr |-> o.address, size |-> o.file.size]
Sections(o) == IF IsExecutable(o) THEN o.file.sections ELSE <<RawFile(o)>>
ToUpload(o) ==
    {n \in DOMAIN Sections(o) : IsExecutable(o) => HasData(o, Sections(o)[n])}
Entry(o) == IF IsExecutable(o) THEN o.file.entry ELSE o.address

Upload(section) ==
    <<Step("command", "B"), Step("uint", section.addr), Step("uint", section.size),
      Step("data", section.size)>>

DownloadNoWorkMem(o) ==  \* mutant: the third argument is not sent
    <<Step("command", "F"), Step("uint", o.address), Step("uint", o.size),
      Step("fetch", o.size)>>
Download(o) ==
    <<Step("command", IF o.quiet THEN "G" ELSE "F"), Step("uint", o.address),
      Step("uint", o.size), Step("uint", WorkMem), Step("fetch", o.size)>>

Execute(o) ==
    <<Step("command", "A"), Step("uint", Entry(o)), Step("uint", IF o.console THEN 1 ELSE 0)>>

Redirect == <<Step("command", "H")>>

(* The parts of main, in their order, those that are left out passed over. *)
(* main goes no further than the options, and upload and download end      *)
(* dc-tool, when they cannot use the file.                                 *)
NotStarted(o) == o.ended \/ (o.command \in {"x", "u"} /\ o.file.status = "missing")
Unusable(o) ==
    CASE o.command = "d" -> o.size = 0 \/ o.file.status = "closed"
      [] o.command = "none" -> FALSE
      [] OTHER -> o.file.status = "closed" \/ (IsExecutable(o) /\ o.file.status = "broken")

Place(part, section) == [part |-> part, section |-> section]
End == Place("end", 0)
SpeedLeft == End  \* mutant: the speed is not put back
PutSpeedBack == Place("restore", 0)
FromUpload(o) == IF o.command = "x" THEN Place("execute", 0) ELSE PutSpeedBack
FromSection(o, n) ==
    LET later == {k \in ToUpload(o) : k > n}
    IN  IF later = {} THEN FromUpload(o)
        ELSE Place("upload", CHOOSE k \in later : \A j \in later : k <= j)
FromRedirect(o) ==
    IF Unusable(o) \/ o.command = "none" THEN End
    ELSE IF o.command = "d" THEN Place("download", 0)
    ELSE FromSection(o, 0)
FromSpeed(o) ==
    IF o.command = "x" /\ o.cdfs_redir THEN Place("redirect", 0) ELSE FromRedirect(o)
From(o) ==
    IF NotStarted(o) THEN End
    ELSE IF Speed(o) # Initial THEN Place("speed", 0)
    ELSE FromSpeed(o)
After(o, p) ==
    CASE p.part = "speed" -> FromSpeed(o)
      [] p.part = "redirect" -> FromRedirect(o)
      [] p.part = "upload" -> FromSection(o, p.section)
      [] p.part = "download" -> PutSpeedBack
      [] OTHER -> End

ScriptAt(o, p) ==
    CASE p.part = "speed" -> ChangeSpeed(o, Speed(o))
      [] p.part = "redirect" -> Redirect
      [] p.part = "upload" -> Upload(Sections(o)[p.section])
      [] p.part = "execute" -> Execute(o)
      [] p.part = "download" -> Download(o)
      [] p.part = "restore" -> ChangeSpeed(o, Initial)
HostScript == ScriptAt(opts, place)

(* Where main ends: in a loop of its own, or with the process.             *)
HostAfter(o) ==
    IF NotStarted(o) \/ Unusable(o) \/ o.command \notin {"x", "none"} THEN "gone"
    ELSE IF o.command = "x" /\ o.console THEN "console"
    ELSE IF o.dumbterm THEN "dumb"
    ELSE "gone"
-----------------------------------------------------------------------------
(* What dcload's main does for a command: "get" is get_uint, "put"         *)
(* put_uint, "load" load_data_block_general, "send" one of the two         *)
(* functions that send a block, "screen" sets the screen up if need be.    *)
(* A command that is not in the table resets the speed.                    *)
TScript(command) ==
    CASE command = "A" -> <<Step("screen", ""), Step("get", "addr"), Step("get", "console"),
                            Step("go", "")>>
      [] command = "B" -> <<Step("screen", ""), Step("get", "addr"), Step("get", "size"),
                            Step("load", "")>>
      [] command = "D" -> <<Step("screen", ""), Step("get", "addr"), Step("get", "size"),
                            Step("send", "")>>
      [] command = "E" -> <<Step("get", "addr"), Step("get", "size"), Step("send", "")>>
      [] command = "F" -> <<Step("screen", ""), Step("get", "addr"), Step("get", "size"),
                            Step("get", "wrkmem"), Step("send", "")>>
      [] command = "G" -> <<Step("get", "addr"), Step("get", "size"),
                            Step("get", "wrkmem"), Step("send", "")>>
      [] command = "H" -> <<Step("redirect", "")>>
      [] command = "S" -> <<Step("get", "speed"), Step("init", ""), Step("get", "check"),
                            Step("put", "check")>>
      [] command = "V" -> <<Step("name", "")>>
      [] OTHER -> <<Step("reset", "")>>

Commands == {"A", "B", "D", "E", "F", "G", "H", "S", "V"}
Fields == {"addr", "size", "console", "wrkmem", "speed", "check"}
Unread == [f \in Fields |-> 0]
-----------------------------------------------------------------------------
Init == /\ opts \in Invocations
        /\ hstate = "gone" /\ place = End /\ hpc = 1 /\ hwait = "none"
        /\ hspeed = Initial /\ port = Found /\ oldtio = Found
        /\ tstate = "idle" /\ tpc = 1 /\ tenv = Unread /\ twait = FALSE
        /\ tspeed = Rate(Initial)
        /\ tconsole = TRUE /\ vector = "bios" /\ saved = "bios"
        /\ booted = TRUE /\ screen = "dcload" /\ loaded = {}
        /\ toTarget = <<>> /\ toHost = <<>>

(* Reading, at the reader's own speed.                                     *)
HHas(kind) == toHost # <<>> /\ Head(toHost).kind = kind /\ Meets(Head(toHost).speed, hspeed)
THas(kind) == toTarget # <<>> /\ Head(toTarget).kind = kind /\ Meets(Head(toTarget).speed, tspeed)

HWrites(kind, value) == toTarget' = Append(toTarget, Item(kind, value, hspeed))
TWrites(kind, value) == toHost' = Append(toHost, Item(kind, value, tspeed))
-----------------------------------------------------------------------------
(* The host.                                                               *)

HDoing(do) == hstate = "main" /\ hwait = "none" /\ HostScript[hpc].do = do
HValue == HostScript[hpc].value

HAdvance == /\ hwait' = "none"
            /\ IF hpc < Len(HostScript)
               THEN hpc' = hpc + 1 /\ UNCHANGED <<place, hstate>>
               ELSE /\ hpc' = 1 /\ place' = After(opts, place)
                    /\ hstate' = IF place' = End THEN HostAfter(opts) ELSE "main"

(* The port is opened: the settings it has are kept and others made, of a  *)
(* speed that it supports.                                                 *)
OpenPortFirst(speed) ==  \* mutant: the settings are made before others are kept
    /\ hspeed' = SupportedSpeed(speed)
    /\ port' = hspeed'
    /\ oldtio' = port'
OpenPort(speed) == /\ hspeed' = SupportedSpeed(speed)
                   /\ oldtio' = port
                   /\ port' = hspeed'

(* dc-tool is started.  It opens the port at INITIAL_SPEED, and before at  *)
(* the speed asked for, to try it.                                         *)
Start == /\ hstate = "gone"
         /\ tstate = "idle"
         /\ opts' \in Invocations
         /\ hspeed' = SupportedSpeed(Initial)
         /\ port' = IF NotStarted(opts') THEN Found ELSE hspeed'
         /\ oldtio' = IF NotStarted(opts') \/ opts'.speed = Initial THEN Found
                      ELSE Speed(opts')
         /\ place' = From(opts')
         /\ hstate' = IF place' = End THEN HostAfter(opts') ELSE "main"
         /\ loaded' = {}
         /\ UNCHANGED <<hpc, hwait, tstate, tpc, tenv, twait, tspeed,
                        tconsole, cdVars, booted, screen, toTarget, toHost>>

HCommand == /\ HDoing("command")
            /\ HWrites("command", HValue)
            /\ hwait' = "echo"
            /\ UNCHANGED <<opts, hstate, place, hpc, portVars, targetVars, toHost>>

HUint == /\ HDoing("uint")
         /\ HWrites("uint", HValue)
         /\ hwait' = "echo"
         /\ UNCHANGED <<opts, hstate, place, hpc, portVars, targetVars, toHost>>

(* What comes back is not looked at.                                       *)
HEcho == /\ hstate = "main"
         /\ hwait = "echo"
         /\ HHas(IF HostScript[hpc].do = "command" THEN "command" ELSE "uint")
         /\ toHost' = Tail(toHost)
         /\ HAdvance
         /\ UNCHANGED <<opts, portVars, targetVars, toTarget>>

(* The port is closed and opened at another speed.  Nothing tells the host *)
(* that the target has changed its own; that takes it less time.           *)
HReopen == /\ HDoing("reopen")
           /\ tstate = "S" /\ TScript(tstate)[tpc].do # "init"
           /\ OpenPort(HValue)
           /\ HAdvance
           /\ UNCHANGED <<opts, targetVars, toTarget, toHost>>

HRecv == /\ HDoing("recv")
         /\ HHas("uint")
         /\ toHost' = Tail(toHost)
         /\ HAdvance
         /\ UNCHANGED <<opts, portVars, targetVars, toTarget>>

(* send_data of no bytes sends nothing.                                    *)
HData == /\ HDoing("data")
         /\ IF HValue = 0 THEN HAdvance /\ UNCHANGED toTarget
            ELSE /\ HWrites("block", HValue)
                 /\ hwait' = "answer"
                 /\ UNCHANGED <<hstate, place, hpc>>
         /\ UNCHANGED <<opts, portVars, targetVars, toHost>>

HAnswer == /\ hstate = "main"
           /\ hwait = "answer"
           /\ HHas("good")
           /\ toHost' = Tail(toHost)
           /\ HAdvance
           /\ UNCHANGED <<opts, portVars, targetVars, toTarget>>

HFetch == /\ HDoing("fetch")
          /\ HHas("block")
          /\ toHost' = Tail(toHost)
          /\ HWrites("good", 0)
          /\ HAdvance
          /\ UNCHANGED <<opts, portVars, targetVars>>

(* do_console: a call is handled, exit ends dc-tool, which puts back the   *)
(* settings of the port that it has kept (dc_exit, finish_serial).         *)
HServe == /\ hstate = "console"
          /\ HHas("call")
          /\ toHost' = Tail(toHost)
          /\ HWrites("reply", 0)
          /\ UNCHANGED <<hostVars, targetVars>>

FinishSerialNot == UNCHANGED port  \* mutant: the port stays as dc-tool has set it
FinishSerial == port' = oldtio
HExit == /\ hstate = "console"
         /\ HHas("exit")
         /\ toHost' = Tail(toHost)
         /\ hstate' = "gone"
         /\ FinishSerial
         /\ UNCHANGED <<opts, place, hpc, hwait, hspeed, oldtio, targetVars, toTarget>>

Host == HCommand \/ HUint \/ HEcho \/ HReopen \/ HRecv \/ HData \/ HAnswer \/ HFetch
        \/ HServe \/ HExit

(* Dumb terminal mode has no end of its own; a console whose program is    *)
(* not there any more is ended by its user too.                            *)
Interrupt == /\ hstate = "dumb" \/ (hstate = "console" /\ tstate = "idle" /\ toHost = <<>>)
             /\ hstate' = "gone"
             /\ UNCHANGED <<opts, place, hpc, hwait, portVars, targetVars, toTarget, toHost>>
-----------------------------------------------------------------------------
(* The target.                                                             *)

TDoing(do) == tstate \in Commands /\ ~twait /\ TScript(tstate)[tpc].do = do

TAdvanceOnePast ==  \* mutant: off by one
    /\ twait' = FALSE
    /\ IF tpc <= Len(TScript(tstate))
       THEN tpc' = tpc + 1 /\ UNCHANGED tstate
       ELSE tpc' = 1 /\ tstate' = "idle"
TAdvance == /\ twait' = FALSE
            /\ IF tpc < Len(TScript(tstate))
               THEN tpc' = tpc + 1 /\ UNCHANGED tstate
               ELSE tpc' = 1 /\ tstate' = "idle"

(* main reads a command and sends it back.  A command that is not in its   *)
(* table resets the speed at once.                                         *)
TCommand == /\ tstate = "idle"
            /\ THas("command")
            /\ toTarget' = Tail(toTarget)
            /\ TWrites("command", Head(toTarget).value)
            /\ tenv' = Unread
            /\ IF Head(toTarget).value \in Commands
               THEN tstate' = Head(toTarget).value /\ UNCHANGED tspeed
               ELSE tspeed' = Rate(Initial) /\ UNCHANGED tstate
            /\ UNCHANGED <<hostVars, tpc, twait, programVars>>

TScreen == /\ TDoing("screen")
           /\ booted' = TRUE
           /\ screen' = IF booted THEN screen ELSE "dcload"
           /\ TAdvance
           /\ UNCHANGED <<hostVars, tenv, tspeed, tconsole, cdVars, loaded, toTarget, toHost>>

TGet == /\ TDoing("get")
        /\ THas("uint")
        /\ toTarget' = Tail(toTarget)
        /\ TWrites("uint", Head(toTarget).value)
        /\ tenv' = [tenv EXCEPT ![TScript(tstate)[tpc].value] = Head(toTarget).value]
        /\ TAdvance
        /\ UNCHANGED <<hostVars, tspeed, programVars>>

TPut == /\ TDoing("put")
        /\ TWrites("uint", tenv[TScript(tstate)[tpc].value])
        /\ TAdvance
        /\ UNCHANGED <<hostVars, tenv, tspeed, programVars, toTarget>>

TLoad == /\ TDoing("load")
         /\ IF tenv.size = 0 THEN UNCHANGED <<toTarget, toHost>>
            ELSE /\ THas("block")
                 /\ toTarget' = Tail(toTarget)
                 /\ TWrites("good", 0)
         /\ loaded' = loaded \cup {<<tenv.addr, tenv.size>>}
         /\ TAdvance
         /\ UNCHANGED <<hostVars, tenv, tspeed, tconsole, cdVars, booted, screen>>

TSend == /\ TDoing("send")
         /\ TWrites("block", tenv.size)
         /\ twait' = TRUE
         /\ UNCHANGED <<hostVars, tstate, tpc, tenv, tspeed, programVars, toTarget>>

TAnswer == /\ tstate \in Commands
           /\ twait
           /\ THas("good")
           /\ toTarget' = Tail(toTarget)
           /\ TAdvance
           /\ UNCHANGED <<hostVars, tenv, tspeed, programVars, toHost>>

TRedirect == /\ TDoing("redirect")
             /\ vector' = "dcload"
             /\ TAdvance
             /\ UNCHANGED <<hostVars, tenv, tspeed, tconsole, saved, booted, screen, loaded,
                            toTarget, toHost>>

(* scif_flush lets what was written go out; scif_init empties the receive  *)
(* FIFO.                                                                   *)
TInit == /\ TDoing("init")
         /\ tspeed' = IF tenv.speed = External THEN SupportedSpeed(opts.speed)
                       ELSE Rate(tenv.speed)
         /\ toTarget' = <<>>
         /\ TAdvance
         /\ UNCHANGED <<hostVars, tenv, programVars, toHost>>

(* go: from here on the screen is the program's.                           *)
TGo == /\ TDoing("go")
       /\ tconsole' = (tenv.console # 0)
       /\ screen' = "program"
       /\ tstate' = "program"
       /\ tpc' = 1
       /\ UNCHANGED <<hostVars, tenv, twait, tspeed, cdVars, booted, loaded, toTarget, toHost>>

Target == TCommand \/ TScreen \/ TGet \/ TPut \/ TLoad \/ TSend \/ TAnswer
          \/ TRedirect \/ TInit \/ TGo
-----------------------------------------------------------------------------
(* The program.  Its library makes a system call only if dcload's magic    *)
(* word is there, that is, if the console is enabled; a CD read is made if *)
(* it is redirected.                                                       *)
WrappedAlways == TRUE  \* mutant: the word is not looked at
Wrapped == tconsole
ProgramCall == /\ tstate = "program"
               /\ Wrapped \/ vector = "dcload"
               /\ TWrites("call", 0)
               /\ tstate' = "calling"
               /\ UNCHANGED <<hostVars, tpc, tenv, twait, tspeed, programVars, toTarget>>

ProgramReply == /\ tstate = "calling"
                /\ THas("reply")
                /\ toTarget' = Tail(toTarget)
                /\ tstate' = "program"
                /\ UNCHANGED <<hostVars, tpc, tenv, twait, tspeed, programVars, toHost>>

(* main starts: dcload's memory is as it was left, or as it was loaded.    *)
(* The vector is saved the first time only, and then put back.  A screen   *)
(* that was set up is somebody else's now, and is set up again when        *)
(* something is to be drawn.                                               *)
SaveVectorAlways(v) == v  \* mutant: what is saved may be dcload's own
SaveVector(v) == IF saved = "none" THEN v ELSE saved
ScreenKept(now) == booted' = TRUE /\ screen' = now  \* mutant: the flag is not turned over
ScreenAtStart(now) == /\ booted' = ~booted
                      /\ screen' = IF booted THEN now ELSE "dcload"
MainStarts(now) == /\ tstate' = "idle"
                   /\ tpc' = 1
                   /\ twait' = FALSE
                   /\ tspeed' = Rate(Initial)
                   /\ toTarget' = <<>>
                   /\ saved' = SaveVector(vector)
                   /\ vector' = saved'
                   /\ ScreenAtStart(now)

(* The program calls exit, if the console is enabled, and goes back to     *)
(* dcload.                                                                 *)
ProgramExit == IF Wrapped THEN TWrites("exit", 0) ELSE UNCHANGED toHost
ProgramEnd == /\ tstate = "program"
              /\ ProgramExit
              /\ MainStarts(screen)
              /\ UNCHANGED <<hostVars, tenv, tconsole, loaded>>

(* An exception: its handler draws the registers on a screen of its own    *)
(* and goes back to dcload, without a word to the host.                    *)
ProgramFault == /\ tstate = "program"
                /\ MainStarts("dump")
                /\ UNCHANGED <<hostVars, tenv, tconsole, loaded, toHost>>

(* The target is switched off and on, and dcload loaded from its CD, while *)
(* dc-tool is not at work.  Everything is as it was compiled.              *)
Boot == /\ hstate # "main"
        /\ tstate \in {"idle", "program"}
        /\ toHost = <<>>
        /\ tstate' = "idle" /\ tpc' = 1 /\ twait' = FALSE /\ tspeed' = Rate(Initial)
        /\ tconsole' = TRUE
        /\ vector' = "bios" /\ saved' = "bios"
        /\ booted' = TRUE /\ screen' = "dcload"
        /\ toTarget' = <<>>
        /\ UNCHANGED <<hostVars, tenv, loaded, toHost>>

Program == ProgramCall \/ ProgramEnd \/ ProgramFault

Next == Start \/ Host \/ Interrupt \/ Target \/ Program \/ ProgramReply \/ Boot

Fairness == WF_vars(Host) /\ WF_vars(Target)

Spec == Init /\ [][Next]_vars /\ Fairness
-----------------------------------------------------------------------------
(* The types of the variables.                                             *)
TypeOK ==
    /\ opts \in Invocations
    /\ hstate \in {"main", "console", "dumb", "gone"}
    /\ hstate = "main" => hpc \in 1..Len(HostScript)
    /\ hwait \in {"none", "echo", "answer"}
    /\ tstate \in Commands \cup {"idle", "program", "calling"}
    /\ tstate \in Commands => tpc \in 1..Len(TScript(tstate))
    /\ tenv \in [Fields -> Nat]
    /\ {twait, tconsole, booted} \subseteq BOOLEAN
    /\ {hspeed, tspeed} \subseteq Nat \ {0}
    /\ {port, oldtio} \subseteq Nat
    /\ vector \in {"bios", "dcload"} /\ saved \in {"none", "bios", "dcload"}
    /\ screen \in {"dcload", "program", "dump"}
    /\ loaded \subseteq Nat \X Nat

(* The two mains agree step by step on what comes next and on the speed:   *)
(* the next item on a line is of the kind its reader is about to read, and *)
(* was sent at the reader's speed.                                         *)
HReads == LET kind == Head(toHost).kind IN
    /\ hstate \in {"main", "console"}
    /\ hstate = "console" => kind \in {"call", "exit"}
    /\ hstate = "main" /\ hwait = "answer" => kind = "good"
    /\ hstate = "main" /\ hwait = "echo" =>
          /\ kind = IF HostScript[hpc].do = "command" THEN "command" ELSE "uint"
          /\ Head(toHost).value = HValue
    /\ HDoing("recv") => kind = "uint" /\ Head(toHost).value = HValue
    /\ HDoing("fetch") => kind = "block"
TReads == LET kind == Head(toTarget).kind IN
    /\ tstate # "program"
    /\ tstate = "idle" => kind = "command" /\ Head(toTarget).value \in Commands
    /\ tstate = "calling" => kind = "reply"
    /\ twait => kind = "good"
    /\ TDoing("get") => kind = "uint"
    /\ TDoing("load") /\ tenv.size # 0 => kind = "block"
MainsAgree == /\ toHost # <<>> => HReads /\ Meets(Head(toHost).speed, hspeed)
              /\ toTarget # <<>> => TReads /\ Meets(Head(toTarget).speed, tspeed)

(* When dc-tool has ended and dcload is waiting for a command, it waits at *)
(* the speed that the next dc-tool begins with, CD calls go where they go  *)
(* without dcload, for a next dc-tool that has no image to read, and the   *)
(* lines are empty.                                                        *)
LeftReady == hstate = "gone" /\ tstate = "idle" =>
             /\ Meets(Initial, tspeed)
             /\ vector = "bios"
             /\ toHost = <<>> /\ toTarget = <<>>

(* A program's call to the host finds do_console there to answer it, or on *)
(* its way.                                                                *)
CallServed ==
    tstate = "calling" =>
       \/ hstate = "console"
       \/ hstate = "main" /\ HostAfter(opts) = "console"

(* A program runs from its entry with everything loaded that its file has  *)
(* to load and nothing else, with its console enabled just if do_console   *)
(* is what dc-tool goes on to, and with CD reads redirected just if there  *)
(* is an image to read.                                                    *)
RunsAsAsked == tstate \in {"program", "calling"} =>
               /\ tenv.addr = Entry(opts)
               /\ loaded = {<<Sections(opts)[n].addr, Sections(opts)[n].size>> : n \in ToUpload(opts)}
               /\ tconsole = opts.console
               /\ (vector = "dcload") = opts.cdfs_redir

(* dcload draws, on the screen it thinks it has set up, only when it is    *)
(* its own: the flag survives a program, and is turned over at each start  *)
(* of main.                                                                *)
OwnScreen == tstate # "program" /\ tstate # "calling" /\ booted => screen = "dcload"

(* A program that ends ends dc-tool, which puts back the settings kept at  *)
(* the last opening of the port.  These are the ones dc-tool found only at *)
(* the initial speed, at which the port is opened once: with any other     *)
(* speed set_io_speed has kept, at each opening after the first, settings  *)
(* of dc-tool's own, and the ones for the initial speed come back.         *)
PortPutBack == [][hstate = "console" /\ hstate' = "gone" /\ toHost # toHost' =>
                  port' = IF opts.speed = Initial THEN Found ELSE SupportedSpeed(Initial)]_vars

(* What dc-tool is asked to do it gets done.                               *)
MainEnds == hstate = "main" ~> hstate # "main"
=============================================================================
