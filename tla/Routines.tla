------------------------------ MODULE Routines ------------------------------
(***************************************************************************)
(* The parts of both programs that run by themselves: the compressor and   *)
(* its two decompressors, the memory routines, the exception handler, the  *)
(* screen, the start of dcload, the reading of the command line and the    *)
(* table of open directories.  A behaviour runs one of them.               *)
(***************************************************************************)
EXTENDS Lzo, LzoSafe, LzoConfig, Memory, Exception, Screen, Boot, CommandLine,
        DirTable

CONSTANT Typed      \* command lines: [intents, words]

VARIABLES
    typed,      \* the command line
    reading     \* how far main has read it

optionVars == <<typed, reading>>
displayVars == <<exceptionVars, screenVars>>
streamVars == <<safeVars, configVars>>
restVars == <<bootVars, dirVars>>
routineVars == <<lzoVars, streamVars, memoryVars, displayVars, restVars, optionVars>>

(* The loop of main around getopt.                                         *)
ReadOption ==
    /\ ~reading.over
    /\ reading' = Turn(typed.words, reading)
    /\ UNCHANGED typed

-----------------------------------------------------------------------------
(* Each of them while another one runs.                                    *)
NoBlock ==
    /\ source = <<>> /\ out = <<>> /\ dst = <<>> /\ reach = [read |-> 0, written |-> 0]
    /\ packer = [Packing EXCEPT !.pc = "done"] /\ unpacker = [Unpacking EXCEPT !.pc = "ok"]
NoStream ==
    /\ received = [stream |-> <<>>, whole |-> <<>>, room |-> 0, source |-> <<>>]
    /\ dec = [Unpacking EXCEPT !.pc = "ok"] /\ got = <<>>
NoConfig ==
    /\ build = [library |-> "none"] /\ found = "nothing" /\ union = <<>> /\ agrees = TRUE /\ test = 0
    /\ checked = "never"
NoCall == Called([name |-> "done", to |-> 0, from |-> 0, n |-> 0, m |-> <<>>])
NoException ==
    /\ expevt = 0 /\ bank = 0 /\ pc = "none" /\ column = 1
    /\ cpu = <<>> /\ dump = <<>> /\ pushed = <<>> /\ screen = {}
NoScreen ==
    /\ show = [port |-> 0, mode |-> 0, progress |-> <<>>] /\ shown = 0 /\ todo = <<>>
    /\ regs = <<>> /\ vram = {}
NoBoot ==
    /\ image = [data |-> 0, end |-> 0, exception |-> 0] /\ part = "off" /\ program = "none"
    /\ memory = <<>> /\ cache = "off" /\ dirty = <<>> /\ fetched = {}
NothingOpen == NoDirs /\ opened = MaxDirs
NoCommandLine ==
    /\ typed = [intents |-> <<>>, words |-> <<>>]
    /\ reading = [Unread EXCEPT !.over = TRUE, !.vars.ended = TRUE]

(* Each of them takes its turn alone: the others have nothing to do.       *)
Init ==
    \/ /\ LzoInit
       /\ NoStream /\ NoConfig /\ NoCall /\ NoException
       /\ NoScreen /\ NoBoot /\ NothingOpen /\ NoCommandLine
    \/ /\ SafeInit
       /\ NoBlock /\ NoConfig /\ NoCall /\ NoException
       /\ NoScreen /\ NoBoot /\ NothingOpen /\ NoCommandLine
    \/ /\ ConfigInit
       /\ NoBlock /\ NoStream /\ NoCall /\ NoException
       /\ NoScreen /\ NoBoot /\ NothingOpen /\ NoCommandLine
    \/ /\ MemoryInit
       /\ NoBlock /\ NoStream /\ NoConfig /\ NoException
       /\ NoScreen /\ NoBoot /\ NothingOpen /\ NoCommandLine
    \/ /\ ExceptionInit
       /\ NoBlock /\ NoStream /\ NoConfig /\ NoCall
       /\ NoScreen /\ NoBoot /\ NothingOpen /\ NoCommandLine
    \/ /\ ScreenInit
       /\ NoBlock /\ NoStream /\ NoConfig /\ NoCall
       /\ NoException /\ NoBoot /\ NothingOpen /\ NoCommandLine
    \/ /\ BootInit
       /\ NoBlock /\ NoStream /\ NoConfig /\ NoCall
       /\ NoException /\ NoScreen /\ NothingOpen /\ NoCommandLine
    \/ /\ DirInit
       /\ NoBlock /\ NoStream /\ NoConfig /\ NoCall
       /\ NoException /\ NoScreen /\ NoBoot /\ NoCommandLine
    \/ /\ typed \in Typed /\ reading = Unread
       /\ NoBlock /\ NoStream /\ NoConfig /\ NoCall
       /\ NoException /\ NoScreen /\ NoBoot /\ NothingOpen

Next ==
    \/ LzoNext /\ UNCHANGED <<streamVars, memoryVars, displayVars, restVars, optionVars>>
    \/ SafeNext /\ UNCHANGED <<lzoVars, configVars, memoryVars, displayVars, restVars, optionVars>>
    \/ ConfigNext /\ UNCHANGED <<lzoVars, safeVars, memoryVars, displayVars, restVars, optionVars>>
    \/ MemoryNext /\ UNCHANGED <<lzoVars, streamVars, displayVars, restVars, optionVars>>
    \/ ExceptionNext /\ UNCHANGED <<lzoVars, streamVars, memoryVars, screenVars, restVars, optionVars>>
    \/ ScreenNext /\ UNCHANGED <<lzoVars, streamVars, memoryVars, exceptionVars, restVars, optionVars>>
    \/ BootNext /\ UNCHANGED <<lzoVars, streamVars, memoryVars, displayVars, dirVars, optionVars>>
    \/ DirNext /\ UNCHANGED <<lzoVars, streamVars, memoryVars, displayVars, bootVars, optionVars>>
    \/ ReadOption /\ UNCHANGED <<lzoVars, streamVars, memoryVars, displayVars, restVars>>

Spec == Init /\ [][Next]_routineVars /\ WF_routineVars(Next)

-----------------------------------------------------------------------------
(* Each of them that returns comes to its end: no loop runs past the end   *)
(* it compares with for equality, no probe and no instruction of a stream  *)
(* is passed twice, and a stream that is damaged is left one way or        *)
(* another.                                                                *)
Returns ==
    <>(/\ unpacker.pc = "ok"
       /\ dec.pc \in {"ok", "error", "input overrun", "output overrun", "lookbehind overrun"}
       /\ checked \notin {"not compiled", "identified", "processor", "measured", "not yet"} /\ At("done") /\ pc \in {"none", "done"}
       /\ todo = <<>> /\ reading.over)

(* main has understood what the user wants, whichever way it was written   *)
(* down: letters in one word or several, arguments joined to them or not.  *)
OptionsUnderstood == reading.over => reading.vars = Meant(typed.intents)
=============================================================================
