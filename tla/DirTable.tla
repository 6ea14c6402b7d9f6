------------------------------ MODULE DirTable ------------------------------
(***************************************************************************)
(* The host's table of open directories (host-src/tool/syscalls.c).  The   *)
(* target knows a directory by a handle, which is the number of its entry; *)
(* an entry without a directory is open for the next dc_opendir.  The host *)
(* handles one call at a time, so a handler is one step.                   *)
(*                                                                         *)
(* The program on the target is kept with the table: which directories it  *)
(* has opened and under which handles, and how far it has read in each.    *)
(***************************************************************************)
EXTENDS Integers

CONSTANTS Slots,     \* MAX_OPEN_DIRS entries, 0 to Slots - 1
          Offset,    \* DIRENT_OFFSET: the handle of entry 0
          MaxDirs,   \* bound: directories opened in a behaviour
          MaxEntry,  \* bound: entries of a directory
          Rewinds    \* the program goes on using a directory it has rewound

ASSUME DirTableAssumption ==
    /\ Slots \in Nat \ {0}
    /\ Offset \in Nat \ {0}
    /\ MaxDirs \in Nat
    /\ MaxEntry \in Nat
    /\ Rewinds \in BOOLEAN

VARIABLES opendirs,  \* host: the directory in each entry, 0 for none
          opened,    \* host: directories opened so far; each is a new one
          position,  \* operating system: entries read from each
          held,      \* program: what it has open, each a handle and directory
          seen       \* program: entries it has read of each directory

dirVars == <<opendirs, opened, position, held, seen>>

None == 0
Dirs == 1..MaxDirs
Entries == 0 .. (Slots - 1)
Handles == Offset .. (Offset + Slots - 1)
Holding(h, d) == [handle |-> h, dir |-> d]

NoDirs == /\ opendirs = [i \in Entries |-> None]
          /\ position = [d \in Dirs |-> 0]
          /\ held = {}
          /\ seen = [d \in Dirs |-> 0]
DirInit == NoDirs /\ opened = 0

HandleOf(i) == i + Offset
Entry(handle) == handle - Offset

FirstFreeAny(i) == i = 0  \* mutant: entry 0 is never passed over
FirstFree(i) == /\ opendirs[i] = None
                /\ \A j \in 0 .. (i - 1) : opendirs[j] # None

(* dc_opendir, and the operating system opens the directory.  If it does   *)
(* not, or if the table is full, the answer is 0 and nothing has changed.  *)
Opendir == /\ opened < MaxDirs
           /\ opened' = opened + 1
           /\ \E i \in Entries :
                 /\ FirstFree(i)
                 /\ opendirs' = [opendirs EXCEPT ![i] = opened + 1]
                 /\ held' = held \cup {Holding(HandleOf(i), opened + 1)}
           /\ UNCHANGED <<position, seen>>

CloseKeeps(i) == opendirs  \* mutant: the entry is not given back
CloseEntry(i) == [opendirs EXCEPT ![i] = None]

(* dc_closedir, for a handle the program holds.                            *)
Closedir == \E o \in held :
               /\ opendirs' = CloseEntry(Entry(o.handle))
               /\ held' = held \ {o}
               /\ UNCHANGED <<opened, position, seen>>

(* dc_readdir.                                                             *)
Readdir == \E o \in held :
              LET d == opendirs[Entry(o.handle)] IN
              /\ d # None
              /\ position[d] < MaxEntry
              /\ position' = [position EXCEPT ![d] = @ + 1]
              /\ seen' = [seen EXCEPT ![o.dir] = @ + 1]
              /\ UNCHANGED <<opendirs, opened, held>>

(* dc_rewinddir: the directory is rewound and its entry is given back, but *)
(* the directory stays open.                                               *)
Rewinddir == \E o \in held :
                LET d == opendirs[Entry(o.handle)] IN
                /\ d # None
                /\ position' = [position EXCEPT ![d] = 0]
                /\ opendirs' = CloseEntry(Entry(o.handle))
                /\ seen' = [seen EXCEPT ![o.dir] = 0]
                /\ held' = IF Rewinds THEN held ELSE held \ {o}
                /\ UNCHANGED opened

DirNext == Opendir \/ Closedir \/ Readdir \/ Rewinddir

DirSpec == DirInit /\ [][DirNext]_dirVars
-----------------------------------------------------------------------------
(* The types of the variables.                                             *)
DirTypeOK == /\ opendirs \in [Entries -> Dirs \cup {None}]
             /\ opened \in 0..MaxDirs
             /\ position \in [Dirs -> 0..MaxEntry]
             /\ held \subseteq [handle : Handles, dir : Dirs]
             /\ seen \in [Dirs -> 0..MaxEntry]

(* syscalls.c:382 "Find an open entry": the entry of a handle that the     *)
(* program holds is not open for another directory, it has the directory   *)
(* the program opened under that handle.                                   *)
HandleGood == \A o \in held : opendirs[Entry(o.handle)] = o.dir

(* Every entry that is taken is taken for a handle the program still       *)
(* holds: the 512 entries do not run out while fewer are in use.           *)
NoEntryLost == \A i \in Entries :
                  opendirs[i] # None => Holding(HandleOf(i), opendirs[i]) \in held

(* The program gets the entries of each directory one after another,       *)
(* whatever it does with its other directories in between.                 *)
ReadsInOrder == \A o \in held : seen[o.dir] = position[o.dir]
=============================================================================
