--------------------------- MODULE DirTableProofs ---------------------------
(***************************************************************************)
(* For a table of any size: as long as the program does not use a          *)
(* directory again that it has rewound, a handle names its directory, no   *)
(* entry is lost and directories are read in order.  The strengthening is  *)
(* small: what has been read of a directory is its position for every      *)
(* directory, open or not, because a directory opened next must start with *)
(* the two equal.                                                          *)
(***************************************************************************)
EXTENDS DirTable, TLAPS

IInv == /\ DirTypeOK
        /\ HandleGood
        /\ NoEntryLost
        /\ seen = position

(* Handle and entry are each other's inverse.                              *)
LEMMA HandleEntry ==
    /\ \A i \in Entries : HandleOf(i) \in Handles /\ Entry(HandleOf(i)) = i
    /\ \A h \in Handles : Entry(h) \in Entries /\ HandleOf(Entry(h)) = h
BY DirTableAssumption DEF Entries, Handles, HandleOf, Entry

LEMMA Initially == DirInit => IInv
BY DirTableAssumption DEF DirInit, NoDirs, IInv, DirTypeOK, HandleGood, NoEntryLost,
    Dirs, Entries, None

(* dc_opendir takes an entry that no held handle names.                    *)
LEMMA OpendirKeeps == IInv /\ Opendir => IInv'
<1> SUFFICES ASSUME IInv, Opendir PROVE IInv'
    OBVIOUS
<1> DEFINE d == opened + 1
<1>1. d \in Dirs /\ d # None
    BY DirTableAssumption DEF IInv, DirTypeOK, Opendir, Dirs, None
<1>2. PICK i \in Entries : /\ opendirs[i] = None
                           /\ opendirs' = [opendirs EXCEPT ![i] = d]
                           /\ held' = held \cup {Holding(HandleOf(i), d)}
    BY DEF Opendir, FirstFree
<1>3. DirTypeOK'
  <2>1. opendirs' \in [Entries -> Dirs \cup {None}]
      BY <1>1, <1>2 DEF IInv, DirTypeOK
  <2>2. opened' \in 0..MaxDirs
      BY DirTableAssumption DEF IInv, DirTypeOK, Opendir
  <2>3. held' \subseteq [handle : Handles, dir : Dirs]
      BY <1>1, <1>2, HandleEntry DEF IInv, DirTypeOK, Holding
  <2> QED BY <2>1, <2>2, <2>3 DEF IInv, DirTypeOK, Opendir
<1>4. HandleGood'
  <2> SUFFICES ASSUME NEW o \in held' PROVE opendirs'[Entry(o.handle)] = o.dir
      BY DEF HandleGood
  <2>1. CASE o = Holding(HandleOf(i), d)
      BY <2>1, <1>2, HandleEntry DEF Holding, IInv, DirTypeOK
  <2>2. CASE o \in held
    <3>1. Entry(o.handle) \in Entries /\ opendirs[Entry(o.handle)] = o.dir
        BY <2>2, HandleEntry DEF IInv, HandleGood, DirTypeOK
    <3>2. o.dir # None
        BY <2>2, DirTableAssumption DEF IInv, DirTypeOK, Dirs, None
    <3> QED BY <1>2, <3>1, <3>2 DEF IInv, DirTypeOK
  <2> QED BY <1>2, <2>1, <2>2
<1>5. NoEntryLost'
  <2> SUFFICES ASSUME NEW j \in Entries, opendirs'[j] # None
               PROVE Holding(HandleOf(j), opendirs'[j]) \in held'
      BY DEF NoEntryLost
  <2>1. CASE j = i
      BY <2>1, <1>2 DEF IInv, DirTypeOK
  <2>2. CASE j # i
      BY <2>2, <1>2 DEF IInv, DirTypeOK, NoEntryLost
  <2> QED BY <2>1, <2>2
<1> QED BY <1>3, <1>4, <1>5 DEF IInv, Opendir

(* An entry is given back together with the only handle for it.            *)
LEMMA ReleaseKeeps ==
    ASSUME IInv, NEW o \in held,
           opendirs' = CloseEntry(Entry(o.handle)), held' = held \ {o}
    PROVE  /\ opendirs' \in [Entries -> Dirs \cup {None}]
           /\ held' \subseteq [handle : Handles, dir : Dirs]
           /\ HandleGood'
           /\ NoEntryLost'
<1>1. /\ opendirs' \in [Entries -> Dirs \cup {None}]
      /\ held' \subseteq [handle : Handles, dir : Dirs]
    BY DEF IInv, DirTypeOK, CloseEntry
<1>2. HandleGood'
  <2> SUFFICES ASSUME NEW p \in held, p # o
               PROVE opendirs'[Entry(p.handle)] = p.dir
      BY DEF HandleGood
  <2>1. p \in [handle : Handles, dir : Dirs] /\ o \in [handle : Handles, dir : Dirs]
      BY DEF IInv, DirTypeOK
  <2>2. opendirs[Entry(p.handle)] = p.dir /\ opendirs[Entry(o.handle)] = o.dir
      BY DEF IInv, HandleGood
  <2>3. Entry(p.handle) # Entry(o.handle)
    <3> SUFFICES ASSUME Entry(p.handle) = Entry(o.handle) PROVE FALSE
        OBVIOUS
    <3>1. p.handle = o.handle
        BY <2>1, HandleEntry
    <3>2. p.dir = o.dir
        BY <2>2
    <3> QED BY <2>1, <3>1, <3>2
  <2> QED BY <2>1, <2>2, <2>3, HandleEntry DEF IInv, DirTypeOK, CloseEntry
<1>3. NoEntryLost'
  <2> SUFFICES ASSUME NEW j \in Entries, opendirs'[j] # None
               PROVE Holding(HandleOf(j), opendirs'[j]) \in held'
      BY DEF NoEntryLost
  <2>1. j # Entry(o.handle) /\ opendirs'[j] = opendirs[j]
      BY DEF IInv, DirTypeOK, CloseEntry
  <2>2. Holding(HandleOf(j), opendirs[j]) \in held
      BY <2>1 DEF IInv, NoEntryLost
  <2>3. Holding(HandleOf(j), opendirs[j]).handle = HandleOf(j)
      BY DEF Holding
  <2> QED BY <2>1, <2>2, <2>3, HandleEntry
<1> QED BY <1>1, <1>2, <1>3

LEMMA ClosedirKeeps == IInv /\ Closedir => IInv'
<1> SUFFICES ASSUME IInv, Closedir PROVE IInv'
    OBVIOUS
<1>1. PICK o \in held : opendirs' = CloseEntry(Entry(o.handle)) /\ held' = held \ {o}
    BY DEF Closedir
<1> QED BY <1>1, ReleaseKeeps DEF IInv, DirTypeOK, Closedir

(* The directory that is read is the one the program takes it for.         *)
LEMMA ReaddirKeeps == IInv /\ Readdir => IInv'
<1> SUFFICES ASSUME IInv, Readdir PROVE IInv'
    OBVIOUS
<1>1. PICK o \in held :
          /\ position[opendirs[Entry(o.handle)]] < MaxEntry
          /\ position' = [position EXCEPT ![opendirs[Entry(o.handle)]] = @ + 1]
          /\ seen' = [seen EXCEPT ![o.dir] = @ + 1]
    BY DEF Readdir
<1>2. opendirs[Entry(o.handle)] = o.dir /\ o.dir \in Dirs
    BY DEF IInv, DirTypeOK, HandleGood
<1>3. seen' = position'
    BY <1>1, <1>2 DEF IInv
<1>4. position' \in [Dirs -> 0..MaxEntry]
    BY <1>1, <1>2, DirTableAssumption DEF IInv, DirTypeOK
<1> QED BY <1>3, <1>4 DEF IInv, DirTypeOK, HandleGood, NoEntryLost, Readdir

(* A rewound directory starts over, and its handle is not used again.      *)
LEMMA RewinddirKeeps == ~Rewinds /\ IInv /\ Rewinddir => IInv'
<1> SUFFICES ASSUME ~Rewinds, IInv, Rewinddir PROVE IInv'
    OBVIOUS
<1>1. PICK o \in held :
          /\ opendirs' = CloseEntry(Entry(o.handle))
          /\ held' = held \ {o}
          /\ position' = [position EXCEPT ![opendirs[Entry(o.handle)]] = 0]
          /\ seen' = [seen EXCEPT ![o.dir] = 0]
    BY DEF Rewinddir
<1>2. opendirs[Entry(o.handle)] = o.dir /\ o.dir \in Dirs
    BY DEF IInv, DirTypeOK, HandleGood
<1>3. seen' = position'
    BY <1>1, <1>2 DEF IInv
<1>4. position' \in [Dirs -> 0..MaxEntry]
    BY <1>1, <1>2, DirTableAssumption DEF IInv, DirTypeOK
<1> QED BY <1>1, <1>3, <1>4, ReleaseKeeps DEF IInv, DirTypeOK, Rewinddir

(* The invariant, for a program that leaves a rewound directory alone.     *)
THEOREM TableInvariant == ASSUME ~Rewinds PROVE DirSpec => []IInv
<1>1. IInv /\ [DirNext]_dirVars => IInv'
  <2> SUFFICES ASSUME IInv, [DirNext]_dirVars PROVE IInv'
      OBVIOUS
  <2>1. CASE Opendir BY <2>1, OpendirKeeps
  <2>2. CASE Closedir BY <2>2, ClosedirKeeps
  <2>3. CASE Readdir BY <2>3, ReaddirKeeps
  <2>4. CASE Rewinddir BY <2>4, RewinddirKeeps
  <2>5. CASE UNCHANGED dirVars
      BY <2>5 DEF dirVars, IInv, DirTypeOK, HandleGood, NoEntryLost
  <2> QED BY <2>1, <2>2, <2>3, <2>4, <2>5 DEF DirNext
<1> QED BY <1>1, Initially, PTL DEF DirSpec

(* A handle the program holds names the directory it was opened for, with  *)
(* any number of entries and however opens and closes alternate.           *)
THEOREM HandlesGood == ASSUME ~Rewinds PROVE DirSpec => []HandleGood
<1>1. IInv => HandleGood
    BY DEF IInv
<1> QED BY <1>1, TableInvariant, PTL

(* No entry is taken without a handle the program holds.                   *)
THEOREM NoneLost == ASSUME ~Rewinds PROVE DirSpec => []NoEntryLost
<1>1. IInv => NoEntryLost
    BY DEF IInv
<1> QED BY <1>1, TableInvariant, PTL

(* Directories are read in order, independently of each other.             *)
THEOREM InOrder == ASSUME ~Rewinds PROVE DirSpec => []ReadsInOrder
<1>1. IInv => ReadsInOrder
    BY DEF IInv, ReadsInOrder
<1> QED BY <1>1, TableInvariant, PTL
=============================================================================
