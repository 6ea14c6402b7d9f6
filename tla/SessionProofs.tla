--------------------------- MODULE SessionProofs ---------------------------
(***************************************************************************)
(* Proofs about Session, for every set of command lines and files and      *)
(* every set of speeds the host knows: that its variables have their       *)
(* types, whose screen it is, and what is put back, for which the two      *)
(* mains need not agree; and then that they do.                            *)
(***************************************************************************)
EXTENDS Session, SequenceTheorems, WellFoundedInduction, TLAPS

(* Where main of dc-tool can be, for its command line.                     *)
Started(o) == ~NotStarted(o)
Usable(o) == Started(o) /\ ~Unusable(o)
Placed(o, p) ==
    \/ p = Place("speed", 0) /\ Started(o) /\ Speed(o) # Initial
    \/ p = Place("redirect", 0) /\ Started(o) /\ o.command = "x" /\ o.cdfs_redir
    \/ /\ \E n \in ToUpload(o) : p = Place("upload", n)
       /\ Usable(o) /\ o.command \in {"x", "u"}
    \/ p = Place("execute", 0) /\ Usable(o) /\ o.command = "x"
    \/ p = Place("download", 0) /\ Usable(o) /\ o.command = "d"
    \/ p = PutSpeedBack /\ Usable(o) /\ o.command \in {"u", "d"}

(* What the target can find on the line: a number where it reads one.      *)
Kinds == {"command", "uint", "block", "good", "reply"}
Items == [kind : Kinds, value : Nat \cup Commands, speed : Nat]
Numeric == \A i \in 1 .. Len(toTarget) : toTarget[i].kind = "uint" => toTarget[i].value \in Nat

LineTyped == toTarget \in Seq(Items) /\ Numeric

(* The variables have their types, and a program counter that is not in    *)
(* use is at the beginning.                                                *)
HostTyped ==
    /\ opts \in Invocations
    /\ hstate \in {"main", "console", "dumb", "gone"}
    /\ hstate = "main" => Placed(opts, place) /\ hpc \in 1 .. Len(HostScript)
    /\ hstate # "main" => hpc = 1 /\ hwait = "none"
    /\ hwait \in {"none", "echo", "answer"}
    /\ hspeed \in Nat \ {0}
    /\ port \in Nat /\ oldtio \in Nat

Stepping ==
    /\ tstate \in Commands \cup {"idle", "program", "calling"}
    /\ tstate \in Commands => tpc \in 1 .. Len(TScript(tstate))
    /\ tstate \notin Commands => tpc = 1 /\ twait = FALSE
    /\ twait \in BOOLEAN
Flagged == tconsole \in BOOLEAN /\ booted \in BOOLEAN
Kept ==
    /\ tenv \in [Fields -> Nat]
    /\ tspeed \in Nat \ {0}
    /\ vector \in {"bios", "dcload"} /\ saved \in {"none", "bios", "dcload"}
    /\ screen \in {"dcload", "program", "dump"}
    /\ loaded \subseteq Nat \X Nat
TargetTyped == Stepping /\ Flagged /\ Kept

Typed == HostTyped /\ TargetTyped /\ LineTyped
-----------------------------------------------------------------------------
(* The speeds.                                                             *)
LEMMA Divisors == \A bps \in Nat \ {0} : Divisor(bps) \in 0..255
<1> TAKE bps \in Nat \ {0}
<1>1. 32 * bps \in Nat /\ 32 * bps > 0
  OBVIOUS
<1>2. \A b \in Nat : b > 0 => Clock \div b \in Int
  BY DEF Clock
<1>3. Clock \div (32 * bps) \in Int
  <2> DEFINE b == 32 * bps
  <2> HIDE DEF b
  <2> QED
    BY <1>1, <1>2 DEF b
<1>4. \A a \in Int : (a - 1) % 256 \in 0..255
  OBVIOUS
<1>5. QED
  <2> DEFINE q == Clock \div (32 * bps)
  <2> HIDE DEF q
  <2> QED
    BY <1>3, <1>4 DEF Divisor, q

LEMMA Quotient == \A a, c \in Nat : c > 0 /\ c <= a => a \div c \in Nat \ {0}
<1>1. \A a, c \in Nat : c > 0 /\ c <= a => a \div c \in Nat
  BY SMT
<1>2. \A a, c \in Nat : c > 0 /\ c <= a => a \div c # 0
  BY SMT
<1>3. QED
  BY <1>1, <1>2

LEMMA RatePositive == \A bps \in Nat \ {0} : Rate(bps) \in Nat \ {0}
<1> TAKE bps \in Nat \ {0}
<1> DEFINE b == 32 * (Divisor(bps) + 1)
<1>1. b \in Nat /\ b > 0 /\ b <= 8192
  BY Divisors, SMT
<1>2. Clock \in Nat /\ 8192 <= Clock
  BY SMT DEF Clock
<1>3. Clock \div b \in Nat \ {0}
  <2> HIDE DEF b
  <2> QED
    BY <1>1, <1>2, Quotient, SMT
<1>4. QED
  BY <1>3 DEF Rate

LEMMA SupportedPositive ==
    ASSUME SerialAssumption, NEW speed \in Nat \ {0}
    PROVE  SupportedSpeed(speed) \in Nat \ {0}
  BY DEF SerialAssumption, SupportedSpeed, FallBack, Initial

LEMMA SpeedPositive ==
    ASSUME SerialAssumption, NEW o, o.speed \in Nat \ {0}
    PROVE  Speed(o) \in Nat \ {0} /\ SupportedSpeed(Initial) \in Nat \ {0}
  BY SupportedPositive DEF Speed, Initial

LEMMA ToldNumber ==
    ASSUME NEW o, NEW speed \in Nat
    PROVE  Told(o, speed) \in Nat
  BY DEF Told, ToldSpeed, External
-----------------------------------------------------------------------------
(* The parts of main, in their order.                                      *)
LEMMA LeastExists ==
    ASSUME NEW S, S \subseteq Nat, S # {}
    PROVE  \E k \in S : \A j \in S : k <= j
<1>1. PICK k \in S : \A j \in S : <<j, k>> \notin OpToRel(<, Nat)
  BY NatLessThanWellFounded, WFMin
<1>2. \A j \in S : ~(j < k)
  BY <1>1 DEF OpToRel
<1>3. QED
  BY <1>2

LEMMA LeastSection ==
    ASSUME NEW S, S \subseteq Nat, S # {}
    PROVE  (CHOOSE k \in S : \A j \in S : k <= j) \in S
  BY LeastExists

LEMMA SectionsFacts ==
    ASSUME SessionAssumption, NEW o \in Invocations
    PROVE  /\ ToUpload(o) \subseteq Nat \ {0}
           /\ Entry(o) \in Nat
           /\ \A n \in ToUpload(o) : Sections(o)[n].addr \in Nat /\ Sections(o)[n].size \in Nat
<1>1. /\ o.address \in Nat /\ o.file.entry \in Nat /\ o.file.size \in Nat
      /\ o.file.sections \in Seq([addr : Nat, size : Nat, contents : BOOLEAN, load : BOOLEAN])
  BY DEF SessionAssumption
<1>2. CASE IsExecutable(o)
  <2>1. Sections(o) = o.file.sections
    BY <1>2 DEF Sections
  <2>2. DOMAIN Sections(o) = 1 .. Len(o.file.sections)
    BY <1>1, <2>1
  <2>3. \A n \in 1 .. Len(o.file.sections) : /\ o.file.sections[n].addr \in Nat
                                             /\ o.file.sections[n].size \in Nat
    <3> DEFINE Section == [addr : Nat, size : Nat, contents : BOOLEAN, load : BOOLEAN]
               given == o.file.sections
    <3>1. \A section \in Section : section.addr \in Nat /\ section.size \in Nat
      OBVIOUS
    <3>2. \A n \in 1 .. Len(given) : given[n] \in Section
      <4> HIDE DEF Section, given
      <4>1. given \in Seq(Section)
        BY <1>1 DEF Section, given
      <4>2. QED
        BY <4>1, ElementOfSeq
    <3> HIDE DEF Section
    <3>3. QED
      BY <3>1, <3>2
  <2>4. ToUpload(o) \subseteq 1 .. Len(o.file.sections)
    BY <2>2 DEF ToUpload
  <2>5. ToUpload(o) \subseteq Nat \ {0}
    BY <2>4
  <2>6. \A n \in ToUpload(o) : Sections(o)[n].addr \in Nat /\ Sections(o)[n].size \in Nat
    BY <2>1, <2>3, <2>4
  <2>7. Entry(o) \in Nat
    BY <1>1, <1>2 DEF Entry
  <2>8. QED
    BY <2>5, <2>6, <2>7
<1>3. CASE ~IsExecutable(o)
  <2>1. Sections(o) = <<RawFile(o)>>
    BY <1>3 DEF Sections
  <2>2. DOMAIN Sections(o) = {1} /\ Sections(o)[1] = RawFile(o)
    BY <2>1
  <2>3. RawFile(o).addr \in Nat /\ RawFile(o).size \in Nat
    BY <1>1 DEF RawFile
  <2>4. ToUpload(o) \subseteq {1}
    BY <2>2 DEF ToUpload
  <2>5. Entry(o) \in Nat
    BY <1>1, <1>3 DEF Entry
  <2>6. QED
    BY <2>2, <2>3, <2>4, <2>5
<1>4. QED
  BY <1>2, <1>3

LEMMA FromSectionPlaced ==
    ASSUME SessionAssumption, NEW o \in Invocations, NEW n \in Nat,
           Usable(o), o.command \in {"x", "u"}
    PROVE  Placed(o, FromSection(o, n)) /\ FromSection(o, n) # End
<1> DEFINE later == {k \in ToUpload(o) : k > n}
<1>1. CASE later = {}
  BY <1>1 DEF FromSection, FromUpload, Placed, Place, PutSpeedBack, End
<1>2. CASE later # {}
  <2>1. later \subseteq Nat
    BY SectionsFacts
  <2>2. (CHOOSE k \in later : \A j \in later : k <= j) \in later
    <3> HIDE DEF later
    <3> QED
      BY <1>2, <2>1, LeastSection
  <2>3. QED
    BY <1>2, <2>2 DEF FromSection, Placed, Place, End
<1>3. QED
  BY <1>1, <1>2

LEMMA FromRedirectPlaced ==
    ASSUME SessionAssumption, NEW o \in Invocations, Started(o), FromRedirect(o) # End
    PROVE  Placed(o, FromRedirect(o))
<1>1. Usable(o) /\ o.command \in {"x", "u", "d"}
  BY DEF FromRedirect, Usable, SessionAssumption
<1>2. CASE o.command = "d"
  BY <1>1, <1>2 DEF FromRedirect, Placed, Usable
<1>3. CASE o.command # "d"
  <2>1. FromRedirect(o) = FromSection(o, 0)
    BY <1>1, <1>3 DEF FromRedirect
  <2>2. QED
    BY <1>1, <1>3, <2>1, FromSectionPlaced
<1>4. QED
  BY <1>2, <1>3

LEMMA FromSpeedPlaced ==
    ASSUME SessionAssumption, NEW o \in Invocations, Started(o), FromSpeed(o) # End
    PROVE  Placed(o, FromSpeed(o))
  BY FromRedirectPlaced DEF FromSpeed, Placed

LEMMA FromPlaced ==
    ASSUME SessionAssumption, NEW o \in Invocations, From(o) # End
    PROVE  Placed(o, From(o))
  BY FromSpeedPlaced DEF From, Placed, Started

LEMMA AfterPlaced ==
    ASSUME SessionAssumption, NEW o \in Invocations, NEW p, Placed(o, p), After(o, p) # End
    PROVE  Placed(o, After(o, p))
<1>1. CASE p = Place("speed", 0) /\ Started(o)
  BY <1>1, FromSpeedPlaced DEF After, Place
<1>2. CASE p = Place("redirect", 0) /\ Started(o)
  BY <1>2, FromRedirectPlaced DEF After, Place
<1>3. CASE \E n \in ToUpload(o) : p = Place("upload", n) /\ Usable(o) /\ o.command \in {"x", "u"}
  <2>1. PICK n \in ToUpload(o) : p = Place("upload", n)
    BY <1>3
  <2>2. n \in Nat
    BY SectionsFacts
  <2>3. After(o, p) = FromSection(o, n)
    BY <2>1 DEF After, Place
  <2>4. QED
    BY <1>3, <2>2, <2>3, FromSectionPlaced
<1>4. CASE p = Place("execute", 0)
  BY <1>4 DEF After, Place
<1>5. CASE p = Place("download", 0) /\ Usable(o) /\ o.command = "d"
  BY <1>5 DEF After, Place, Placed
<1>6. CASE p = PutSpeedBack
  BY <1>6 DEF After, Place, PutSpeedBack
<1>7. QED
  BY <1>1, <1>2, <1>3, <1>4, <1>5, <1>6 DEF Placed
-----------------------------------------------------------------------------
(* What the two scripts say, step by step.                                 *)
LEMMA ChangeSpeedSteps ==
    ASSUME NEW o, NEW speed
    PROVE  /\ Len(ChangeSpeed(o, speed)) = 5
           /\ ChangeSpeed(o, speed)[1] = Step("command", "S")
           /\ ChangeSpeed(o, speed)[2] = Step("uint", Told(o, speed))
           /\ ChangeSpeed(o, speed)[3] = Step("reopen", speed)
           /\ ChangeSpeed(o, speed)[4] = Step("uint", Check)
           /\ ChangeSpeed(o, speed)[5] = Step("recv", Check)
  BY DEF ChangeSpeed

LEMMA UploadSteps ==
    ASSUME NEW section
    PROVE  /\ Len(Upload(section)) = 4
           /\ Upload(section)[1] = Step("command", "B")
           /\ Upload(section)[2] = Step("uint", section.addr)
           /\ Upload(section)[3] = Step("uint", section.size)
           /\ Upload(section)[4] = Step("data", section.size)
  BY DEF Upload

LEMMA DownloadSteps ==
    ASSUME NEW o
    PROVE  /\ Len(Download(o)) = 5
           /\ Download(o)[1] = Step("command", IF o.quiet THEN "G" ELSE "F")
           /\ Download(o)[2] = Step("uint", o.address)
           /\ Download(o)[3] = Step("uint", o.size)
           /\ Download(o)[4] = Step("uint", WorkMem)
           /\ Download(o)[5] = Step("fetch", o.size)
  BY DEF Download

LEMMA ExecuteSteps ==
    ASSUME NEW o
    PROVE  /\ Len(Execute(o)) = 3
           /\ Execute(o)[1] = Step("command", "A")
           /\ Execute(o)[2] = Step("uint", Entry(o))
           /\ Execute(o)[3] = Step("uint", IF o.console THEN 1 ELSE 0)
  BY DEF Execute

LEMMA RedirectSteps == Len(Redirect) = 1 /\ Redirect[1] = Step("command", "H")
  BY DEF Redirect

HostAt(part, k, do, value) ==
    place.part = part /\ hpc = k /\ HostScript[hpc] = Step(do, value)

InSpeed(part, speed) == \/ HostAt(part, 1, "command", "S")
                        \/ HostAt(part, 2, "uint", Told(opts, speed))
                        \/ HostAt(part, 3, "reopen", speed)
                        \/ HostAt(part, 4, "uint", Check)
                        \/ HostAt(part, 5, "recv", Check)
InRedirect == HostAt("redirect", 1, "command", "H")
InUpload == LET section == Sections(opts)[place.section] IN
    \/ HostAt("upload", 1, "command", "B")
    \/ HostAt("upload", 2, "uint", section.addr)
    \/ HostAt("upload", 3, "uint", section.size)
    \/ HostAt("upload", 4, "data", section.size)
InExecute == \/ HostAt("execute", 1, "command", "A")
             \/ HostAt("execute", 2, "uint", Entry(opts))
             \/ HostAt("execute", 3, "uint", IF opts.console THEN 1 ELSE 0)
InDownload == \/ HostAt("download", 1, "command", IF opts.quiet THEN "G" ELSE "F")
              \/ HostAt("download", 2, "uint", opts.address)
              \/ HostAt("download", 3, "uint", opts.size)
              \/ HostAt("download", 4, "uint", WorkMem)
              \/ HostAt("download", 5, "fetch", opts.size)

(* The length of the part that main is in, and its next step.              *)
LEMMA HostSteps ==
    ASSUME SessionAssumption, opts \in Invocations, Placed(opts, place),
           hpc \in 1 .. Len(HostScript)
    PROVE  \/ /\ place = Place("speed", 0) /\ Len(HostScript) = 5
              /\ InSpeed("speed", Speed(opts))
           \/ place = Place("redirect", 0) /\ Len(HostScript) = 1 /\ InRedirect
           \/ /\ place.part = "upload" /\ place.section \in ToUpload(opts)
              /\ Len(HostScript) = 4 /\ InUpload
           \/ place = Place("execute", 0) /\ Len(HostScript) = 3 /\ InExecute
           \/ place = Place("download", 0) /\ Len(HostScript) = 5 /\ InDownload
           \/ place = PutSpeedBack /\ Len(HostScript) = 5 /\ InSpeed("restore", Initial)
<1>1. CASE place = Place("speed", 0)
  <2>1. HostScript = ChangeSpeed(opts, Speed(opts)) /\ place.part = "speed"
    BY <1>1 DEF HostScript, ScriptAt, Place
  <2>2. Len(HostScript) = 5
    BY <2>1, ChangeSpeedSteps
  <2>3. hpc \in {1, 2, 3, 4, 5}
    BY <2>2
  <2>4. InSpeed("speed", Speed(opts))
    BY <2>1, <2>3, ChangeSpeedSteps DEF InSpeed, HostAt
  <2>5. QED
    BY <1>1, <2>2, <2>4
<1>2. CASE place = Place("redirect", 0)
  <2>1. HostScript = Redirect /\ place.part = "redirect"
    BY <1>2 DEF HostScript, ScriptAt, Place
  <2>2. Len(HostScript) = 1 /\ hpc = 1
    BY <2>1, RedirectSteps
  <2>3. QED
    BY <1>2, <2>1, <2>2, RedirectSteps DEF InRedirect, HostAt
<1>3. CASE \E n \in ToUpload(opts) : place = Place("upload", n)
  <2>1. place.section \in ToUpload(opts) /\ place.part = "upload"
    BY <1>3 DEF Place
  <2>2. HostScript = Upload(Sections(opts)[place.section])
    BY <2>1 DEF HostScript, ScriptAt
  <2>3. Len(HostScript) = 4
    BY <2>2, UploadSteps
  <2>4. hpc \in {1, 2, 3, 4}
    BY <2>3
  <2>5. InUpload
    BY <2>1, <2>2, <2>4, UploadSteps DEF InUpload, HostAt
  <2>6. QED
    BY <2>1, <2>3, <2>5
<1>4. CASE place = Place("execute", 0)
  <2>1. HostScript = Execute(opts) /\ place.part = "execute"
    BY <1>4 DEF HostScript, ScriptAt, Place
  <2>2. Len(HostScript) = 3
    BY <2>1, ExecuteSteps
  <2>3. hpc \in {1, 2, 3}
    BY <2>2
  <2>4. InExecute
    BY <2>1, <2>3, ExecuteSteps DEF InExecute, HostAt
  <2>5. QED
    BY <1>4, <2>2, <2>4
<1>5. CASE place = Place("download", 0)
  <2>1. HostScript = Download(opts) /\ place.part = "download"
    BY <1>5 DEF HostScript, ScriptAt, Place
  <2>2. Len(HostScript) = 5
    BY <2>1, DownloadSteps
  <2>3. hpc \in {1, 2, 3, 4, 5}
    BY <2>2
  <2>4. InDownload
    BY <2>1, <2>3, DownloadSteps DEF InDownload, HostAt
  <2>5. QED
    BY <1>5, <2>2, <2>4
<1>6. CASE place = PutSpeedBack
  <2>1. HostScript = ChangeSpeed(opts, Initial) /\ place.part = "restore"
    BY <1>6 DEF HostScript, ScriptAt, Place, PutSpeedBack
  <2>2. Len(HostScript) = 5
    BY <2>1, ChangeSpeedSteps
  <2>3. hpc \in {1, 2, 3, 4, 5}
    BY <2>2
  <2>4. InSpeed("restore", Initial)
    BY <2>1, <2>3, ChangeSpeedSteps DEF InSpeed, HostAt
  <2>5. QED
    BY <1>6, <2>2, <2>4
<1>7. QED
  BY <1>1, <1>2, <1>3, <1>4, <1>5, <1>6 DEF Placed

(* The next step of a command, and how many it has.                        *)
TargetAt(command, k, last, do, value) ==
    /\ tstate = command /\ tpc = k /\ Len(TScript(tstate)) = last
    /\ TScript(tstate)[tpc] = Step(do, value)

LEMMA TargetSteps ==
    ASSUME tstate \in Commands, tpc \in 1 .. Len(TScript(tstate))
    PROVE  \/ TargetAt("A", 1, 4, "screen", "") \/ TargetAt("A", 2, 4, "get", "addr")
           \/ TargetAt("A", 3, 4, "get", "console") \/ TargetAt("A", 4, 4, "go", "")
           \/ TargetAt("B", 1, 4, "screen", "") \/ TargetAt("B", 2, 4, "get", "addr")
           \/ TargetAt("B", 3, 4, "get", "size") \/ TargetAt("B", 4, 4, "load", "")
           \/ TargetAt("D", 1, 4, "screen", "") \/ TargetAt("D", 2, 4, "get", "addr")
           \/ TargetAt("D", 3, 4, "get", "size") \/ TargetAt("D", 4, 4, "send", "")
           \/ TargetAt("E", 1, 3, "get", "addr") \/ TargetAt("E", 2, 3, "get", "size")
           \/ TargetAt("E", 3, 3, "send", "")
           \/ TargetAt("F", 1, 5, "screen", "") \/ TargetAt("F", 2, 5, "get", "addr")
           \/ TargetAt("F", 3, 5, "get", "size") \/ TargetAt("F", 4, 5, "get", "wrkmem")
           \/ TargetAt("F", 5, 5, "send", "")
           \/ TargetAt("G", 1, 4, "get", "addr") \/ TargetAt("G", 2, 4, "get", "size")
           \/ TargetAt("G", 3, 4, "get", "wrkmem") \/ TargetAt("G", 4, 4, "send", "")
           \/ TargetAt("H", 1, 1, "redirect", "")
           \/ TargetAt("S", 1, 4, "get", "speed") \/ TargetAt("S", 2, 4, "init", "")
           \/ TargetAt("S", 3, 4, "get", "check") \/ TargetAt("S", 4, 4, "put", "check")
           \/ TargetAt("V", 1, 1, "name", "")
<1>1. CASE tstate = "A"
  <2>1. /\ Len(TScript("A")) = 4
        /\ TScript("A")[1] = Step("screen", "")
        /\ TScript("A")[2] = Step("get", "addr")
        /\ TScript("A")[3] = Step("get", "console")
        /\ TScript("A")[4] = Step("go", "")
    BY DEF TScript
  <2>2. Len(TScript(tstate)) = 4
    BY <1>1, <2>1
  <2>3. tpc \in {1, 2, 3, 4}
    BY <2>2
  <2>4. QED
    BY <1>1, <2>1, <2>2, <2>3 DEF TargetAt
<1>2. CASE tstate = "B"
  <2>1. /\ Len(TScript("B")) = 4
        /\ TScript("B")[1] = Step("screen", "")
        /\ TScript("B")[2] = Step("get", "addr")
        /\ TScript("B")[3] = Step("get", "size")
        /\ TScript("B")[4] = Step("load", "")
    BY DEF TScript
  <2>2. Len(TScript(tstate)) = 4
    BY <1>2, <2>1
  <2>3. tpc \in {1, 2, 3, 4}
    BY <2>2
  <2>4. QED
    BY <1>2, <2>1, <2>2, <2>3 DEF TargetAt
<1>3. CASE tstate = "D"
  <2>1. /\ Len(TScript("D")) = 4
        /\ TScript("D")[1] = Step("screen", "")
        /\ TScript("D")[2] = Step("get", "addr")
        /\ TScript("D")[3] = Step("get", "size")
        /\ TScript("D")[4] = Step("send", "")
    BY DEF TScript
  <2>2. Len(TScript(tstate)) = 4
    BY <1>3, <2>1
  <2>3. tpc \in {1, 2, 3, 4}
    BY <2>2
  <2>4. QED
    BY <1>3, <2>1, <2>2, <2>3 DEF TargetAt
<1>4. CASE tstate = "E"
  <2>1. /\ Len(TScript("E")) = 3
        /\ TScript("E")[1] = Step("get", "addr")
        /\ TScript("E")[2] = Step("get", "size")
        /\ TScript("E")[3] = Step("send", "")
    BY DEF TScript
  <2>2. Len(TScript(tstate)) = 3
    BY <1>4, <2>1
  <2>3. tpc \in {1, 2, 3}
    BY <2>2
  <2>4. QED
    BY <1>4, <2>1, <2>2, <2>3 DEF TargetAt
<1>5. CASE tstate = "F"
  <2>1. /\ Len(TScript("F")) = 5
        /\ TScript("F")[1] = Step("screen", "")
        /\ TScript("F")[2] = Step("get", "addr")
        /\ TScript("F")[3] = Step("get", "size")
        /\ TScript("F")[4] = Step("get", "wrkmem")
        /\ TScript("F")[5] = Step("send", "")
    BY DEF TScript
  <2>2. Len(TScript(tstate)) = 5
    BY <1>5, <2>1
  <2>3. tpc \in {1, 2, 3, 4, 5}
    BY <2>2
  <2>4. QED
    BY <1>5, <2>1, <2>2, <2>3 DEF TargetAt
<1>6. CASE tstate = "G"
  <2>1. /\ Len(TScript("G")) = 4
        /\ TScript("G")[1] = Step("get", "addr")
        /\ TScript("G")[2] = Step("get", "size")
        /\ TScript("G")[3] = Step("get", "wrkmem")
        /\ TScript("G")[4] = Step("send", "")
    BY DEF TScript
  <2>2. Len(TScript(tstate)) = 4
    BY <1>6, <2>1
  <2>3. tpc \in {1, 2, 3, 4}
    BY <2>2
  <2>4. QED
    BY <1>6, <2>1, <2>2, <2>3 DEF TargetAt
<1>7. CASE tstate = "H"
  <2>1. /\ Len(TScript("H")) = 1
        /\ TScript("H")[1] = Step("redirect", "")
    BY DEF TScript
  <2>2. Len(TScript(tstate)) = 1
    BY <1>7, <2>1
  <2>3. tpc \in {1}
    BY <2>2
  <2>4. QED
    BY <1>7, <2>1, <2>2, <2>3 DEF TargetAt
<1>8. CASE tstate = "S"
  <2>1. /\ Len(TScript("S")) = 4
        /\ TScript("S")[1] = Step("get", "speed")
        /\ TScript("S")[2] = Step("init", "")
        /\ TScript("S")[3] = Step("get", "check")
        /\ TScript("S")[4] = Step("put", "check")
    BY DEF TScript
  <2>2. Len(TScript(tstate)) = 4
    BY <1>8, <2>1
  <2>3. tpc \in {1, 2, 3, 4}
    BY <2>2
  <2>4. QED
    BY <1>8, <2>1, <2>2, <2>3 DEF TargetAt
<1>9. CASE tstate = "V"
  <2>1. /\ Len(TScript("V")) = 1
        /\ TScript("V")[1] = Step("name", "")
    BY DEF TScript
  <2>2. Len(TScript(tstate)) = 1
    BY <1>9, <2>1
  <2>3. tpc \in {1}
    BY <2>2
  <2>4. QED
    BY <1>9, <2>1, <2>2, <2>3 DEF TargetAt
<1>10. QED
  BY <1>1, <1>2, <1>3, <1>4, <1>5, <1>6, <1>7, <1>8, <1>9 DEF Commands
-----------------------------------------------------------------------------
(* What a step leaves alone keeps its type, and what reading, writing and  *)
(* going on do to the types.                                               *)
LEMMA HostStays == ASSUME HostTyped, UNCHANGED hostVars PROVE HostTyped'
  BY DEF HostTyped, hostVars, portVars, HostScript

LEMMA TargetStays == ASSUME TargetTyped, UNCHANGED targetVars PROVE TargetTyped'
  BY DEF TargetTyped, Stepping, Flagged, Kept, targetVars, programVars, cdVars

LEMMA LineStays == ASSUME LineTyped, UNCHANGED toTarget PROVE LineTyped'
  BY DEF LineTyped, Numeric

LEMMA LineEmptied == ASSUME toTarget' = <<>> PROVE LineTyped'
<1>1. toTarget' \in Seq(Items) /\ Len(toTarget') = 0
  BY EmptySeq
<1>2. QED
  BY <1>1 DEF LineTyped, Numeric

LEMMA LineRead == ASSUME LineTyped, toTarget # <<>>, toTarget' = Tail(toTarget) PROVE LineTyped'
<1>1. /\ toTarget' \in Seq(Items) /\ Len(toTarget') = Len(toTarget) - 1
      /\ \A i \in 1 .. Len(toTarget) - 1 : toTarget'[i] = toTarget[i + 1]
  <2> HIDE DEF Items
  <2> QED
    BY HeadTailProperties DEF LineTyped
<1>2. Len(toTarget) \in Nat
  <2> HIDE DEF Items
  <2> QED
    BY DEF LineTyped
<1>3. \A i \in 1 .. Len(toTarget) - 1 : i + 1 \in 1 .. Len(toTarget)
  BY <1>2
<1>4. QED
  BY <1>1, <1>3 DEF LineTyped, Numeric

LEMMA LineWritten ==
    ASSUME LineTyped, NEW kind \in Kinds, NEW value \in Nat \cup Commands, NEW speed \in Nat,
           kind = "uint" => value \in Nat, toTarget' = Append(toTarget, Item(kind, value, speed))
    PROVE  LineTyped'
<1> DEFINE item == Item(kind, value, speed)
<1>1. item \in Items /\ item.kind = kind /\ item.value = value
  BY DEF Item, Items
<1> HIDE DEF item, Items
<1>2. /\ toTarget' \in Seq(Items) /\ Len(toTarget') = Len(toTarget) + 1
      /\ \A i \in 1 .. Len(toTarget) : toTarget'[i] = toTarget[i]
      /\ toTarget'[Len(toTarget) + 1] = item
  BY <1>1, AppendProperties DEF LineTyped, item
<1>3. Len(toTarget) \in Nat
  BY DEF LineTyped
<1>4. \A i \in 1 .. Len(toTarget) + 1 : i \in 1 .. Len(toTarget) \/ i = Len(toTarget) + 1
  BY <1>3
<1>5. QED
  BY <1>1, <1>2, <1>4 DEF LineTyped, Numeric

LEMMA ScriptStarts ==
    ASSUME NEW o, NEW p, Placed(o, p)
    PROVE  Len(ScriptAt(o, p)) \in Nat /\ 1 <= Len(ScriptAt(o, p))
<1>1. CASE p.part = "speed"
  BY <1>1, ChangeSpeedSteps DEF ScriptAt
<1>2. CASE p.part = "redirect"
  BY <1>2, RedirectSteps DEF ScriptAt
<1>3. CASE p.part = "upload"
  BY <1>3, UploadSteps DEF ScriptAt
<1>4. CASE p.part = "execute"
  BY <1>4, ExecuteSteps DEF ScriptAt
<1>5. CASE p.part = "download"
  BY <1>5, DownloadSteps DEF ScriptAt
<1>6. CASE p.part = "restore"
  BY <1>6, ChangeSpeedSteps DEF ScriptAt
<1>7. QED
  BY <1>1, <1>2, <1>3, <1>4, <1>5, <1>6 DEF Placed, Place, PutSpeedBack

LEMMA HostAdvances ==
    ASSUME SessionAssumption, HostTyped, hstate = "main", HAdvance, opts' = opts,
           hspeed' \in Nat \ {0}, port' \in Nat, oldtio' \in Nat
    PROVE  HostTyped'
<1>1. Len(HostScript) \in Nat /\ hpc \in 1 .. Len(HostScript)
  BY ScriptStarts DEF HostTyped, HostScript
<1>2. CASE hpc < Len(HostScript)
  <2>1. hpc' = hpc + 1 /\ place' = place /\ hstate' = hstate /\ hwait' = "none"
    BY <1>2 DEF HAdvance
  <2>2. hpc' \in 1 .. Len(HostScript)
    BY <1>1, <1>2, <2>1
  <2>3. HostScript' = HostScript
    BY <2>1 DEF HostScript
  <2>4. QED
    BY <2>1, <2>2, <2>3 DEF HostTyped
<1>3. CASE ~(hpc < Len(HostScript))
  <2>1. /\ hpc' = 1 /\ place' = After(opts, place) /\ hwait' = "none"
        /\ hstate' = IF place' = End THEN HostAfter(opts) ELSE "main"
    BY <1>3 DEF HAdvance
  <2>2. CASE place' = End
    BY <2>1, <2>2 DEF HostTyped, HostAfter
  <2>3. CASE place' # End
    <3>1. Placed(opts, place')
      BY <2>1, <2>3, AfterPlaced DEF HostTyped
    <3>2. hpc' \in 1 .. Len(HostScript')
      BY <2>1, <3>1, ScriptStarts DEF HostScript
    <3>3. QED
      BY <2>1, <2>3, <3>1, <3>2 DEF HostTyped
  <2>4. QED
    BY <2>2, <2>3
<1>4. QED
  BY <1>2, <1>3

LEMMA TargetAdvances ==
    ASSUME TargetTyped, tstate \in Commands, TAdvance, tenv' \in [Fields -> Nat],
           tspeed' \in Nat \ {0}, tconsole' = tconsole, booted' \in BOOLEAN,
           vector' \in {"bios", "dcload"}, saved' = saved,
           screen' \in {"dcload", "program", "dump"}, loaded' \subseteq Nat \X Nat
    PROVE  TargetTyped'
<1>1. tpc \in 1 .. Len(TScript(tstate)) /\ Len(TScript(tstate)) \in Nat
  <2>1. tpc \in 1 .. Len(TScript(tstate))
    BY DEF TargetTyped, Stepping, Flagged, Kept
  <2>2. Len(TScript(tstate)) \in {1, 3, 4, 5}
    BY <2>1, TargetSteps DEF TargetAt
  <2>3. QED
    BY <2>1, <2>2
<1>2. CASE tpc < Len(TScript(tstate))
  <2>1. tpc' = tpc + 1 /\ tstate' = tstate /\ twait' = FALSE
    BY <1>2 DEF TAdvance
  <2>2. tpc' \in 1 .. Len(TScript(tstate'))
    BY <1>1, <1>2, <2>1
  <2>3. QED
    BY <2>1, <2>2 DEF TargetTyped, Stepping, Flagged, Kept
<1>3. CASE ~(tpc < Len(TScript(tstate)))
  <2>1. tpc' = 1 /\ tstate' = "idle" /\ twait' = FALSE
    BY <1>3 DEF TAdvance
  <2>2. "idle" \notin Commands
    BY DEF Commands
  <2>3. QED
    BY <2>1, <2>2 DEF TargetTyped, Stepping, Flagged, Kept
<1>4. QED
  BY <1>2, <1>3

LEMMA TargetGoesOn ==
    ASSUME TargetTyped, tstate \in Commands, TAdvance, tenv' \in [Fields -> Nat],
           tspeed' \in Nat \ {0}, UNCHANGED programVars
    PROVE  TargetTyped'
<1>1. /\ tconsole' = tconsole /\ booted' = booted /\ vector' = vector /\ saved' = saved
      /\ screen' = screen /\ loaded' = loaded
  BY DEF programVars, cdVars
<1>2. /\ booted \in BOOLEAN /\ vector \in {"bios", "dcload"}
      /\ screen \in {"dcload", "program", "dump"} /\ loaded \subseteq Nat \X Nat
  BY DEF TargetTyped, Stepping, Flagged, Kept
<1>3. QED
  BY <1>1, <1>2, TargetAdvances
-----------------------------------------------------------------------------
(* One lemma per action: it keeps the types.                               *)
LEMMA StepMeans ==
    ASSUME NEW part, NEW k, NEW do, NEW value, HostAt(part, k, do, value)
    PROVE  HostScript[hpc].do = do /\ HValue = value
  BY DEF HostAt, Step, HValue

LEMMA NextStep ==
    ASSUME SessionAssumption, SerialAssumption, HostTyped, hstate = "main"
    PROVE  /\ HostScript[hpc].do = "command" => HValue \in Commands
           /\ HostScript[hpc].do \in {"uint", "data"} => HValue \in Nat
           /\ HostScript[hpc].do = "reopen" => HValue \in Nat \ {0}
<1> DEFINE Fits(do, value) == /\ do = "command" => value \in Commands
                              /\ do \in {"uint", "data"} => value \in Nat
                              /\ do = "reopen" => value \in Nat \ {0}
           Goal == Fits(HostScript[hpc].do, HValue)
<1>1. opts \in Invocations /\ Placed(opts, place) /\ hpc \in 1 .. Len(HostScript)
  BY DEF HostTyped
<1>2. Speed(opts) \in Nat \ {0} /\ opts.address \in Nat /\ opts.size \in Nat
  BY <1>1, SpeedPositive DEF SessionAssumption
<1>3. Initial \in Nat \ {0} /\ Check \in Nat /\ WorkMem \in Nat
  BY DEF Initial, Check, WorkMem
<1>4. /\ \A value \in Nat : Fits("uint", value) /\ Fits("data", value)
      /\ \A value \in Nat \ {0} : Fits("reopen", value)
      /\ \A value \in Commands : Fits("command", value)
      /\ \A value : Fits("recv", value) /\ Fits("fetch", value)
  OBVIOUS
<1>5. \A part, k, do, value : HostAt(part, k, do, value) /\ Fits(do, value) => Goal
  <2> HIDE DEF Fits
  <2> QED
    BY StepMeans
<1>6. \A part : \A speed \in Nat \ {0} : InSpeed(part, speed) => Goal
  <2> HIDE DEF Fits, Goal
  <2> SUFFICES ASSUME NEW part, NEW speed \in Nat \ {0}, InSpeed(part, speed) PROVE Goal
    OBVIOUS
  <2>1. Told(opts, speed) \in Nat
    BY ToldNumber
  <2>2. "S" \in Commands /\ speed \in Nat
    BY DEF Commands
  <2>3. QED
    BY <1>3, <1>4, <1>5, <2>1, <2>2 DEF InSpeed
<1>7. CASE InSpeed("speed", Speed(opts)) \/ InSpeed("restore", Initial)
  <2> HIDE DEF Goal
  <2>1. Goal
    BY <1>2, <1>3, <1>6, <1>7
  <2>2. QED
    BY <2>1 DEF Goal
<1>8. CASE InRedirect
  <2>1. Goal
    <3> HIDE DEF Fits, Goal
    <3>1. "H" \in Commands
      BY DEF Commands
    <3>2. QED
      BY <1>4, <1>5, <1>8, <3>1 DEF InRedirect
  <2>2. QED
    BY <2>1
<1>9. CASE place.section \in ToUpload(opts) /\ InUpload
  <2>1. /\ Sections(opts)[place.section].addr \in Nat
        /\ Sections(opts)[place.section].size \in Nat
    BY <1>1, <1>9, SectionsFacts
  <2>2. Goal
    <3> HIDE DEF Fits, Goal
    <3>1. "B" \in Commands
      BY DEF Commands
    <3>2. QED
      BY <1>4, <1>5, <1>9, <2>1, <3>1 DEF InUpload
  <2>3. QED
    BY <2>2
<1>10. CASE InExecute
  <2>1. Entry(opts) \in Nat /\ (IF opts.console THEN 1 ELSE 0) \in Nat
    BY <1>1, SectionsFacts
  <2>2. Goal
    <3> HIDE DEF Fits, Goal
    <3>1. "A" \in Commands
      BY DEF Commands
    <3>2. QED
      BY <1>4, <1>5, <1>10, <2>1, <3>1 DEF InExecute
  <2>3. QED
    BY <2>2
<1>11. CASE InDownload
  <2>1. (IF opts.quiet THEN "G" ELSE "F") \in Commands
    BY DEF Commands
  <2>2. Goal
    <3> HIDE DEF Fits, Goal
    <3> QED
      BY <1>2, <1>3, <1>4, <1>5, <1>11, <2>1 DEF InDownload
  <2>3. QED
    BY <2>2
<1>12. QED
  BY <1>1, <1>7, <1>8, <1>9, <1>10, <1>11, HostSteps

LEMMA AsksKeep == ASSUME SessionAssumption, SerialAssumption, Typed, HCommand \/ HUint PROVE Typed'
<1>1. HostTyped /\ TargetTyped /\ LineTyped /\ hstate = "main" /\ hspeed \in Nat
  BY DEF Typed, HCommand, HUint, HDoing, HostTyped
<1>2. HostTyped' /\ TargetTyped'
  <2>1. TargetTyped'
    BY <1>1, TargetStays DEF HCommand, HUint
  <2>2. HostTyped'
    <3>1. HostScript' = HostScript
      BY DEF HCommand, HUint, HostScript
    <3>2. QED
      BY <1>1, <3>1 DEF HCommand, HUint, HostTyped, portVars
  <2>3. QED
    BY <2>1, <2>2
<1>3. CASE HCommand
  <2>1. HValue \in Nat \cup Commands /\ "command" \in Kinds
    BY <1>1, <1>3, NextStep DEF HCommand, HDoing, Kinds
  <2>2. toTarget' = Append(toTarget, Item("command", HValue, hspeed))
    BY <1>3 DEF HCommand, HWrites
  <2>3. LineTyped'
    BY <1>1, <2>1, <2>2, LineWritten
  <2>4. QED
    BY <1>2, <2>3 DEF Typed
<1>4. CASE HUint
  <2>1. HValue \in Nat
    BY <1>1, <1>4, NextStep DEF HUint, HDoing
  <2>2. toTarget' = Append(toTarget, Item("uint", HValue, hspeed))
    BY <1>4 DEF HUint, HWrites
  <2>3. HValue \in Nat \cup Commands /\ "uint" \in Kinds
    BY <2>1 DEF Kinds
  <2>4. LineTyped'
    BY <1>1, <2>1, <2>2, <2>3, LineWritten
  <2>5. QED
    BY <1>2, <2>4 DEF Typed
<1>5. QED
  BY <1>3, <1>4

LEMMA ReadsKeep ==
    ASSUME SessionAssumption, Typed, HEcho \/ HRecv \/ HAnswer \/ HFetch
    PROVE  Typed'
<1>1. /\ HostTyped /\ TargetTyped /\ LineTyped /\ hstate = "main"
      /\ hspeed \in Nat \ {0} /\ port \in Nat /\ oldtio \in Nat
  BY DEF Typed, HEcho, HRecv, HAnswer, HFetch, HDoing, HostTyped
<1>2. HAdvance /\ opts' = opts /\ UNCHANGED portVars /\ UNCHANGED targetVars
  BY DEF HEcho, HRecv, HAnswer, HFetch
<1>3. HostTyped'
  BY <1>1, <1>2, HostAdvances DEF portVars
<1>4. TargetTyped'
  BY <1>1, <1>2, TargetStays
<1>5. CASE HEcho \/ HRecv \/ HAnswer
  BY <1>1, <1>3, <1>4, <1>5, LineStays DEF HEcho, HRecv, HAnswer, Typed
<1>6. CASE HFetch
  <2>1. toTarget' = Append(toTarget, Item("good", 0, hspeed))
    BY <1>6 DEF HFetch, HWrites
  <2>2. 0 \in Nat \cup Commands /\ "good" \in Kinds /\ "good" # "uint"
    BY DEF Kinds
  <2>3. LineTyped'
    BY <1>1, <2>1, <2>2, LineWritten
  <2>4. QED
    BY <1>3, <1>4, <2>3 DEF Typed
<1>7. QED
  BY <1>5, <1>6

LEMMA ReopenKeeps ==
    ASSUME SessionAssumption, SerialAssumption, Typed, HReopen PROVE Typed'
<1>1. HostTyped /\ TargetTyped /\ LineTyped /\ hstate = "main" /\ HValue \in Nat \ {0}
  BY NextStep DEF Typed, HReopen, HDoing
<1>2. HAdvance /\ opts' = opts /\ OpenPort(HValue)
  BY DEF HReopen
<1>3. HostTyped'
  BY <1>1, <1>2, HostAdvances, SupportedPositive DEF OpenPort, HostTyped
<1>4. TargetTyped' /\ LineTyped'
  BY <1>1, TargetStays, LineStays DEF HReopen
<1>5. QED
  BY <1>3, <1>4 DEF Typed

LEMMA DataKeeps ==
    ASSUME SessionAssumption, SerialAssumption, Typed, HData PROVE Typed'
<1>1. /\ HostTyped /\ TargetTyped /\ LineTyped /\ hstate = "main" /\ HValue \in Nat
      /\ hspeed \in Nat \ {0} /\ port \in Nat /\ oldtio \in Nat
  BY NextStep DEF Typed, HData, HDoing, HostTyped
<1>2. TargetTyped'
  BY <1>1, TargetStays DEF HData
<1>3. CASE HValue = 0
  <2>1. HostTyped'
    BY <1>1, <1>3, HostAdvances DEF HData, portVars
  <2>2. LineTyped'
    BY <1>1, <1>3, LineStays DEF HData
  <2>3. QED
    BY <1>2, <2>1, <2>2 DEF Typed
<1>4. CASE HValue # 0
  <2>1. HostScript' = HostScript
    BY <1>4 DEF HData, HostScript
  <2>2. HostTyped'
    BY <1>1, <1>4, <2>1 DEF HData, HostTyped, portVars
  <2>3. toTarget' = Append(toTarget, Item("block", HValue, hspeed))
    BY <1>4 DEF HData, HWrites
  <2>4. HValue \in Nat \cup Commands /\ "block" \in Kinds /\ "block" # "uint"
    BY <1>1 DEF Kinds
  <2>5. LineTyped'
    BY <1>1, <2>3, <2>4, LineWritten
  <2>6. QED
    BY <1>2, <2>2, <2>5 DEF Typed
<1>5. QED
  BY <1>3, <1>4

LEMMA ConsoleKeeps == ASSUME Typed, HServe \/ HExit \/ Interrupt PROVE Typed'
<1>1. HostTyped /\ TargetTyped /\ LineTyped /\ hspeed \in Nat
  BY DEF Typed, HostTyped
<1>2. TargetTyped'
  BY <1>1, TargetStays DEF HServe, HExit, Interrupt
<1>3. CASE HServe
  <2>1. HostTyped'
    BY <1>1, <1>3, HostStays DEF HServe
  <2>2. toTarget' = Append(toTarget, Item("reply", 0, hspeed))
    BY <1>3 DEF HServe, HWrites
  <2>3. 0 \in Nat \cup Commands /\ "reply" \in Kinds /\ "reply" # "uint"
    BY DEF Kinds
  <2>4. LineTyped'
    BY <1>1, <2>2, <2>3, LineWritten
  <2>5. QED
    BY <1>2, <2>1, <2>4 DEF Typed
<1>4. CASE HExit \/ Interrupt
  <2>1. HostTyped'
    BY <1>1, <1>4 DEF HExit, Interrupt, FinishSerial, HostTyped, portVars
  <2>2. LineTyped'
    BY <1>1, <1>4, LineStays DEF HExit, Interrupt
  <2>3. QED
    BY <1>2, <2>1, <2>2 DEF Typed
<1>5. QED
  BY <1>3, <1>4

LEMMA StartKeeps == ASSUME SessionAssumption, SerialAssumption, Typed, Start PROVE Typed'
<1>1. HostTyped /\ TargetTyped /\ LineTyped /\ hpc = 1 /\ hwait = "none"
  BY DEF Typed, HostTyped, Start
<1>2. opts' \in Invocations /\ Speed(opts') \in Nat /\ SupportedSpeed(Initial) \in Nat \ {0}
  <2>1. opts' \in Invocations
    BY DEF Start
  <2>2. opts'.speed \in Nat \ {0}
    BY <2>1 DEF SessionAssumption
  <2>3. QED
    BY <2>1, <2>2, SpeedPositive
<1>3. HostTyped'
  <2>1. /\ hspeed' \in Nat \ {0} /\ port' \in Nat /\ oldtio' \in Nat
        /\ hpc' = 1 /\ hwait' = "none"
    <3>1. Initial \in Nat \ {0} /\ Found \in Nat
      BY DEF Initial, Found
    <3>2. QED
      BY <1>1, <1>2, <3>1 DEF Start
  <2>2. place' = From(opts') /\ hstate' = IF place' = End THEN HostAfter(opts') ELSE "main"
    BY DEF Start
  <2>3. CASE place' = End
    <3>1. hstate' \in {"console", "dumb", "gone"}
      BY <2>2, <2>3 DEF HostAfter
    <3>2. QED
      BY <1>2, <2>1, <3>1 DEF HostTyped
  <2>4. CASE place' # End
    <3>1. Placed(opts', place')
      BY <1>2, <2>2, <2>4, FromPlaced
    <3>2. hpc' \in 1 .. Len(HostScript')
      BY <2>1, <3>1, ScriptStarts DEF HostScript
    <3>3. QED
      BY <1>2, <2>1, <2>2, <2>4, <3>1, <3>2 DEF HostTyped
  <2>5. QED
    BY <2>3, <2>4
<1>4. TargetTyped'
  <2>1. loaded' \subseteq Nat \X Nat
    BY DEF Start
  <2>2. QED
    BY <1>1, <2>1 DEF TargetTyped, Stepping, Flagged, Kept, Start, cdVars
<1>5. LineTyped'
  BY <1>1, LineStays DEF Start
<1>6. QED
  BY <1>3, <1>4, <1>5 DEF Typed

(* What a command does next.                                               *)
LEMMA DoesGet ==
    ASSUME TargetTyped, TDoing("get")
    PROVE  tstate \in Commands /\ TScript(tstate)[tpc].value \in Fields
<1>1. tstate \in Commands /\ tpc \in 1 .. Len(TScript(tstate)) /\ TScript(tstate)[tpc].do = "get"
  BY DEF TDoing, TargetTyped, Stepping, Flagged, Kept
<1> DEFINE Reads(do, value) == do = "get" => value \in Fields
           Goal == TScript(tstate)[tpc].value \in Fields
<1>2. \A command, k, last, do, value :
          TargetAt(command, k, last, do, value) /\ Reads(do, value) => Goal
  BY <1>1 DEF TargetAt, Step
<1>3. /\ Reads("screen", "") /\ Reads("load", "") /\ Reads("send", "") /\ Reads("go", "")
      /\ Reads("redirect", "") /\ Reads("init", "") /\ Reads("name", "")
      /\ Reads("put", "check")
      /\ \A field \in Fields : Reads("get", field)
  OBVIOUS
<1>4. {"addr", "size", "console", "wrkmem", "speed", "check"} = Fields
  BY DEF Fields
<1>5. Goal
  <2> HIDE DEF Reads, Goal
  <2> QED
    BY <1>1, <1>2, <1>3, <1>4, TargetSteps
<1>6. QED
  BY <1>1, <1>5

LEMMA TCommandKeeps == ASSUME Typed, TCommand PROVE Typed'
<1>1. HostTyped /\ TargetTyped /\ LineTyped /\ tstate = "idle" /\ toTarget # <<>>
  BY DEF Typed, TCommand, THas
<1>2. tpc = 1 /\ twait = FALSE
  BY <1>1 DEF TargetTyped, Stepping, Flagged, Kept, Commands
<1>3. HostTyped' /\ LineTyped'
  BY <1>1, HostStays, LineRead DEF TCommand
<1>4. tenv' \in [Fields -> Nat]
  BY DEF TCommand, Unread
<1>5. CASE Head(toTarget).value \in Commands
  <2>1. tstate' = Head(toTarget).value /\ tspeed' = tspeed
    BY <1>5 DEF TCommand
  <2>2. 1 \in 1 .. Len(TScript(tstate'))
    <3>1. \A command \in Commands : Len(TScript(command)) \in {1, 3, 4, 5}
      BY DEF TScript, Commands
    <3>2. Len(TScript(tstate')) \in {1, 3, 4, 5}
      BY <1>5, <2>1, <3>1
    <3>3. QED
      BY <3>2
  <2>3. TargetTyped'
    BY <1>1, <1>2, <1>4, <1>5, <2>1, <2>2 DEF TCommand, TargetTyped, Stepping, Flagged, Kept, programVars, cdVars
  <2>4. QED
    BY <1>3, <2>3 DEF Typed
<1>6. CASE Head(toTarget).value \notin Commands
  <2>1. tspeed' \in Nat \ {0}
    BY <1>6, RatePositive DEF TCommand, Initial
  <2>2. TargetTyped'
    BY <1>1, <1>4, <1>6, <2>1 DEF TCommand, TargetTyped, Stepping, Flagged, Kept, programVars, cdVars
  <2>3. QED
    BY <1>3, <2>2 DEF Typed
<1>7. QED
  BY <1>5, <1>6

LEMMA TGetKeeps == ASSUME Typed, TGet PROVE Typed'
<1>1. HostTyped /\ TargetTyped /\ LineTyped
  BY DEF Typed
<1>2. tstate \in Commands /\ TScript(tstate)[tpc].value \in Fields
  BY <1>1, DoesGet DEF TGet
<1>3. Head(toTarget).value \in Nat /\ toTarget # <<>>
  <2>1. toTarget # <<>> /\ Head(toTarget).kind = "uint"
    BY DEF TGet, THas
  <2>2. Head(toTarget) = toTarget[1] /\ 1 \in 1 .. Len(toTarget)
    <3> HIDE DEF Items
    <3> QED
      BY <1>1, <2>1 DEF LineTyped
  <2>3. QED
    BY <1>1, <2>1, <2>2 DEF LineTyped, Numeric
<1>4. tenv' \in [Fields -> Nat]
  BY <1>1, <1>2, <1>3 DEF TGet, TargetTyped, Stepping, Flagged, Kept
<1>5. TargetTyped'
  BY <1>1, <1>2, <1>4, TargetGoesOn DEF TGet, TargetTyped, Kept
<1>6. HostTyped' /\ LineTyped'
  BY <1>1, <1>3, HostStays, LineRead DEF TGet
<1>7. QED
  BY <1>5, <1>6 DEF Typed

LEMMA TInitKeeps ==
    ASSUME SessionAssumption, SerialAssumption, Typed, TInit PROVE Typed'
<1>1. HostTyped /\ TargetTyped /\ tstate \in Commands
  BY DEF Typed, TInit, TDoing
<1>2. tspeed' \in Nat \ {0}
  <2>1. tenv.speed \in Nat
    BY <1>1 DEF TargetTyped, Stepping, Flagged, Kept, Fields
  <2>2. opts.speed \in Nat \ {0}
    BY <1>1 DEF HostTyped, SessionAssumption
  <2>3. SupportedSpeed(opts.speed) \in Nat \ {0}
    BY <2>2, SupportedPositive
  <2>4. CASE tenv.speed = External
    BY <2>3, <2>4 DEF TInit
  <2>5. CASE tenv.speed # External
    BY <2>1, <2>5, RatePositive DEF TInit, External
  <2>6. QED
    BY <2>4, <2>5
<1>3. TargetTyped'
  BY <1>1, <1>2, TargetGoesOn DEF TInit, TargetTyped, Kept
<1>4. HostTyped' /\ LineTyped'
  BY <1>1, HostStays, LineEmptied DEF TInit
<1>5. QED
  BY <1>3, <1>4 DEF Typed

LEMMA TLoadKeeps == ASSUME Typed, TLoad PROVE Typed'
<1>1. HostTyped /\ TargetTyped /\ LineTyped /\ tstate \in Commands
  BY DEF Typed, TLoad, TDoing
<1>2. loaded' \subseteq Nat \X Nat
  BY <1>1 DEF TLoad, TargetTyped, Stepping, Flagged, Kept, Fields
<1>3. TargetTyped'
  BY <1>1, <1>2, TargetAdvances DEF TLoad, TargetTyped, Stepping, Flagged, Kept, cdVars
<1>4. HostTyped'
  BY <1>1, HostStays DEF TLoad
<1>5. LineTyped'
  BY <1>1, LineStays, LineRead DEF TLoad, THas
<1>6. QED
  BY <1>3, <1>4, <1>5 DEF Typed

LEMMA TAloneKeeps ==
    ASSUME Typed, TScreen \/ TPut \/ TSend \/ TAnswer \/ TRedirect \/ TGo PROVE Typed'
<1>1. HostTyped /\ TargetTyped /\ LineTyped /\ tstate \in Commands
  BY DEF Typed, TScreen, TPut, TSend, TAnswer, TRedirect, TGo, TDoing
<1>2. HostTyped'
  BY <1>1, HostStays DEF TScreen, TPut, TSend, TAnswer, TRedirect, TGo
<1>3. LineTyped'
  BY <1>1, LineStays, LineRead DEF TScreen, TPut, TSend, TAnswer, TRedirect, TGo, THas
<1>4. TargetTyped'
  <2>1. CASE TScreen
    <3>1. /\ TAdvance /\ tenv' = tenv /\ tspeed' = tspeed /\ tconsole' = tconsole
          /\ vector' = vector /\ saved' = saved /\ loaded' = loaded /\ booted' \in BOOLEAN
      BY <2>1 DEF TScreen, cdVars
    <3>2. screen' \in {"dcload", "program", "dump"}
      BY <1>1, <2>1 DEF TScreen, TargetTyped, Stepping, Flagged, Kept
    <3>3. /\ tenv' \in [Fields -> Nat] /\ tspeed' \in Nat \ {0} /\ loaded' \subseteq Nat \X Nat
          /\ vector' \in {"bios", "dcload"}
      BY <1>1, <3>1 DEF TargetTyped, Stepping, Flagged, Kept
    <3>4. QED
      BY <1>1, <3>1, <3>2, <3>3, TargetAdvances
  <2>2. CASE TPut \/ TAnswer
    <3>1. TAdvance /\ tenv' = tenv /\ tspeed' = tspeed /\ UNCHANGED programVars
      BY <2>2 DEF TPut, TAnswer
    <3>2. tenv' \in [Fields -> Nat] /\ tspeed' \in Nat \ {0}
      BY <1>1, <3>1 DEF TargetTyped, Stepping, Flagged, Kept
    <3>3. QED
      BY <1>1, <3>1, <3>2, TargetGoesOn
  <2>3. CASE TRedirect
    <3>1. /\ TAdvance /\ tenv' = tenv /\ tspeed' = tspeed /\ tconsole' = tconsole
          /\ vector' \in {"bios", "dcload"} /\ saved' = saved /\ loaded' = loaded
          /\ booted' = booted /\ screen' = screen
      BY <2>3 DEF TRedirect
    <3>2. /\ tenv' \in [Fields -> Nat] /\ tspeed' \in Nat \ {0} /\ loaded' \subseteq Nat \X Nat
          /\ booted' \in BOOLEAN /\ screen' \in {"dcload", "program", "dump"}
      BY <1>1, <3>1 DEF TargetTyped, Stepping, Flagged, Kept
    <3>3. QED
      BY <1>1, <3>1, <3>2, TargetAdvances
  <2>4. CASE TSend
    <3>1. /\ tstate' = tstate /\ tpc' = tpc /\ tenv' = tenv /\ tspeed' = tspeed /\ twait' = TRUE
          /\ tconsole' = tconsole /\ booted' = booted /\ vector' = vector /\ saved' = saved
          /\ screen' = screen /\ loaded' = loaded
      BY <2>4 DEF TSend, programVars, cdVars
    <3>2. Stepping'
      BY <1>1, <3>1 DEF TargetTyped, Stepping
    <3>3. Flagged'
      BY <1>1, <3>1 DEF TargetTyped, Flagged
    <3>4. Kept'
      BY <1>1, <3>1 DEF TargetTyped, Kept
    <3>5. QED
      BY <3>2, <3>3, <3>4 DEF TargetTyped
  <2>5. CASE TGo
    <3>1. twait = FALSE
      BY <1>1, <2>5 DEF TGo, TDoing, TargetTyped, Stepping, Flagged, Kept
    <3>2. /\ tstate' = "program" /\ tpc' = 1 /\ tconsole' \in BOOLEAN /\ screen' = "program"
          /\ tenv' = tenv /\ twait' = twait /\ tspeed' = tspeed /\ booted' = booted
          /\ vector' = vector /\ saved' = saved /\ loaded' = loaded
      BY <2>5 DEF TGo, cdVars
    <3>3. "program" \notin Commands
      BY DEF Commands
    <3>4. QED
      BY <1>1, <3>1, <3>2, <3>3 DEF TargetTyped, Stepping, Flagged, Kept
  <2>6. QED
    BY <2>1, <2>2, <2>3, <2>4, <2>5
<1>5. QED
  BY <1>2, <1>3, <1>4 DEF Typed

LEMMA ProgramKeeps == ASSUME Typed, Program \/ ProgramReply \/ Boot PROVE Typed'
<1>1. HostTyped /\ TargetTyped /\ LineTyped
  BY DEF Typed
<1>2. HostTyped'
  BY <1>1, HostStays DEF Program, ProgramCall, ProgramEnd, ProgramFault, ProgramReply, Boot
<1>3. LineTyped'
  BY <1>1, LineStays, LineRead, LineEmptied
     DEF Program, ProgramCall, ProgramEnd, ProgramFault, ProgramReply, Boot, MainStarts, THas
<1>4. Rate(Initial) \in Nat \ {0}
  BY RatePositive DEF Initial
<1>5. CASE ProgramCall \/ ProgramReply
  <2>1. tpc = 1 /\ twait = FALSE
    BY <1>1, <1>5 DEF ProgramCall, ProgramReply, TargetTyped, Stepping, Flagged, Kept, Commands
  <2>2. TargetTyped'
    BY <1>1, <1>5, <2>1
       DEF ProgramCall, ProgramReply, TargetTyped, Stepping, Flagged, Kept, Commands, programVars, cdVars
  <2>3. QED
    BY <1>2, <1>3, <2>2 DEF Typed
<1>6. CASE ProgramEnd \/ ProgramFault
  <2>1. \E now \in {"dcload", "program", "dump"} : MainStarts(now)
    BY <1>1, <1>6 DEF ProgramEnd, ProgramFault, TargetTyped, Stepping, Flagged, Kept
  <2>2. tenv' = tenv /\ tconsole' = tconsole /\ loaded' = loaded
    BY <1>6 DEF ProgramEnd, ProgramFault
  <2>3. vector' \in {"bios", "dcload"} /\ saved' \in {"bios", "dcload"}
    BY <1>1, <2>1 DEF MainStarts, SaveVector, TargetTyped, Stepping, Flagged, Kept
  <2>4. booted' \in BOOLEAN /\ screen' \in {"dcload", "program", "dump"}
    BY <1>1, <2>1 DEF MainStarts, ScreenAtStart, TargetTyped, Stepping, Flagged, Kept
  <2>5. tstate' = "idle" /\ tpc' = 1 /\ twait' = FALSE /\ tspeed' = Rate(Initial)
    BY <2>1 DEF MainStarts
  <2>6. TargetTyped'
    BY <1>1, <1>4, <2>2, <2>3, <2>4, <2>5 DEF TargetTyped, Stepping, Flagged, Kept, Commands
  <2>7. QED
    BY <1>2, <1>3, <2>6 DEF Typed
<1>7. CASE Boot
  <2>1. TargetTyped'
    BY <1>1, <1>4, <1>7 DEF Boot, TargetTyped, Stepping, Flagged, Kept, Commands
  <2>2. QED
    BY <1>2, <1>3, <2>1 DEF Typed
<1>8. QED
  BY <1>5, <1>6, <1>7 DEF Program

LEMMA InitTargetTyped == ASSUME Init PROVE TargetTyped
<1>1. Stepping
  <2>1. tstate \in {"idle", "program", "calling"} /\ tstate \notin Commands
    BY DEF Init, Commands
  <2>2. tpc = 1 /\ twait = FALSE
    BY DEF Init
  <2>3. QED
    BY <2>1, <2>2 DEF Stepping
<1>2. Flagged
  BY DEF Init, Flagged
<1>3. Kept
  BY RatePositive DEF Init, Kept, Unread, Initial
<1>4. QED
  BY <1>1, <1>2, <1>3 DEF TargetTyped

LEMMA InitTyped == ASSUME Init PROVE Typed
<1>1. HostTyped
  BY DEF Init, HostTyped, Initial, Found
<1>2. LineTyped
  BY DEF Init, LineTyped, Numeric
<1>3. QED
  BY <1>1, <1>2, InitTargetTyped DEF Typed

LEMMA NextTyped ==
    ASSUME SessionAssumption, SerialAssumption, Typed, [Next]_vars PROVE Typed'
<1>1. CASE Start
  BY <1>1, StartKeeps
<1>2. CASE Host
  BY <1>2, AsksKeep, ReadsKeep, ReopenKeeps, DataKeeps, ConsoleKeeps DEF Host
<1>3. CASE Interrupt
  BY <1>3, ConsoleKeeps
<1>4. CASE Target
  BY <1>4, TCommandKeeps, TGetKeeps, TInitKeeps, TLoadKeeps, TAloneKeeps DEF Target
<1>5. CASE Program \/ ProgramReply \/ Boot
  BY <1>5, ProgramKeeps
<1>6. CASE UNCHANGED vars
  BY <1>6, HostStays, TargetStays, LineStays DEF Typed, vars
<1>7. QED
  BY <1>1, <1>2, <1>3, <1>4, <1>5, <1>6 DEF Next

LEMMA AlwaysTyped == Spec => []Typed
<1>1. Init => Typed
  BY InitTyped
<1>2. Typed /\ [Next]_vars => Typed'
  BY NextTyped, SessionAssumption, SerialAssumption
<1>3. QED
  BY <1>1, <1>2, PTL DEF Spec

(* The variables have their types: whatever dc-tool is asked for and the   *)
(* target does, main of each stays within what it has to do.               *)
THEOREM TypeCorrect == Spec => []TypeOK
<1>1. Typed => TypeOK
  BY DEF Typed, HostTyped, TargetTyped, Stepping, Flagged, Kept, TypeOK
<1>2. QED
  BY <1>1, AlwaysTyped, PTL
-----------------------------------------------------------------------------
(* dcload's flag is set while a program runs, and while dcload is about to *)
(* start one: the flag survives the program.                               *)
Running == tstate \in {"program", "calling"}
ScreenKnown == /\ Running \/ (tstate = "A" /\ tpc # 1) => booted
               /\ tstate = "A" => twait = FALSE
               /\ OwnScreen

LEMMA RunScript ==
    /\ Len(TScript("A")) = 4
    /\ TScript("A")[1].do = "screen"
    /\ \A k \in {1, 2, 3, 4} : TScript("A")[k].do # "send"
<1>1. /\ Len(TScript("A")) = 4
      /\ TScript("A")[1] = Step("screen", "")
      /\ TScript("A")[2] = Step("get", "addr")
      /\ TScript("A")[3] = Step("get", "console")
      /\ TScript("A")[4] = Step("go", "")
  BY DEF TScript
<1>2. \A do, value : Step(do, value).do = do
  BY DEF Step
<1>3. /\ TScript("A")[1].do = "screen" /\ TScript("A")[2].do = "get"
      /\ TScript("A")[3].do = "get" /\ TScript("A")[4].do = "go"
  BY <1>1, <1>2
<1>4. QED
  BY <1>1, <1>3

LEMMA DoesGo ==
    ASSUME TargetTyped, TDoing("go")
    PROVE  tstate = "A" /\ tpc = 4
<1>1. tstate \in Commands /\ tpc \in 1 .. Len(TScript(tstate)) /\ TScript(tstate)[tpc].do = "go"
  BY DEF TDoing, TargetTyped, Stepping
<1> DEFINE Goes(command, k, do) == do = "go" => command = "A" /\ k = 4
           Goal == tstate = "A" /\ tpc = 4
<1>2. \A command, k, last, do, value :
          TargetAt(command, k, last, do, value) /\ Goes(command, k, do) => Goal
  BY <1>1 DEF TargetAt, Step
<1>3. /\ \A command, k : /\ Goes(command, k, "screen") /\ Goes(command, k, "get")
                         /\ Goes(command, k, "load") /\ Goes(command, k, "send")
                         /\ Goes(command, k, "redirect") /\ Goes(command, k, "init")
                         /\ Goes(command, k, "put") /\ Goes(command, k, "name")
      /\ Goes("A", 4, "go")
  OBVIOUS
<1>4. Goal
  <2> HIDE DEF Goes, Goal
  <2> QED
    BY <1>1, <1>2, <1>3, TargetSteps
<1>5. QED
  BY <1>4

LEMMA ScreenStays ==
    ASSUME ScreenKnown, UNCHANGED <<tstate, tpc, twait, booted, screen>> PROVE ScreenKnown'
  BY DEF ScreenKnown, Running, OwnScreen

(* A command goes on behind its first step, which sets the screen up if it *)
(* is the one that starts a program.                                       *)
LEMMA ScreenGoesOn ==
    ASSUME Typed, ScreenKnown, tstate \in Commands, TAdvance, UNCHANGED <<booted, screen>>,
           tstate = "A" => tpc # 1
    PROVE  ScreenKnown'
<1>1. tstate' = tstate \/ (tstate' = "idle" /\ tpc' = 1)
  BY DEF TAdvance
<1>2. ~Running /\ ~Running'
  BY <1>1 DEF Running, Commands
<1>3. (tstate' = "A" => tstate = "A") /\ twait' = FALSE
  BY <1>1 DEF TAdvance
<1>4. QED
  BY <1>2, <1>3, Zenon DEF ScreenKnown, Running, OwnScreen

LEMMA NextScreen == ASSUME Typed, ScreenKnown, [Next]_vars PROVE ScreenKnown'
<1>1. TargetTyped
  BY DEF Typed
<1>2. CASE Start \/ Host \/ Interrupt \/ UNCHANGED vars
  BY <1>2, ScreenStays
     DEF Start, Host, HCommand, HUint, HEcho, HReopen, HRecv, HData, HAnswer, HFetch, HServe,
         HExit, Interrupt, vars, targetVars, programVars
<1>3. CASE TCommand
  <2>1. /\ tpc' = 1 /\ twait' = FALSE /\ booted' = booted /\ screen' = screen
        /\ tstate = "idle"
    BY <1>1, <1>3 DEF TCommand, TargetTyped, Stepping, Commands, programVars
  <2>2. tstate' \in Commands \cup {"idle"}
    BY <1>3 DEF TCommand
  <2>3. ~Running /\ ~Running'
    BY <2>1, <2>2 DEF Running, Commands
  <2>4. QED
    BY <2>1, <2>3, Zenon DEF ScreenKnown, Running, OwnScreen
<1>4. CASE TScreen
  <2>1. tstate \in Commands /\ TAdvance /\ booted' = TRUE /\ twait' = FALSE
    BY <1>4 DEF TScreen, TDoing, TAdvance
  <2>2. tstate' \in Commands \cup {"idle"}
    BY <2>1 DEF TAdvance
  <2>3. ~Running /\ ~Running'
    BY <2>1, <2>2 DEF Running, Commands
  <2>4. screen' = "dcload"
    <3>1. CASE booted
      BY <1>4, <2>3, <3>1 DEF TScreen, ScreenKnown, OwnScreen, Running
    <3>2. CASE ~booted
      BY <1>4, <3>2 DEF TScreen
    <3>3. QED
      BY <3>1, <3>2
  <2>5. QED
    BY <2>1, <2>3, <2>4 DEF ScreenKnown, OwnScreen
<1>5. CASE TGet \/ TPut \/ TLoad \/ TAnswer \/ TRedirect \/ TInit
  <2>1. tstate \in Commands /\ TAdvance /\ booted' = booted /\ screen' = screen
    BY <1>5 DEF TGet, TPut, TLoad, TAnswer, TRedirect, TInit, TDoing, programVars
  <2>2. tstate = "A" => tpc # 1
    <3>1. CASE TAnswer
      BY <3>1 DEF TAnswer, ScreenKnown
    <3>2. CASE ~TAnswer
      BY <1>5, <3>2, RunScript DEF TGet, TPut, TLoad, TRedirect, TInit, TDoing
    <3>3. QED
      BY <3>1, <3>2
  <2>3. QED
    BY <2>1, <2>2, ScreenGoesOn
<1>6. CASE TSend
  <2>1. tstate # "A"
    <3>1. tpc \in 1 .. Len(TScript(tstate)) /\ TScript(tstate)[tpc].do = "send"
      BY <1>1, <1>6 DEF TSend, TDoing, TargetTyped, Stepping
    <3>2. tstate = "A" => Len(TScript(tstate)) = 4
      BY RunScript
    <3>3. tstate = "A" => tpc \in {1, 2, 3, 4}
      BY <3>1, <3>2
    <3>4. QED
      BY <3>1, <3>3, RunScript
  <2>2. UNCHANGED <<tstate, tpc, booted, screen>>
    BY <1>6 DEF TSend, programVars
  <2>3. QED
    BY <2>1, <2>2 DEF ScreenKnown, Running, OwnScreen
<1>7. CASE TGo
  <2>1. booted /\ booted' = booted /\ tstate' = "program"
    BY <1>1, <1>7, DoesGo DEF TGo, ScreenKnown
  <2>2. QED
    BY <2>1 DEF ScreenKnown, Running, OwnScreen
<1>8. CASE ProgramCall \/ ProgramReply
  <2>1. Running /\ Running' /\ booted' = booted
    BY <1>8 DEF ProgramCall, ProgramReply, Running, programVars
  <2>2. QED
    BY <2>1 DEF ScreenKnown, Running, OwnScreen
<1>9. CASE ProgramEnd \/ ProgramFault
  <2>1. booted /\ tstate' = "idle" /\ booted' = ~booted
    BY <1>9 DEF ProgramEnd, ProgramFault, MainStarts, ScreenAtStart, ScreenKnown, Running
  <2>2. QED
    BY <2>1 DEF ScreenKnown, Running, OwnScreen
<1>10. CASE Boot
  <2>1. tstate' = "idle" /\ booted' = TRUE /\ screen' = "dcload"
    BY <1>10 DEF Boot
  <2>2. QED
    BY <2>1 DEF ScreenKnown, Running, OwnScreen
<1>11. QED
  BY <1>2, <1>3, <1>4, <1>5, <1>6, <1>7, <1>8, <1>9, <1>10 DEF Next, Target, Program

(* dcload draws on its own screen only.                                    *)
THEOREM ScreenOwned == Spec => []OwnScreen
<1>1. Init => ScreenKnown
  BY DEF Init, ScreenKnown, Running, OwnScreen
<1>2. Typed /\ ScreenKnown /\ [Next]_vars => ScreenKnown'
  BY NextScreen
<1>3. ScreenKnown => OwnScreen
  BY DEF ScreenKnown
<1>4. QED
  BY <1>1, <1>2, <1>3, AlwaysTyped, PTL DEF Spec
-----------------------------------------------------------------------------
(* Which settings dc-tool has kept, while it is at work for a program: the *)
(* ones it found, if it has opened the port once, and else its own for the *)
(* initial speed, as soon as it has opened the port for the last time.     *)
AtWorkForProgram == hstate \in {"main", "console"} /\ opts.command = "x"
ToReopen == hstate = "main" /\ place.part = "speed" /\ hpc <= 3
PortKept ==
    /\ hstate = "console" => opts.command = "x"
    /\ AtWorkForProgram /\ opts.speed = Initial => oldtio = Found
    /\ ToReopen /\ hpc = 3 => hwait = "none"
    /\ AtWorkForProgram /\ opts.speed # Initial /\ ToReopen => port = SupportedSpeed(Initial)
    /\ AtWorkForProgram /\ opts.speed # Initial /\ ~ToReopen => oldtio = SupportedSpeed(Initial)

(* A speed that was replaced by the initial one was replaced by one that   *)
(* the host supports.                                                      *)
LEMMA FellBack ==
    ASSUME NEW o, o.speed # Initial, Speed(o) = Initial
    PROVE  SupportedSpeed(Initial) = Initial
  BY DEF Speed, SupportedSpeed, FallBack, Initial

LEMMA SpeedPart ==
    ASSUME SessionAssumption, HostTyped, hstate = "main", place.part = "speed"
    PROVE  /\ Len(HostScript) = 5 /\ hpc \in {1, 2, 3, 4, 5} /\ place = Place("speed", 0)
           /\ hpc \in {1, 2, 4} => HostScript[hpc].do \in {"command", "uint"}
           /\ hpc = 3 => HostScript[hpc].do = "reopen"
           /\ hpc = 5 => HostScript[hpc].do = "recv"
<1>1. Placed(opts, place) /\ hpc \in 1 .. Len(HostScript) /\ opts \in Invocations
  BY DEF HostTyped
<1>2. place = Place("speed", 0)
  BY <1>1 DEF Placed, Place, PutSpeedBack
<1>3. Len(HostScript) = 5 /\ InSpeed("speed", Speed(opts))
  BY <1>1, <1>2, HostSteps DEF Place, PutSpeedBack
<1>4. \A k, do, value : HostAt("speed", k, do, value) => HostScript[hpc].do = do /\ hpc = k
  BY StepMeans DEF HostAt
<1>5. QED
  BY <1>1, <1>2, <1>3, <1>4 DEF InSpeed

LEMMA NoSecondSpeed == \A o, p : After(o, p).part # "speed"
  BY DEF After, FromSpeed, FromRedirect, FromSection, FromUpload, Place, End, PutSpeedBack

LEMMA PortStays ==
    ASSUME PortKept, UNCHANGED <<opts, hstate, place, hpc, port, oldtio>>,
           hwait' = hwait \/ ~(ToReopen /\ hpc = 3)
    PROVE  PortKept'
  BY DEF PortKept, AtWorkForProgram, ToReopen

LEMMA PortAdvances ==
    ASSUME SessionAssumption, HostTyped, PortKept, hstate = "main", HAdvance,
           UNCHANGED <<opts, port, oldtio>>, ~(ToReopen /\ hpc = 3)
    PROVE  PortKept'
<1>1. hstate' = "console" => opts'.command = "x"
  BY DEF HAdvance, HostAfter
<1>2. hstate' \in {"main", "console"} /\ opts.command = "x" => AtWorkForProgram
  BY DEF AtWorkForProgram
<1>3. CASE ToReopen
  <2>1. hpc \in {1, 2} /\ Len(HostScript) = 5
    BY <1>3, SpeedPart DEF ToReopen
  <2>2. hpc' = hpc + 1 /\ place' = place /\ hstate' = hstate /\ hwait' = "none"
    BY <2>1 DEF HAdvance
  <2>3. QED
    BY <1>3, <2>1, <2>2 DEF PortKept, AtWorkForProgram, ToReopen
<1>4. CASE ~ToReopen
  <2>1. ~ToReopen'
    <3>1. CASE hpc < Len(HostScript)
      <4>1. hpc' = hpc + 1 /\ place' = place
        BY <3>1 DEF HAdvance
      <4>2. place.part = "speed" => hpc \in {4, 5}
        BY <1>4, SpeedPart DEF ToReopen
      <4>3. QED
        BY <4>1, <4>2 DEF ToReopen
    <3>2. CASE ~(hpc < Len(HostScript))
      BY <3>2, NoSecondSpeed DEF HAdvance, ToReopen
    <3>3. QED
      BY <3>1, <3>2
  <2>2. QED
    BY <1>1, <1>2, <1>4, <2>1 DEF PortKept, AtWorkForProgram
<1>5. QED
  BY <1>3, <1>4

LEMMA PlacesKnown ==
    ASSUME NEW o
    PROVE  /\ Placed(o, Place("speed", 0)) => o.speed # Initial
           /\ Placed(o, PutSpeedBack) => o.command \in {"u", "d"}
<1>1. Placed(o, Place("speed", 0)) => Speed(o) # Initial
  BY DEF Placed, Place, PutSpeedBack
<1>2. QED
  BY <1>1 DEF Placed, Place, PutSpeedBack, Speed

LEMMA PortReopened ==
    ASSUME SessionAssumption, SerialAssumption, Typed, PortKept, HReopen PROVE PortKept'
<1>1. /\ HDoing("reopen") /\ HAdvance /\ OpenPort(HValue) /\ hstate = "main" /\ hwait = "none"
      /\ opts' = opts /\ HostTyped
  BY DEF HReopen, HDoing, Typed
<1>2. Placed(opts, place) /\ hpc \in 1 .. Len(HostScript) /\ opts \in Invocations
  BY <1>1 DEF HostTyped
<1>3. CASE place = Place("speed", 0)
  <2>1. hpc = 3 /\ Len(HostScript) = 5 /\ place.part = "speed"
    BY <1>1, <1>3, SpeedPart DEF HDoing, Place
  <2>2. hpc' = 4 /\ place' = place /\ hstate' = "main"
    BY <1>1, <2>1 DEF HAdvance
  <2>3. opts.speed # Initial /\ oldtio' = port
    BY <1>1, <1>2, <1>3, PlacesKnown DEF OpenPort
  <2>4. QED
    BY <1>1, <2>1, <2>2, <2>3 DEF PortKept, AtWorkForProgram, ToReopen
<1>4. CASE place = PutSpeedBack
  <2>1. opts.command \in {"u", "d"}
    BY <1>2, <1>4, PlacesKnown
  <2>2. hstate' \in {"main", HostAfter(opts)} /\ hwait' = "none"
    BY <1>1 DEF HAdvance
  <2>3. hstate' # "console" /\ ~AtWorkForProgram'
    BY <1>1, <2>1, <2>2 DEF AtWorkForProgram, HostAfter
  <2>4. QED
    BY <2>2, <2>3 DEF PortKept
<1>5. CASE InRedirect \/ InUpload \/ InExecute \/ InDownload
  <2>1. HostScript[hpc].do \in {"command", "uint", "data", "fetch"}
    BY <1>5, StepMeans DEF InRedirect, InUpload, InExecute, InDownload
  <2>2. QED
    BY <1>1, <2>1 DEF HDoing
<1>6. QED
  BY <1>2, <1>3, <1>4, <1>5, HostSteps

LEMMA PortFound == ASSUME Typed, PortKept, Start PROVE PortKept'
<1>1. /\ hpc' = 1 /\ hwait' = "none" /\ place' = From(opts')
      /\ hstate' = IF place' = End THEN HostAfter(opts') ELSE "main"
      /\ port' = IF NotStarted(opts') THEN Found ELSE SupportedSpeed(Initial)
      /\ oldtio' = IF NotStarted(opts') \/ opts'.speed = Initial THEN Found ELSE Speed(opts')
  BY DEF Start, Typed, HostTyped
<1>2. CASE NotStarted(opts')
  BY <1>1, <1>2 DEF PortKept, AtWorkForProgram, HostAfter, From
<1>3. CASE ~NotStarted(opts') /\ Speed(opts') # Initial
  <2>1. place' = Place("speed", 0) /\ hstate' = "main"
    BY <1>1, <1>3 DEF From, Place, End
  <2>2. opts'.speed # Initial /\ ToReopen'
    BY <1>1, <1>3, <2>1 DEF ToReopen, Place, Speed
  <2>3. QED
    BY <1>1, <1>3, <2>1, <2>2 DEF PortKept
<1>4. CASE ~NotStarted(opts') /\ Speed(opts') = Initial
  <2>1. ~ToReopen'
    BY <1>1, <1>4 DEF ToReopen, From, FromSpeed, FromRedirect, FromSection, FromUpload, Place,
                      End, PutSpeedBack
  <2>2. opts'.speed # Initial => oldtio' = SupportedSpeed(Initial)
    BY <1>1, <1>4, FellBack
  <2>3. opts'.speed = Initial => oldtio' = Found
    BY <1>1
  <2>4. hstate' = "console" => opts'.command = "x"
    BY <1>1 DEF HostAfter
  <2>5. QED
    BY <2>1, <2>2, <2>3, <2>4 DEF PortKept
<1>5. QED
  BY <1>2, <1>3, <1>4

LEMMA NextPort ==
    ASSUME SessionAssumption, SerialAssumption, Typed, PortKept, [Next]_vars PROVE PortKept'
<1>1. CASE Start
  BY <1>1, PortFound
<1>2. CASE HReopen
  BY <1>2, PortReopened
<1>3. CASE HEcho \/ HRecv \/ HAnswer \/ HFetch \/ HData
  <2>1. hstate = "main" /\ HostTyped /\ UNCHANGED <<opts, port, oldtio>>
    BY <1>3 DEF HEcho, HRecv, HAnswer, HFetch, HData, HDoing, portVars, Typed
  <2>2. ~(ToReopen /\ hpc = 3)
    <3>1. CASE hwait = "none" /\ HostScript[hpc].do \in {"recv", "fetch", "data"}
      BY <2>1, <3>1, SpeedPart DEF ToReopen
    <3>2. CASE hwait # "none"
      BY <3>2 DEF PortKept
    <3>3. QED
      BY <1>3, <3>1, <3>2 DEF HEcho, HRecv, HAnswer, HFetch, HData, HDoing
  <2>3. CASE HAdvance
    BY <2>1, <2>2, <2>3, PortAdvances
  <2>4. CASE UNCHANGED <<hstate, place, hpc>>
    BY <2>1, <2>2, <2>4, PortStays
  <2>5. QED
    BY <1>3, <2>3, <2>4 DEF HEcho, HRecv, HAnswer, HFetch, HData
<1>4. CASE HCommand \/ HUint
  <2>1. hstate = "main" /\ HostTyped /\ HostScript[hpc].do \in {"command", "uint"}
    BY <1>4 DEF HCommand, HUint, HDoing, Typed
  <2>2. ~(ToReopen /\ hpc = 3)
    BY <2>1, SpeedPart DEF ToReopen
  <2>3. UNCHANGED <<opts, hstate, place, hpc, port, oldtio>>
    BY <1>4 DEF HCommand, HUint, portVars
  <2>4. QED
    BY <2>2, <2>3, PortStays
<1>5. CASE HExit \/ Interrupt
  BY <1>5 DEF HExit, Interrupt, PortKept, AtWorkForProgram, ToReopen
<1>6. CASE HServe \/ Target \/ Program \/ ProgramReply \/ Boot \/ UNCHANGED vars
  <2>1. UNCHANGED hostVars
    BY <1>6 DEF HServe, Target, TCommand, TScreen, TGet, TPut, TLoad, TSend, TAnswer, TRedirect,
                TInit, TGo, Program, ProgramCall, ProgramEnd, ProgramFault, ProgramReply, Boot, vars
  <2>2. QED
    BY <2>1, PortStays DEF hostVars, portVars
<1>7. QED
  BY <1>1, <1>2, <1>3, <1>4, <1>5, <1>6 DEF Next, Host

(* Which settings a program's exit puts back, at every speed, known to the *)
(* host or not.                                                            *)
THEOREM PortAtExit == Spec => PortPutBack
<1> DEFINE PutBack == hstate = "console" /\ hstate' = "gone" /\ toHost # toHost' =>
                      port' = IF opts.speed = Initial THEN Found ELSE SupportedSpeed(Initial)
<1>1. Init => PortKept
  BY DEF Init, PortKept, AtWorkForProgram
<1>2. Typed /\ PortKept /\ [Next]_vars => PortKept'
  BY NextPort, SessionAssumption, SerialAssumption
<1>3. PortKept /\ [Next]_vars => [PutBack]_vars
  <2> SUFFICES ASSUME PortKept, [Next]_vars, hstate = "console", hstate' = "gone",
                      toHost # toHost'
               PROVE  port' = IF opts.speed = Initial THEN Found ELSE SupportedSpeed(Initial)
    BY DEF vars
  <2>1. oldtio = IF opts.speed = Initial THEN Found ELSE SupportedSpeed(Initial)
    BY DEF PortKept, AtWorkForProgram, ToReopen
  <2>2. HExit
    BY DEF Next, Start, Host, HCommand, HUint, HEcho, HReopen, HRecv, HData, HAnswer, HFetch,
           HServe, Interrupt, HDoing, Target, TCommand, TScreen, TGet, TPut, TLoad, TSend,
           TAnswer, TRedirect, TInit, TGo, Program, ProgramCall, ProgramEnd, ProgramFault,
           ProgramReply, Boot, vars, hostVars
  <2>3. QED
    BY <2>1, <2>2 DEF HExit, FinishSerial
<1>4. QED
  BY <1>1, <1>2, <1>3, AlwaysTyped, PTL DEF Spec, PortPutBack

-----------------------------------------------------------------------------
(* Agreement: that the two mains agree on what comes next and at which     *)
(* speed, that the target is left as the next dc-tool expects it, that a   *)
(* program runs as it was asked for and that its calls are served.         *)
(*                                                                         *)
(* The session is in one of a dozen phases, each of which fixes what is on *)
(* both lines and how far the target is, relative to the step that main of *)
(* dc-tool is at.  What is fixed of the target is not one program counter: *)
(* it may be ahead by what it does without the line, and behind by what it *)
(* has still to do of the part before.                                     *)

(* What is assumed of a command line: the speeds of both ends can be read  *)
(* by each other; with another speed than the initial one, dc-tool gets as *)
(* far as to put it back, or to start the program; and CD reads are        *)
(* redirected for a program that runs, and a dc-tool that stays.           *)
Wanted(o) == Speed(o)
Pace(o) == Rate(Told(o, Wanted(o)))
Usual(o) ==
    Started(o) => /\ ~o.use_extclk
                  /\ Meets(Wanted(o), Pace(o)) /\ Meets(Pace(o), Wanted(o))
                  /\ Wanted(o) # Initial => Usable(o) /\ o.command # "none"
                  /\ o.command = "x" /\ o.cdfs_redir => Usable(o) /\ o.console
AllUsual == SupportedSpeed(Initial) = Initial /\ \A o \in Invocations : Usual(o)
-----------------------------------------------------------------------------
(* The speeds while main of dc-tool is at work.  The target changes its    *)
(* own one step ahead of the host.                                         *)
Slow == Rate(Initial)
Fast == Pace(opts)
Retimed == hpc > 3 \/ (tstate = "S" /\ tpc > 2)
HostPace == CASE place.part = "speed" -> IF hpc > 3 THEN Wanted(opts) ELSE Initial
              [] place.part = "restore" -> IF hpc > 3 THEN Initial ELSE Wanted(opts)
              [] OTHER -> Wanted(opts)
TargetPace == CASE place.part = "speed" -> IF Retimed THEN Fast ELSE Slow
                [] place.part = "restore" -> IF Retimed THEN Slow ELSE Fast
                [] OTHER -> Fast
InPace == hspeed = HostPace /\ tspeed = TargetPace

(* What has been loaded when main comes to a part, and where CD calls go.  *)
Images(sections) == {<<Sections(opts)[n].addr, Sections(opts)[n].size>> : n \in sections}
Before(o, p) == CASE p.part \in {"speed", "redirect"} -> {}
                  [] p.part = "upload" -> {n \in ToUpload(o) : n < p.section}
                  [] OTHER -> ToUpload(o)
HasLoaded(images, sections) == opts.command = "x" => images = Images(sections)
LoadedBefore == HasLoaded(loaded, Before(opts, place))
LoadedSection == HasLoaded(loaded, Before(opts, place) \cup {place.section})
Diverted == opts.command = "x" /\ opts.cdfs_redir
Pointed(diverted) == vector = IF diverted THEN "dcload" ELSE "bios"

(* The target is where it will next read what main sends in step k.        *)
At(command, k) == tstate = command /\ tpc = k /\ twait = FALSE
Beginning ==
    \/ /\ tstate = "idle" /\ LoadedBefore
       /\ Pointed(Diverted /\ place.part \in {"upload", "execute"})
    \/ /\ At("H", 1) /\ LoadedBefore
       /\ Diverted /\ place.part \in {"upload", "execute"} /\ Pointed(FALSE)
    \/ /\ At("B", 4) /\ tenv.size = 0
       /\ HasLoaded(loaded \cup {<<tenv.addr, tenv.size>>}, Before(opts, place))
       /\ place.part \in {"upload", "execute", "restore"} /\ Pointed(Diverted)
Changing(k, speed) ==
    /\ LoadedBefore /\ Pointed(FALSE)
    /\ \/ k = 2 /\ At("S", 1)
       \/ k = 3 /\ At("S", 2) /\ tenv.speed = Told(opts, speed)
       \/ k = 3 /\ At("S", 3)
       \/ k = 4 /\ At("S", 3)
       \/ k = 5 /\ At("S", 4) /\ tenv.check = Check
Redirecting(k) ==
    /\ k = 2 /\ LoadedBefore
    /\ (At("H", 1) /\ Pointed(FALSE)) \/ (tstate = "idle" /\ Pointed(TRUE))
Uploading(k) == LET section == Sections(opts)[place.section] IN
    /\ Pointed(Diverted)
    /\ \/ k = 2 /\ (At("B", 1) \/ At("B", 2)) /\ LoadedBefore
       \/ k = 3 /\ At("B", 3) /\ LoadedBefore /\ tenv.addr = section.addr
       \/ /\ k = 4 /\ At("B", 4) /\ LoadedBefore
          /\ tenv.addr = section.addr /\ tenv.size = section.size
       \/ k = 4 /\ tstate = "idle" /\ section.size = 0 /\ LoadedSection
Executing(k) ==
    /\ Pointed(Diverted) /\ LoadedBefore
    /\ \/ k = 2 /\ (At("A", 1) \/ At("A", 2))
       \/ k = 3 /\ At("A", 3) /\ tenv.addr = Entry(opts)
Last == IF opts.quiet THEN 4 ELSE 5
Sender == IF opts.quiet THEN "G" ELSE "F"
Downloading(k) ==
    /\ LoadedBefore /\ Pointed(FALSE)
    /\ \/ k \in 2..5 /\ At(Sender, IF opts.quiet THEN k - 1 ELSE k)
       \/ k = 2 /\ At("F", 1) /\ ~opts.quiet
Here(k) ==
    \/ k = 1 /\ Beginning
    \/ place.part = "speed" /\ Changing(k, Wanted(opts))
    \/ place.part = "restore" /\ Changing(k, Initial)
    \/ place.part = "redirect" /\ Redirecting(k)
    \/ place.part = "upload" /\ Uploading(k)
    \/ place.part = "execute" /\ Executing(k)
    \/ place.part = "download" /\ Downloading(k)
-----------------------------------------------------------------------------
(* The phases while main of dc-tool is at work and the target does what it *)
(* is told: nothing is on its way, a question, its echo; a block, and its  *)
(* answer; and what the target sends of its own accord at the end of a     *)
(* part, behind the echo of the last question.                             *)
Asks == HostScript[hpc].do \in {"command", "uint"}
Question == Item(HostScript[hpc].do, HValue, hspeed)
Echo(speed) == Item(HostScript[hpc].do, HValue, speed)
Paces == {Slow, Fast}

Free == hwait = "none" /\ toTarget = <<>> /\ toHost = <<>> /\ Here(hpc)
Asking == hwait = "echo" /\ Asks /\ toTarget = <<Question>> /\ toHost = <<>> /\ Here(hpc)
Echoing == /\ hwait = "echo" /\ Asks /\ toTarget = <<>> /\ Here(hpc + 1)
           /\ \E s \in Paces : Meets(s, hspeed) /\ toHost = <<Echo(s)>>
BlockSent == /\ hwait = "answer" /\ hpc = 4 /\ place.part = "upload" /\ HValue # 0
             /\ toTarget = <<Item("block", HValue, hspeed)>> /\ toHost = <<>>
             /\ At("B", 4) /\ Uploading(4)
BlockAnswered == /\ hwait = "answer" /\ hpc = 4 /\ place.part = "upload"
                 /\ toTarget = <<>> /\ tstate = "idle" /\ LoadedSection /\ Pointed(Diverted)
                 /\ \E s \in Paces : Meets(s, hspeed) /\ toHost = <<Item("good", 0, s)>>
Behind(item) ==  \* the item is on its way, alone or behind the echo of the last question
    \/ hwait = "none" /\ hpc = 5 /\ toHost = <<item>>
    \/ /\ hwait = "echo" /\ hpc = 4
       /\ \E s \in Paces : Meets(s, hspeed) /\ toHost = <<Echo(s), item>>
Checked == /\ place.part \in {"speed", "restore"} /\ LoadedBefore /\ Pointed(FALSE)
           /\ tstate = "idle" /\ toTarget = <<>>
           /\ \E s \in Paces : Meets(s, hspeed) /\ Behind(Item("uint", Check, s))
AtSend == tstate = Sender /\ tpc = Last /\ twait = TRUE
Sent == /\ place.part = "download" /\ LoadedBefore /\ Pointed(FALSE)
        /\ AtSend /\ toTarget = <<>>
        /\ \E s \in Paces : Meets(s, hspeed) /\ Behind(Item("block", tenv.size, s))
Fetched == /\ place.part = "restore" /\ opts.command = "d" /\ hpc = 1
           /\ Pointed(FALSE) /\ AtSend /\ toHost = <<>>
           /\ \/ hwait = "none" /\ toTarget = <<Item("good", 0, hspeed)>>
              \/ hwait = "echo" /\ toTarget = <<Item("good", 0, hspeed), Question>>

AtWork == /\ hstate = "main" /\ InPace
          /\ \/ Free \/ Asking \/ Echoing
             \/ BlockSent \/ BlockAnswered \/ Checked \/ Sent \/ Fetched
-----------------------------------------------------------------------------
(* The phases from the moment the target has all it needs to start the     *)
(* program: dc-tool may still have to read the echo of its last question.  *)
LastEcho(s) == Item("uint", IF opts.console THEN 1 ELSE 0, s)
Reading == place = Place("execute", 0) /\ hpc = 3 /\ hwait = "echo"
Nothing == \/ hstate # "main" /\ toHost = <<>>
           \/ /\ hstate = "main" /\ Reading
              /\ \E s \in Paces : Meets(s, hspeed) /\ toHost = <<LastEcho(s)>>
Only(item) == \/ hstate # "main" /\ toHost = <<item>>
              \/ /\ hstate = "main" /\ Reading
                 /\ \E s \in Paces : Meets(s, hspeed) /\ toHost = <<LastEcho(s), item>>
Follows == hstate \in {"main"} \cup (IF opts.console THEN {"console"} ELSE {"dumb", "gone"})
Launched == /\ opts.command = "x" /\ Usable(opts) /\ Follows
            /\ hspeed = Wanted(opts) /\ tspeed = Fast
            /\ tenv.addr = Entry(opts) /\ loaded = Images(ToUpload(opts)) /\ Pointed(Diverted)
Going == /\ At("A", 4) /\ Launched /\ toTarget = <<>> /\ Nothing
         /\ tenv.console = IF opts.console THEN 1 ELSE 0
InProgram == /\ tstate = "program" /\ Launched /\ tconsole = opts.console
             /\ toTarget = <<>> /\ Nothing
Calling == /\ tstate = "calling" /\ Launched /\ tconsole = opts.console /\ opts.console
           /\ \/ toTarget = <<>> /\ \E s \in Paces : Meets(s, hspeed) /\ Only(Item("call", 0, s))
              \/ /\ hstate = "console" /\ toHost = <<>>
                 /\ toTarget = <<Item("reply", 0, hspeed)>>
(* The target waits for a command, at the initial speed.                   *)
Resting == /\ tstate = "idle" /\ tspeed = Slow /\ Pointed(FALSE) /\ toTarget = <<>>
           /\ hstate = "main" => opts.command = "x" /\ Usable(opts) /\ hspeed = Wanted(opts)
           /\ \/ Nothing
              \/ /\ hstate \in {"main", "console"} /\ opts.console
                 /\ \E s \in Paces : Meets(s, hspeed) /\ Only(Item("exit", 0, s))

IInv == /\ saved = "bios"
        /\ AtWork \/ Going \/ InProgram \/ Calling \/ Resting
-----------------------------------------------------------------------------
(* Items and lines.                                                        *)
LEMMA ItemFields ==
    \A kind, value, speed : /\ Item(kind, value, speed).kind = kind
                            /\ Item(kind, value, speed).value = value
                            /\ Item(kind, value, speed).speed = speed
  BY DEF Item

LEMMA OneItem == \A a : /\ Head(<<a>>) = a
                        /\ Tail(<<a>>) = <<>>
                        /\ <<a>> # <<>>
                        /\ Append(<<>>, a) = <<a>>
  BY SMT

LEMMA TwoItems == \A a, b : /\ Head(<<a, b>>) = a
                            /\ Tail(<<a, b>>) = <<b>>
                            /\ <<a, b>> # <<>>
  BY SMT

LEMMA Appended == \A a, b : Append(<<a>>, b) = <<a, b>>
<1> TAKE a, b
<1> DEFINE S == {a, b}
           both == Append(<<a>>, b)
<1>1. <<a>> \in Seq(S) /\ <<a, b>> \in Seq(S) /\ b \in S
  OBVIOUS
<1>2. /\ both \in Seq(S) /\ Len(both) = 2 /\ both[1] = a /\ both[2] = b
  <2> HIDE DEF S
  <2> QED
    BY <1>1, AppendProperties
<1>3. \A i \in 1..2 : both[i] = <<a, b>>[i]
  <2> HIDE DEF both
  <2> QED
    BY <1>2
<1>4. QED
  <2> HIDE DEF both, S
  <2>1. both = <<a, b>>
    BY <1>1, <1>2, <1>3, SeqEqual
  <2>2. QED
    BY <2>1 DEF both

LEMMA OneIsNotTwo == \A a, b, c : <<a>> # <<b, c>>
  BY SMT

(* The next step of a command, how many it has and what it means.          *)
TargetDo(command, k, last, do, value) ==
    /\ tstate = command /\ tpc = k /\ Len(TScript(tstate)) = last /\ twait \in BOOLEAN
    /\ TScript(tstate)[tpc].do = do /\ TScript(tstate)[tpc].value = value

LEMMA TargetDoes ==
    ASSUME TargetTyped, tstate \in Commands
    PROVE  \/ TargetDo("A", 1, 4, "screen", "") \/ TargetDo("A", 2, 4, "get", "addr")
           \/ TargetDo("A", 3, 4, "get", "console") \/ TargetDo("A", 4, 4, "go", "")
           \/ TargetDo("B", 1, 4, "screen", "") \/ TargetDo("B", 2, 4, "get", "addr")
           \/ TargetDo("B", 3, 4, "get", "size") \/ TargetDo("B", 4, 4, "load", "")
           \/ TargetDo("D", 1, 4, "screen", "") \/ TargetDo("D", 2, 4, "get", "addr")
           \/ TargetDo("D", 3, 4, "get", "size") \/ TargetDo("D", 4, 4, "send", "")
           \/ TargetDo("E", 1, 3, "get", "addr") \/ TargetDo("E", 2, 3, "get", "size")
           \/ TargetDo("E", 3, 3, "send", "")
           \/ TargetDo("F", 1, 5, "screen", "") \/ TargetDo("F", 2, 5, "get", "addr")
           \/ TargetDo("F", 3, 5, "get", "size") \/ TargetDo("F", 4, 5, "get", "wrkmem")
           \/ TargetDo("F", 5, 5, "send", "")
           \/ TargetDo("G", 1, 4, "get", "addr") \/ TargetDo("G", 2, 4, "get", "size")
           \/ TargetDo("G", 3, 4, "get", "wrkmem") \/ TargetDo("G", 4, 4, "send", "")
           \/ TargetDo("H", 1, 1, "redirect", "")
           \/ TargetDo("S", 1, 4, "get", "speed") \/ TargetDo("S", 2, 4, "init", "")
           \/ TargetDo("S", 3, 4, "get", "check") \/ TargetDo("S", 4, 4, "put", "check")
           \/ TargetDo("V", 1, 1, "name", "")
<1>1. tpc \in 1 .. Len(TScript(tstate)) /\ twait \in BOOLEAN
  BY DEF TargetTyped, Stepping
<1>2. \A command, k, last, do, value :
          TargetAt(command, k, last, do, value) => TargetDo(command, k, last, do, value)
  BY <1>1 DEF TargetAt, TargetDo, Step
<1>3. QED
  BY <1>1, <1>2, TargetSteps

(* What a command does, step by step.                                      *)
LEMMA ScreenMoves ==
    ASSUME TargetTyped, TScreen
    PROVE  /\ tstate \in {"A", "B", "D", "F"} /\ tpc = 1 /\ twait = FALSE
           /\ tstate' = tstate /\ tpc' = 2 /\ twait' = FALSE
<1>1. tstate \in Commands /\ ~twait /\ TScript(tstate)[tpc].do = "screen" /\ TAdvance
  BY DEF TScreen, TDoing
<1>2. tstate \in {"A", "B", "D", "F"} /\ tpc = 1 /\ twait = FALSE /\ Len(TScript(tstate)) \in {4, 5}
  BY <1>1, TargetDoes DEF TargetDo
<1>3. QED
  BY <1>1, <1>2 DEF TAdvance

LEMMA RedirectMoves ==
    ASSUME TargetTyped, TRedirect
    PROVE  /\ tstate = "H" /\ tpc = 1 /\ twait = FALSE
           /\ tstate' = "idle" /\ tpc' = 1 /\ twait' = FALSE
<1>1. tstate \in Commands /\ ~twait /\ TScript(tstate)[tpc].do = "redirect" /\ TAdvance
  BY DEF TRedirect, TDoing
<1>2. tstate = "H" /\ tpc = 1 /\ twait = FALSE /\ Len(TScript(tstate)) = 1
  BY <1>1, TargetDoes DEF TargetDo
<1>3. ~(tpc < Len(TScript(tstate)))
  <2>1. tpc = Len(TScript(tstate)) /\ tpc \in Nat
    BY <1>2
  <2>2. QED
    BY <2>1
<1>4. QED
  BY <1>1, <1>2, <1>3 DEF TAdvance

LEMMA InitMoves ==
    ASSUME TargetTyped, TInit
    PROVE  /\ tstate = "S" /\ tpc = 2 /\ twait = FALSE
           /\ tstate' = "S" /\ tpc' = 3 /\ twait' = FALSE
<1>1. tstate \in Commands /\ ~twait /\ TScript(tstate)[tpc].do = "init" /\ TAdvance
  BY DEF TInit, TDoing
<1>2. tstate = "S" /\ tpc = 2 /\ twait = FALSE /\ Len(TScript(tstate)) = 4
  BY <1>1, TargetDoes DEF TargetDo
<1>3. QED
  BY <1>1, <1>2 DEF TAdvance

LEMMA PutMoves ==
    ASSUME TargetTyped, TPut
    PROVE  /\ tstate = "S" /\ tpc = 4 /\ twait = FALSE
           /\ tstate' = "idle" /\ tpc' = 1 /\ twait' = FALSE
           /\ TWrites("uint", tenv.check)
<1>1. tstate \in Commands /\ ~twait /\ TScript(tstate)[tpc].do = "put" /\ TAdvance
  BY DEF TPut, TDoing
<1>2. tstate = "S" /\ tpc = 4 /\ twait = FALSE /\ Len(TScript(tstate)) = 4
  BY <1>1, TargetDoes DEF TargetDo
<1>3. TScript(tstate)[tpc].value = "check"
  BY <1>1, TargetDoes DEF TargetDo
<1>4. TWrites("uint", tenv.check)
  BY <1>3 DEF TPut, TWrites
<1>5. ~(tpc < Len(TScript(tstate)))
  <2>1. tpc = Len(TScript(tstate)) /\ tpc \in Nat
    BY <1>2
  <2>2. QED
    BY <2>1
<1>6. QED
  BY <1>1, <1>2, <1>5, <1>4 DEF TAdvance

LEMMA LoadMoves ==
    ASSUME TargetTyped, TLoad
    PROVE  /\ tstate = "B" /\ tpc = 4 /\ twait = FALSE
           /\ tstate' = "idle" /\ tpc' = 1 /\ twait' = FALSE
<1>1. tstate \in Commands /\ ~twait /\ TScript(tstate)[tpc].do = "load" /\ TAdvance
  BY DEF TLoad, TDoing
<1>2. tstate = "B" /\ tpc = 4 /\ twait = FALSE /\ Len(TScript(tstate)) = 4
  BY <1>1, TargetDoes DEF TargetDo
<1>3. ~(tpc < Len(TScript(tstate)))
  <2>1. tpc = Len(TScript(tstate)) /\ tpc \in Nat
    BY <1>2
  <2>2. QED
    BY <2>1
<1>4. QED
  BY <1>1, <1>2, <1>3 DEF TAdvance

LEMMA SendMoves ==
    ASSUME TargetTyped, TSend
    PROVE  /\ \/ tstate \in {"D", "G"} /\ tpc = 4
              \/ tstate = "E" /\ tpc = 3
              \/ tstate = "F" /\ tpc = 5
           /\ twait = FALSE
<1>1. tstate \in Commands /\ ~twait /\ TScript(tstate)[tpc].do = "send"
  BY DEF TSend, TDoing
<1>2. QED
  BY <1>1, TargetDoes DEF TargetDo

LEMMA GoMoves == ASSUME TargetTyped, TGo PROVE tstate = "A" /\ tpc = 4 /\ twait = FALSE
<1>1. TDoing("go") /\ twait \in BOOLEAN /\ ~twait
  BY DEF TGo, TDoing, TargetTyped, Stepping
<1>2. QED
  BY <1>1, DoesGo

(* What a command reads, it reads before its last step.                    *)
LEMMA GetMoves ==
    ASSUME TargetTyped, TGet
    PROVE  /\ tstate \in Commands /\ twait = FALSE
           /\ tstate' = tstate /\ tpc' = tpc + 1 /\ twait' = FALSE
           /\ tstate = "A" => \/ tpc = 2 /\ TScript(tstate)[tpc].value = "addr"
                              \/ tpc = 3 /\ TScript(tstate)[tpc].value = "console"
           /\ tstate = "B" => \/ tpc = 2 /\ TScript(tstate)[tpc].value = "addr"
                              \/ tpc = 3 /\ TScript(tstate)[tpc].value = "size"
           /\ tstate = "F" => tpc \in 2..4
           /\ tstate = "G" => tpc \in 1..3
           /\ tstate # "H"
           /\ tstate = "S" => \/ tpc = 1 /\ TScript(tstate)[tpc].value = "speed"
                              \/ tpc = 3 /\ TScript(tstate)[tpc].value = "check"
<1>1. tstate \in Commands /\ ~twait /\ TScript(tstate)[tpc].do = "get" /\ TAdvance
  BY DEF TGet, TDoing
<1>2. tpc < Len(TScript(tstate))
  <2>1. \/ tpc = 1 /\ Len(TScript(tstate)) \in {3, 4}
        \/ tpc = 2 /\ Len(TScript(tstate)) \in {3, 4, 5}
        \/ tpc = 3 /\ Len(TScript(tstate)) \in {4, 5}
        \/ tpc = 4 /\ Len(TScript(tstate)) = 5
    BY <1>1, TargetDoes DEF TargetDo
  <2> DEFINE last == Len(TScript(tstate))
  <2> HIDE DEF last
  <2>2. \/ tpc = 1 /\ last \in {3, 4}
        \/ tpc = 2 /\ last \in {3, 4, 5}
        \/ tpc = 3 /\ last \in {4, 5}
        \/ tpc = 4 /\ last = 5
    BY <2>1 DEF last
  <2>3. tpc < last
    BY <2>2
  <2>4. QED
    BY <2>3 DEF last
<1>3. /\ tstate = "A" => \/ tpc = 2 /\ TScript(tstate)[tpc].value = "addr"
                         \/ tpc = 3 /\ TScript(tstate)[tpc].value = "console"
      /\ tstate = "B" => \/ tpc = 2 /\ TScript(tstate)[tpc].value = "addr"
                         \/ tpc = 3 /\ TScript(tstate)[tpc].value = "size"
      /\ tstate = "S" => \/ tpc = 1 /\ TScript(tstate)[tpc].value = "speed"
                         \/ tpc = 3 /\ TScript(tstate)[tpc].value = "check"
  BY <1>1, TargetDoes DEF TargetDo
<1>4. /\ tstate = "F" => tpc \in 2..4
      /\ tstate = "G" => tpc \in 1..3
      /\ tstate # "H" /\ twait = FALSE
  BY <1>1, TargetDoes DEF TargetDo
<1>5. QED
  BY <1>1, <1>2, <1>3, <1>4 DEF TAdvance

LEMMA AnswerMoves ==
    ASSUME TargetTyped, TAnswer, AtSend
    PROVE  tstate' = "idle" /\ tpc' = 1 /\ twait' = FALSE
<1>1. tstate \in Commands /\ TAdvance
  BY DEF TAnswer
<1>2. tstate = Sender /\ tpc = Last
  BY DEF AtSend
<1>3. Len(TScript(tstate)) = Last
  BY <1>1, <1>2, TargetDoes DEF TargetDo, Sender, Last
<1>4. QED
  BY <1>1, <1>2, <1>3 DEF TAdvance, Last
-----------------------------------------------------------------------------
(* The next step of main of dc-tool, and how many its part has.            *)
HostDo(k, last, do, value) ==
    /\ hpc = k /\ (hpc < Len(HostScript) <=> k < last)
    /\ HostScript[hpc].do = do /\ HValue = value

SpeedDo(speed) ==
    \/ HostDo(1, 5, "command", "S") \/ HostDo(2, 5, "uint", Told(opts, speed))
    \/ HostDo(3, 5, "reopen", speed) \/ HostDo(4, 5, "uint", Check)
    \/ HostDo(5, 5, "recv", Check)
UploadDo == LET section == Sections(opts)[place.section] IN
    \/ HostDo(1, 4, "command", "B") \/ HostDo(2, 4, "uint", section.addr)
    \/ HostDo(3, 4, "uint", section.size) \/ HostDo(4, 4, "data", section.size)
ExecuteDo ==
    \/ HostDo(1, 3, "command", "A") \/ HostDo(2, 3, "uint", Entry(opts))
    \/ HostDo(3, 3, "uint", IF opts.console THEN 1 ELSE 0)
DownloadDo ==
    \/ HostDo(1, 5, "command", Sender) \/ HostDo(2, 5, "uint", opts.address)
    \/ HostDo(3, 5, "uint", opts.size) \/ HostDo(4, 5, "uint", WorkMem)
    \/ HostDo(5, 5, "fetch", opts.size)

Grounds == SessionAssumption /\ SerialAssumption
Working == SessionAssumption /\ HostTyped /\ hstate = "main"

LEMMA DoAt ==
    \A part, k, last, do, value :
        HostAt(part, k, do, value) /\ Len(HostScript) = last => HostDo(k, last, do, value)
  BY DEF HostAt, HostDo, Step, HValue

LEMMA WorkingAt ==
    ASSUME Working
    PROVE  /\ opts \in Invocations /\ Placed(opts, place) /\ hpc \in 1 .. Len(HostScript)
           /\ SessionAssumption
  BY DEF Working, HostTyped

LEMMA PartIs ==
    ASSUME Working
    PROVE  /\ place.part \in {"speed", "redirect", "upload", "execute", "download", "restore"}
           /\ Started(opts) /\ opts \in Invocations
<1>1. opts \in Invocations /\ Placed(opts, place)
  BY WorkingAt
<1>2. QED
  BY <1>1 DEF Placed, Place, PutSpeedBack, Usable

LEMMA SpeedDoes ==
    ASSUME Working, place.part = "speed"
    PROVE  SpeedDo(Wanted(opts)) /\ place = Place("speed", 0) /\ Wanted(opts) # Initial
<1>1. place = Place("speed", 0) /\ Wanted(opts) # Initial
  BY WorkingAt DEF Placed, Place, PutSpeedBack, Wanted
<1>2. Len(HostScript) = 5 /\ InSpeed("speed", Wanted(opts))
  BY WorkingAt, HostSteps, <1>1 DEF Place, PutSpeedBack, Wanted
<1>3. QED
  BY <1>1, <1>2, DoAt DEF InSpeed, SpeedDo

LEMMA RestoreDoes ==
    ASSUME Working, place.part = "restore"
    PROVE  /\ SpeedDo(Initial) /\ place = PutSpeedBack
           /\ Usable(opts) /\ opts.command \in {"u", "d"}
<1>1. place = PutSpeedBack /\ Usable(opts) /\ opts.command \in {"u", "d"}
  BY WorkingAt DEF Placed, Place, PutSpeedBack
<1>2. Len(HostScript) = 5 /\ InSpeed("restore", Initial)
  BY WorkingAt, HostSteps, <1>1 DEF Place, PutSpeedBack
<1>3. QED
  BY <1>1, <1>2, DoAt DEF InSpeed, SpeedDo

LEMMA RedirectDoes ==
    ASSUME Working, place.part = "redirect"
    PROVE  HostDo(1, 1, "command", "H") /\ place = Place("redirect", 0) /\ Diverted
<1>1. place = Place("redirect", 0) /\ Diverted
  BY WorkingAt DEF Placed, Place, PutSpeedBack, Diverted
<1>2. Len(HostScript) = 1 /\ InRedirect
  BY WorkingAt, HostSteps, <1>1 DEF Place, PutSpeedBack
<1>3. QED
  BY <1>1, <1>2, DoAt DEF InRedirect

LEMMA UploadDoes ==
    ASSUME Working, place.part = "upload"
    PROVE  /\ UploadDo /\ place.section \in ToUpload(opts)
           /\ place = Place("upload", place.section)
           /\ Usable(opts) /\ opts.command \in {"x", "u"}
<1>1. /\ place.section \in ToUpload(opts) /\ place = Place("upload", place.section)
      /\ Usable(opts) /\ opts.command \in {"x", "u"}
  BY WorkingAt DEF Placed, Place, PutSpeedBack
<1>2. Len(HostScript) = 4 /\ InUpload
  BY WorkingAt, HostSteps, <1>1 DEF Place, PutSpeedBack
<1>3. QED
  BY <1>1, <1>2, DoAt DEF InUpload, UploadDo

LEMMA ExecuteDoes ==
    ASSUME Working, place.part = "execute"
    PROVE  /\ ExecuteDo /\ place = Place("execute", 0)
           /\ Usable(opts) /\ opts.command = "x"
<1>1. place = Place("execute", 0) /\ Usable(opts) /\ opts.command = "x"
  BY WorkingAt DEF Placed, Place, PutSpeedBack
<1>2. Len(HostScript) = 3 /\ InExecute
  BY WorkingAt, HostSteps, <1>1 DEF Place, PutSpeedBack
<1>3. QED
  BY <1>1, <1>2, DoAt DEF InExecute, ExecuteDo

LEMMA DownloadDoes ==
    ASSUME Working, place.part = "download"
    PROVE  /\ DownloadDo /\ place = Place("download", 0)
           /\ Usable(opts) /\ opts.command = "d"
<1>1. place = Place("download", 0) /\ Usable(opts) /\ opts.command = "d"
  BY WorkingAt DEF Placed, Place, PutSpeedBack
<1>2. Len(HostScript) = 5 /\ InDownload
  BY WorkingAt, HostSteps, <1>1 DEF Place, PutSpeedBack
<1>3. QED
  BY <1>1, <1>2, DoAt DEF InDownload, DownloadDo, Sender
-----------------------------------------------------------------------------
(* What keeps the places.                                                  *)
Steady == UNCHANGED <<opts, place, tstate, tpc, twait, tenv, loaded, vector>>
LEMMA HereStays == ASSUME Steady PROVE \A k : Here(k) => Here(k)'
  BY DEF Steady, Here, Beginning, Changing, Redirecting, Uploading, Executing, Downloading,
         LoadedBefore, LoadedSection, HasLoaded, Images, Before, Pointed, Diverted, At, Wanted,
         Sender
LEMMA PaceStays ==
    ASSUME InPace, UNCHANGED <<opts, place, hspeed, tspeed, tstate, tpc>>,
           place.part \in {"speed", "restore"} => (hpc' > 3) = (hpc > 3)
    PROVE  InPace'
  BY DEF InPace, HostPace, TargetPace, Retimed, Fast, Slow, Pace, Wanted
-----------------------------------------------------------------------------
(* The speeds.                                                             *)
LEMMA SlowMeets == Meets(Initial, Slow) /\ Meets(Slow, Initial)
<1>1. Divisor(57600) = 26
  <2>1. Clock \div (32 * 57600) = 27
    BY SMT DEF Clock
  <2>2. QED
    BY <2>1, SMT DEF Divisor
<1>2. Slow = 57870
  BY <1>1, SMT DEF Slow, Rate, Initial, Clock
<1>3. QED
  BY <1>2, SMT DEF Meets, Initial, Tolerance

(* The two ends are at speeds of a pair.                                   *)
Paired == \/ hspeed = Initial /\ tspeed = Slow
          \/ hspeed = Wanted(opts) /\ tspeed = Fast

LEMMA PairMeets ==
    ASSUME Started(opts), Usual(opts), Paired
    PROVE  Meets(hspeed, tspeed) /\ Meets(tspeed, hspeed) /\ tspeed \in Paces
  BY SlowMeets DEF Paired, Usual, Paces, Fast

LEMMA PaceIsPaired ==
    ASSUME InPace, place.part \in {"speed", "restore"} => (Retimed => hpc > 3)
    PROVE  Paired
  BY DEF InPace, HostPace, TargetPace, Paired, Retimed
-----------------------------------------------------------------------------
(* What is known while main of dc-tool does not wait, and while it does.   *)
LEMMA NotWaiting ==
    ASSUME IInv, hstate = "main", hwait = "none"
    PROVE  InPace /\ (Free \/ Checked \/ Sent \/ Fetched)
<1>1. ~Nothing /\ \A item : ~Only(item)
  BY DEF Nothing, Only, Reading
<1>2. ~Going /\ ~InProgram
  BY <1>1 DEF Going, InProgram
<1>3. ~Calling
  BY <1>1 DEF Calling
<1>4. ~Resting
  BY <1>1 DEF Resting
<1>5. AtWork
  BY <1>2, <1>3, <1>4 DEF IInv
<1>6. QED
  BY <1>5 DEF AtWork, Asking, Echoing, BlockSent, BlockAnswered

LEMMA CheckedNext == ASSUME Working, Checked, hwait = "none" PROVE HostScript[hpc].do = "recv"
<1>1. hpc = 5
  BY DEF Checked, Behind
<1>2. QED
  BY <1>1, SpeedDoes, RestoreDoes DEF Checked, SpeedDo, HostDo

LEMMA SentNext == ASSUME Working, Sent, hwait = "none" PROVE HostScript[hpc].do = "fetch"
<1>1. hpc = 5
  BY DEF Sent, Behind
<1>2. QED
  BY <1>1, DownloadDoes DEF Sent, DownloadDo, HostDo

LEMMA FetchedNext ==
    ASSUME Working, Fetched PROVE HostDo(1, 5, "command", "S")
<1>1. hpc = 1 /\ place.part = "restore"
  BY DEF Fetched
<1>2. QED
  BY <1>1, RestoreDoes DEF SpeedDo, HostDo

(* dc-tool asks.                                                           *)
LEMMA HAsks == ASSUME Working, IInv, HCommand \/ HUint PROVE IInv'
<1>1. hstate = "main" /\ hwait = "none" /\ Asks
  BY DEF HCommand, HUint, HDoing, Asks
<1>2. toTarget' = Append(toTarget, Question) /\ hwait' = "echo" /\ toHost' = toHost
  BY DEF HCommand, HUint, HWrites, HDoing, Question
<1>3. /\ UNCHANGED <<opts, hstate, place, hpc, hspeed, tstate, tpc, tenv, twait, tspeed>>
      /\ UNCHANGED <<vector, saved, loaded>>
  BY DEF HCommand, HUint, portVars, targetVars, programVars, cdVars
<1>4. Question' = Question /\ Asks' = Asks
  BY <1>3 DEF Question, Asks, HValue, HostScript
<1>5. InPace'
  BY <1>1, <1>3, NotWaiting, PaceStays
<1>6. CASE Free
  <2>1. Here(hpc)'
    BY <1>3, <1>6, HereStays DEF Steady, Free
  <2>2. toTarget' = <<Question>>' /\ toHost' = <<>>
    BY <1>2, <1>4, <1>6, OneItem DEF Free
  <2>3. Asking'
    BY <1>1, <1>2, <1>4, <2>1, <2>2 DEF Asking
  <2>4. QED
    BY <1>1, <1>3, <1>5, <2>3 DEF IInv, AtWork
<1>7. CASE Fetched
  <2>1. toTarget' = <<Item("good", 0, hspeed), Question>>
    BY <1>1, <1>2, <1>7, Appended DEF Fetched
  <2>2. Fetched'
    BY <1>2, <1>3, <1>4, <1>7, <2>1 DEF Fetched, Pointed, AtSend, Sender, Last
  <2>3. QED
    BY <1>1, <1>3, <1>5, <2>2 DEF IInv, AtWork
<1>8. QED
  BY <1>1, <1>6, <1>7, NotWaiting, CheckedNext, SentNext DEF Asks
-----------------------------------------------------------------------------
(* From one part of main to the next.                                      *)
LEMMA BeforeSection ==
    ASSUME SessionAssumption, NEW o \in Invocations, NEW n \in Nat
    PROVE  Before(o, FromSection(o, n)) = {k \in ToUpload(o) : k <= n}
<1> DEFINE later == {k \in ToUpload(o) : k > n}
           least == CHOOSE k \in later : \A j \in later : k <= j
<1>1. ToUpload(o) \subseteq Nat
  BY SectionsFacts
<1>2. CASE later = {}
  <2>1. Before(o, FromSection(o, n)) = ToUpload(o)
    BY <1>2 DEF FromSection, FromUpload, Before, Place, PutSpeedBack
  <2>2. QED
    BY <1>1, <1>2, <2>1
<1>3. CASE later # {}
  <2>1. least \in later /\ \A j \in later : least <= j
    <3>1. later \subseteq Nat
      BY <1>1
    <3>2. \E k \in later : \A j \in later : k <= j
      <4> HIDE DEF later
      <4> QED
        BY <1>3, <3>1, LeastExists
    <3> HIDE DEF later
    <3>3. QED
      BY <3>2
  <2>2. FromSection(o, n) = Place("upload", least)
    BY <1>3 DEF FromSection
  <2>3. Before(o, FromSection(o, n)) = {k \in ToUpload(o) : k < least}
    <3> HIDE DEF least
    <3> QED
      BY <2>2 DEF Before, Place
  <2>4. \A k \in ToUpload(o) : k < least <=> k <= n
    <3> HIDE DEF least
    <3> QED
      BY <1>1, <2>1
  <2>5. QED
    <3> HIDE DEF least
    <3> QED
      BY <2>3, <2>4
<1>4. QED
  BY <1>2, <1>3

LEMMA SectionParts ==
    ASSUME NEW o, NEW n
    PROVE  /\ FromSection(o, n).part \in {"upload", "execute", "restore"}
           /\ FromSection(o, n).part = "restore" => o.command # "x"
  BY DEF FromSection, FromUpload, Place, PutSpeedBack

LEMMA AfterRedirect ==
    ASSUME SessionAssumption, NEW o \in Invocations, Usable(o), o.command # "none"
    PROVE  LET next == FromRedirect(o) IN
           /\ next # End /\ next.part \in {"upload", "execute", "download", "restore"}
           /\ o.command = "x" => next.part \in {"upload", "execute"} /\ Before(o, next) = {}
<1>1. CASE o.command = "d"
  <2>1. FromRedirect(o) = Place("download", 0)
    BY <1>1 DEF FromRedirect, Usable
  <2>2. QED
    BY <1>1, <2>1 DEF Place, End
<1>2. CASE o.command # "d"
  <2>1. o.command \in {"x", "u"}
    BY <1>2 DEF SessionAssumption
  <2>2. FromRedirect(o) = FromSection(o, 0)
    BY <1>2 DEF FromRedirect, Usable
  <2>3. FromSection(o, 0) # End
    BY <2>1, FromSectionPlaced
  <2>4. Before(o, FromSection(o, 0)) = {}
    <3>1. ToUpload(o) \subseteq Nat \ {0}
      BY SectionsFacts
    <3>2. Before(o, FromSection(o, 0)) = {k \in ToUpload(o) : k <= 0}
      BY BeforeSection
    <3>3. QED
      BY <3>1, <3>2
  <2>5. /\ FromRedirect(o) # End /\ FromRedirect(o).part \in {"upload", "execute", "restore"}
        /\ o.command = "x" => FromRedirect(o).part # "restore"
    BY <2>2, <2>3, SectionParts
  <2>6. QED
    BY <2>2, <2>4, <2>5
<1>3. QED
  BY <1>1, <1>2

LEMMA FirstPart ==
    ASSUME SessionAssumption, NEW o \in Invocations, Started(o),
           FromSpeed(o) # End \/ (Usable(o) /\ o.command # "none")
    PROVE  LET next == FromSpeed(o) IN
           /\ next # End
           /\ next.part \in {"redirect", "upload", "execute", "download", "restore"}
           /\ o.command = "x" /\ o.cdfs_redir => next.part = "redirect"
           /\ o.command = "x" => Before(o, next) = {}
<1>1. CASE o.command = "x" /\ o.cdfs_redir
  <2>1. FromSpeed(o) = Place("redirect", 0)
    BY <1>1 DEF FromSpeed
  <2>2. Before(o, Place("redirect", 0)) = {}
    BY DEF Before, Place
  <2>3. QED
    BY <1>1, <2>1, <2>2 DEF Place, End
<1>2. CASE ~(o.command = "x" /\ o.cdfs_redir)
  <2>1. FromSpeed(o) = FromRedirect(o)
    BY <1>2 DEF FromSpeed
  <2>2. Usable(o) /\ o.command # "none"
    BY <2>1 DEF FromRedirect, Usable
  <2>3. QED
    BY <1>2, <2>1, <2>2, AfterRedirect
<1>3. QED
  BY <1>1, <1>2

LEMMA AfterSpeed ==
    ASSUME Working, Usual(opts), place.part = "speed"
    PROVE  LET next == After(opts, place) IN
           /\ next # End
           /\ next.part \in {"redirect", "upload", "execute", "download", "restore"}
           /\ Diverted => next.part = "redirect"
           /\ LoadedBefore => HasLoaded(loaded, Before(opts, next))
<1>1. After(opts, place) = FromSpeed(opts)
  BY DEF After
<1>2. Usable(opts) /\ opts.command # "none" /\ opts \in Invocations /\ SessionAssumption
  BY PartIs, SpeedDoes, WorkingAt DEF Usual
<1>3. LoadedBefore => HasLoaded(loaded, {})
  BY DEF LoadedBefore, Before
<1>4. QED
  BY <1>1, <1>2, <1>3, FirstPart DEF Usable, Diverted, HasLoaded

LEMMA AfterRedirection ==
    ASSUME Working, Usual(opts), place.part = "redirect"
    PROVE  LET next == After(opts, place) IN
           /\ next # End /\ next.part \in {"upload", "execute"}
           /\ LoadedBefore => HasLoaded(loaded, Before(opts, next))
<1>1. After(opts, place) = FromRedirect(opts)
  BY DEF After
<1>2. Usable(opts) /\ opts.command = "x" /\ opts \in Invocations /\ SessionAssumption
  BY PartIs, RedirectDoes, WorkingAt DEF Usual, Diverted
<1>3. LoadedBefore => HasLoaded(loaded, {})
  BY DEF LoadedBefore, Before
<1>4. QED
  BY <1>1, <1>2, <1>3, AfterRedirect

LEMMA AfterUpload ==
    ASSUME Working, place.part = "upload"
    PROVE  LET next == After(opts, place) IN
           /\ next # End /\ next.part \in {"upload", "execute", "restore"}
           /\ next.part = "restore" => ~Diverted
           /\ LoadedSection => HasLoaded(loaded, Before(opts, next))
<1> DEFINE n == place.section
<1>1. After(opts, place) = FromSection(opts, n)
  BY DEF After
<1>2. /\ n \in ToUpload(opts) /\ Usable(opts) /\ opts.command \in {"x", "u"}
      /\ opts \in Invocations /\ SessionAssumption
  BY UploadDoes, WorkingAt
<1>3. ToUpload(opts) \subseteq Nat
  BY <1>2, SectionsFacts
<1>4. Before(opts, FromSection(opts, n)) = {k \in ToUpload(opts) : k <= n}
  BY <1>2, <1>3, BeforeSection
<1>5. Before(opts, place) \cup {n} = {k \in ToUpload(opts) : k <= n}
  BY <1>2, <1>3 DEF Before
<1>6. FromSection(opts, n) # End
  BY <1>2, <1>3, FromSectionPlaced
<1>7. QED
  BY <1>1, <1>4, <1>5, <1>6, SectionParts DEF LoadedSection, Diverted

LEMMA AfterDownload ==
    ASSUME Working, place.part = "download"
    PROVE  LET next == After(opts, place) IN
           /\ next # End /\ next.part = "restore" /\ ~Diverted /\ opts.command = "d"
           /\ HasLoaded(loaded, Before(opts, next))
<1>1. After(opts, place) = PutSpeedBack
  BY DEF After
<1>2. QED
  BY <1>1, DownloadDoes DEF PutSpeedBack, Place, End, Diverted, HasLoaded
-----------------------------------------------------------------------------
(* dc-tool goes on within a part, and to the next part.                    *)
LEMMA GoesOnHere ==
    ASSUME HAdvance, hpc < Len(HostScript), opts' = opts, UNCHANGED targetVars, Here(hpc + 1)
    PROVE  Here(hpc)' /\ hpc' = hpc + 1 /\ hstate' = hstate /\ place' = place /\ hwait' = "none"
<1>1. hpc' = hpc + 1 /\ hstate' = hstate /\ place' = place /\ hwait' = "none"
  BY DEF HAdvance
<1>2. Steady
  BY <1>1 DEF Steady, targetVars, programVars, cdVars
<1>3. QED
  BY <1>1, <1>2, HereStays

LEMMA PartBegins ==
    ASSUME saved' = "bios", hstate' = "main", hwait' = "none", hpc' = 1,
           toTarget' = <<>>, toHost' = <<>>,
           (hspeed = Wanted(opts))', (tspeed = Fast)',
           place'.part \in {"redirect", "upload", "execute", "download", "restore"},
           Beginning'
    PROVE  IInv'
<1>1. tstate' # "S"
  BY DEF Beginning, At
<1>2. InPace'
  BY <1>1 DEF InPace, HostPace, TargetPace, Retimed
<1>3. Free'
  BY DEF Free, Here
<1>4. QED
  BY <1>2, <1>3 DEF IInv, AtWork

LEMMA NextPart ==
    ASSUME HAdvance, ~(hpc < Len(HostScript)), opts' = opts, After(opts, place) # End
    PROVE  hpc' = 1 /\ place' = After(opts, place) /\ hstate' = "main" /\ hwait' = "none"
  BY DEF HAdvance

LEMMA LastAsks ==
    ASSUME Working, Asks, ~(hpc < Len(HostScript))
    PROVE  \/ place.part = "redirect" /\ hpc = 1
           \/ place.part = "execute" /\ hpc = 3
  BY PartIs, SpeedDoes, RestoreDoes, RedirectDoes, UploadDoes, ExecuteDoes, DownloadDoes
     DEF SpeedDo, UploadDo, ExecuteDo, DownloadDo, HostDo, Asks

LEMMA AsksNotThree ==
    ASSUME Working, Asks PROVE place.part \in {"speed", "restore"} => hpc # 3 /\ hpc # 5
  BY SpeedDoes, RestoreDoes DEF SpeedDo, HostDo, Asks

LEMMA MainEndsWith ==
    ASSUME Working, place = Place("execute", 0), hpc = 3, HAdvance, opts' = opts
    PROVE  /\ hstate' \in (IF opts.console THEN {"console"} ELSE {"dumb", "gone"})
           /\ UNCHANGED opts
<1>1. place.part = "execute"
  BY DEF Place
<1>2. ~(hpc < Len(HostScript)) /\ Usable(opts) /\ opts.command = "x"
  BY <1>1, ExecuteDoes DEF ExecuteDo, HostDo
<1>3. After(opts, place) = End
  BY <1>1 DEF After
<1>4. hstate' = HostAfter(opts)
  BY <1>2, <1>3 DEF HAdvance
<1>5. QED
  BY <1>2, <1>4 DEF HostAfter, Usable, Started

(* dc-tool reads the echo of what it has asked.                            *)
LEMMA EchoRead ==
    ASSUME Working, Usual(opts), IInv, HEcho, InPace, Echoing
    PROVE  IInv'
<1>1. toHost' = <<>> /\ toTarget' = <<>> /\ Asks /\ Here(hpc + 1)
  BY OneItem DEF HEcho, Echoing
<1>2. HAdvance /\ opts' = opts /\ UNCHANGED portVars /\ UNCHANGED targetVars /\ hstate = "main"
  BY DEF HEcho
<1>3. saved' = "bios" /\ hspeed' = hspeed /\ tspeed' = tspeed /\ tstate' = tstate /\ tpc' = tpc
  BY <1>2 DEF IInv, portVars, targetVars, programVars, cdVars
<1>4. CASE hpc < Len(HostScript)
  <2>1. Here(hpc)' /\ hpc' = hpc + 1 /\ hstate' = "main" /\ place' = place /\ hwait' = "none"
    BY <1>1, <1>2, <1>4, GoesOnHere
  <2>2. hpc \in Nat
    BY WorkingAt
  <2>3. InPace'
    BY <1>1, <1>2, <1>3, <2>1, <2>2, AsksNotThree, PaceStays
  <2>4. Free'
    BY <1>1, <2>1 DEF Free
  <2>5. QED
    BY <1>3, <2>1, <2>3, <2>4 DEF IInv, AtWork
<1>5. CASE ~(hpc < Len(HostScript)) /\ place.part = "execute"
  <2>1. hpc = 3
    BY <1>1, <1>5, LastAsks
  <2>2. FALSE
    BY <1>1, <1>5, <2>1 DEF Here, Executing
  <2>3. QED
    BY <2>2
<1>6. CASE ~(hpc < Len(HostScript)) /\ place.part = "redirect"
  <2>1. hpc = 1 /\ Redirecting(2) /\ Diverted
    BY <1>1, <1>6, LastAsks, RedirectDoes DEF Here
  <2>2. /\ After(opts, place) # End /\ After(opts, place).part \in {"upload", "execute"}
        /\ HasLoaded(loaded, Before(opts, After(opts, place)))
    BY <1>6, <2>1, AfterRedirection DEF Redirecting
  <2>3. hpc' = 1 /\ place' = After(opts, place) /\ hstate' = "main" /\ hwait' = "none"
    BY <1>2, <1>6, <2>2, NextPart
  <2>4. UNCHANGED <<opts, tstate, tpc, twait, tenv, loaded, vector>>
    BY <1>2 DEF targetVars, programVars, cdVars
  <2>5. LoadedBefore'
    BY <2>2, <2>3, <2>4 DEF LoadedBefore, HasLoaded, Images
  <2>6. Beginning'
    <3>1. CASE At("H", 1) /\ Pointed(FALSE)
      BY <2>1, <2>2, <2>3, <2>4, <2>5, <3>1 DEF Beginning, At, Pointed, Diverted
    <3>2. CASE tstate = "idle" /\ Pointed(TRUE)
      BY <2>1, <2>2, <2>3, <2>4, <2>5, <3>2 DEF Beginning, Pointed, Diverted
    <3>3. QED
      BY <2>1, <3>1, <3>2 DEF Redirecting
  <2>7. (hspeed = Wanted(opts))' /\ (tspeed = Fast)'
    BY <1>2, <1>3, <1>6 DEF InPace, HostPace, TargetPace, Fast, Pace, Wanted
  <2>8. QED
    BY <1>1, <1>3, <2>2, <2>3, <2>6, <2>7, PartBegins
<1>7. QED
  BY <1>1, <1>4, <1>5, <1>6, LastAsks

LEMMA BehindRead ==
    ASSUME Working, HEcho, hwait = "echo", place.part \in {"speed", "restore", "download"},
           NEW kind, NEW value, NEW s, s \in Paces, Meets(s, hspeed),
           NEW echo, toHost = <<echo, Item(kind, value, s)>>, hpc = 4
    PROVE  /\ toHost' = <<Item(kind, value, s)>> /\ hwait' = "none" /\ hpc' = 5
           /\ place' = place /\ hstate' = "main"
           /\ s \in Paces' /\ Meets(s, hspeed')
<1>1. toHost' = <<Item(kind, value, s)>>
  BY TwoItems DEF HEcho
<1>2. hpc < Len(HostScript)
  BY SpeedDoes, RestoreDoes, DownloadDoes DEF SpeedDo, DownloadDo, HostDo
<1>3. hwait' = "none" /\ hpc' = 5 /\ place' = place /\ hstate' = "main"
  BY <1>2 DEF HEcho, HAdvance
<1>4. s \in Paces' /\ hspeed' = hspeed
  BY DEF HEcho, portVars, Paces, Slow, Fast, Pace, Wanted
<1>5. QED
  BY <1>1, <1>3, <1>4

LEMMA CheckedEcho ==
    ASSUME Working, IInv, HEcho, InPace, Checked PROVE IInv'
<1>1. hwait = "echo"
  BY DEF HEcho
<1>2. PICK s \in Paces : /\ Meets(s, hspeed) /\ hpc = 4
                         /\ \E echo : toHost = <<echo, Item("uint", Check, s)>>
  BY <1>1 DEF Checked, Behind
<1>3. /\ toHost' = <<Item("uint", Check, s)>> /\ hwait' = "none" /\ hpc' = 5
      /\ place' = place /\ hstate' = "main" /\ s \in Paces' /\ Meets(s, hspeed')
  BY <1>1, <1>2, BehindRead DEF Checked
<1>4. UNCHANGED <<opts, hspeed, tspeed, saved, tstate, tpc, loaded, vector, toTarget>>
  BY DEF HEcho, portVars, targetVars, programVars, cdVars
<1>5. InPace'
  BY <1>2, <1>3, <1>4, PaceStays
<1>6. Checked'
  <2>1. Behind(Item("uint", Check, s))'
    BY <1>3 DEF Behind
  <2>2. LoadedBefore' /\ Pointed(FALSE)'
    BY <1>3, <1>4 DEF Checked, LoadedBefore, HasLoaded, Images, Before, Pointed
  <2>3. QED
    BY <1>3, <1>4, <2>1, <2>2 DEF Checked
<1>7. QED
  BY <1>3, <1>4, <1>5, <1>6 DEF IInv, AtWork

LEMMA SentEcho ==
    ASSUME Working, IInv, HEcho, InPace, Sent PROVE IInv'
<1>1. hwait = "echo"
  BY DEF HEcho
<1>2. PICK s \in Paces : /\ Meets(s, hspeed) /\ hpc = 4
                         /\ \E echo : toHost = <<echo, Item("block", tenv.size, s)>>
  BY <1>1 DEF Sent, Behind
<1>3. /\ toHost' = <<Item("block", tenv.size, s)>> /\ hwait' = "none" /\ hpc' = 5
      /\ place' = place /\ hstate' = "main" /\ s \in Paces' /\ Meets(s, hspeed')
  BY <1>1, <1>2, BehindRead DEF Sent
<1>4. UNCHANGED <<opts, hspeed, tspeed, saved, tstate, tpc, twait, tenv, loaded, vector, toTarget>>
  BY DEF HEcho, portVars, targetVars, programVars, cdVars
<1>5. InPace'
  BY <1>2, <1>3, <1>4, PaceStays
<1>6. Sent'
  <2>1. Behind(Item("block", tenv.size, s))'
    BY <1>3, <1>4 DEF Behind
  <2>2. LoadedBefore' /\ Pointed(FALSE)' /\ AtSend'
    BY <1>3, <1>4 DEF Sent, LoadedBefore, HasLoaded, Images, Before, Pointed, AtSend, Sender, Last
  <2>3. QED
    BY <1>3, <1>4, <2>1, <2>2 DEF Sent
<1>7. QED
  BY <1>3, <1>4, <1>5, <1>6 DEF IInv, AtWork

LEMMA ReadingEnds ==
    ASSUME Working, HEcho, Reading
    PROVE  hstate' \in (IF opts.console THEN {"console"} ELSE {"dumb", "gone"})
<1>1. place = Place("execute", 0) /\ hpc = 3 /\ HAdvance /\ opts' = opts
  BY DEF HEcho, Reading
<1>2. QED
  BY <1>1, MainEndsWith

(* The echo of the last question is read when the target is on its way.    *)
LEMMA LastEchoRead ==
    ASSUME Working, IInv, HEcho, Going \/ InProgram \/ Calling \/ Resting
    PROVE  IInv'
<1>1. UNCHANGED <<opts, hspeed, tstate, tpc, tenv, twait, tspeed, tconsole, vector, saved, loaded,
                  toTarget>>
  BY DEF HEcho, portVars, targetVars, programVars, cdVars
<1>2. hstate = "main"
  BY DEF HEcho
<1>3. Nothing => Nothing' /\ Reading
  <2>1. SUFFICES ASSUME Nothing PROVE Nothing' /\ Reading
    OBVIOUS
  <2>2. Reading
    BY <1>2, <2>1 DEF Nothing
  <2>3. hstate' # "main"
    BY <2>2, ReadingEnds
  <2>4. toHost' = <<>>
    BY <1>2, <2>1, OneItem DEF Nothing, HEcho
  <2>5. QED
    BY <2>2, <2>3, <2>4 DEF Nothing
<1>4. ASSUME NEW item, Only(item) PROVE hstate' # "main" /\ toHost' = <<item>> /\ Reading
  <2>1. Reading
    BY <1>2, <1>4 DEF Only
  <2>2. hstate' # "main"
    BY <2>1, ReadingEnds
  <2>3. toHost' = <<item>>
    BY <1>2, <1>4, TwoItems DEF Only, HEcho
  <2>4. QED
    BY <2>1, <2>2, <2>3
<1>5. Launched /\ Reading => Launched'
  BY <1>1, ReadingEnds
     DEF Launched, Follows, Pointed, Images, Fast, Pace, Wanted, Usable, Diverted
<1>6. CASE Going
  <2>1. Going'
    BY <1>1, <1>3, <1>5, <1>6 DEF Going, At
  <2>2. QED
    BY <1>1, <2>1 DEF IInv
<1>7. CASE InProgram
  <2>1. InProgram'
    BY <1>1, <1>3, <1>5, <1>7 DEF InProgram
  <2>2. QED
    BY <1>1, <2>1 DEF IInv
<1>8. CASE Calling
  <2>1. PICK s \in Paces : Meets(s, hspeed) /\ Only(Item("call", 0, s)) /\ toTarget = <<>>
    BY <1>2, <1>8 DEF Calling
  <2>2. s \in Paces' /\ Only(Item("call", 0, s))' /\ Reading
    BY <1>1, <1>4, <2>1 DEF Only, Paces, Slow, Fast, Pace, Wanted
  <2>3. Calling'
    BY <1>1, <1>5, <1>8, <2>1, <2>2 DEF Calling
  <2>4. QED
    BY <1>1, <2>3 DEF IInv
<1>9. CASE Resting
  <2>1. CASE Nothing
    <3>1. Nothing' /\ hstate' # "main"
      BY <1>3, <2>1, ReadingEnds
    <3>2. Resting'
      BY <1>1, <1>9, <3>1 DEF Resting, Pointed, Slow
    <3>3. QED
      BY <1>1, <3>2 DEF IInv
  <2>2. CASE opts.console /\ \E s \in Paces : Meets(s, hspeed) /\ Only(Item("exit", 0, s))
    <3>1. PICK s \in Paces : Meets(s, hspeed) /\ Only(Item("exit", 0, s))
      BY <2>2
    <3>2. s \in Paces' /\ Only(Item("exit", 0, s))' /\ hstate' = "console"
      BY <1>1, <1>4, <2>2, <3>1, ReadingEnds DEF Only, Paces, Slow, Fast, Pace, Wanted
    <3>3. Resting'
      BY <1>1, <1>9, <2>2, <3>1, <3>2 DEF Resting, Pointed, Slow
    <3>4. QED
      BY <1>1, <3>3 DEF IInv
  <2>3. QED
    BY <1>9, <2>1, <2>2 DEF Resting
<1>10. QED
  BY <1>6, <1>7, <1>8, <1>9

LEMMA HEchoes == ASSUME Working, Usual(opts), IInv, HEcho PROVE IInv'
<1>1. toHost # <<>> /\ hwait = "echo" /\ hstate = "main"
  BY DEF HEcho, HHas
<1>2. CASE AtWork
  <2>1. InPace /\ (Echoing \/ Checked \/ Sent)
    BY <1>1, <1>2 DEF AtWork, Free, Asking, BlockSent, BlockAnswered, Fetched
  <2>2. QED
    BY <2>1, EchoRead, CheckedEcho, SentEcho
<1>3. QED
  BY <1>2, LastEchoRead DEF IInv

LEMMA ChangesSpeed == TScript("S")[2].do = "init"
<1>1. TScript("S")[2] = Step("init", "")
  BY DEF TScript
<1>2. \A do, value : Step(do, value).do = do
  BY DEF Step
<1>3. QED
  BY <1>1, <1>2

LEMMA ChangingThree ==
    ASSUME NEW speed, Changing(3, speed) PROVE At("S", 2) \/ At("S", 3)
  BY DEF Changing

(* dc-tool changes the speed of its port.                                  *)
LEMMA SupportedTwice ==
    ASSUME SerialAssumption, SupportedSpeed(Initial) = Initial, NEW o
    PROVE  SupportedSpeed(Wanted(o)) = Wanted(o)
  BY DEF Wanted, Speed, SupportedSpeed, FallBack, SerialAssumption, Initial

LEMMA HReopens ==
    ASSUME Working, SupportedSpeed(Initial) = Initial, SupportedSpeed(Wanted(opts)) = Wanted(opts),
           TargetTyped, IInv, HReopen
    PROVE  IInv'
<1>1. hstate = "main" /\ hwait = "none" /\ HostScript[hpc].do = "reopen"
  BY DEF HReopen, HDoing
<1>2. InPace /\ Free
  BY <1>1, NotWaiting, CheckedNext, SentNext, FetchedNext DEF HostDo
<1>3. /\ hpc = 3 /\ hpc < Len(HostScript)
      /\ \/ place.part = "speed" /\ HValue = Wanted(opts)
         \/ place.part = "restore" /\ HValue = Initial
  BY <1>1, PartIs, SpeedDoes, RestoreDoes, RedirectDoes, UploadDoes, ExecuteDoes, DownloadDoes
     DEF SpeedDo, UploadDo, ExecuteDo, DownloadDo, HostDo
<1>4. tstate = "S" /\ TScript(tstate)[tpc].do # "init"
  BY DEF HReopen
<1>5. tpc # 2
  BY <1>4, ChangesSpeed
<1>6. LoadedBefore /\ Pointed(FALSE) /\ At("S", 3)
  <2>1. Changing(3, Wanted(opts)) \/ Changing(3, Initial)
    BY <1>2, <1>3 DEF Free, Here
  <2>2. LoadedBefore /\ Pointed(FALSE)
    BY <2>1 DEF Changing
  <2>3. At("S", 2) \/ At("S", 3)
    BY <2>1, ChangingThree
  <2>4. QED
    BY <1>5, <2>2, <2>3 DEF At
<1>7. Here(hpc + 1)
  <2>1. Changing(4, Wanted(opts)) /\ Changing(4, Initial)
    BY <1>6 DEF Changing
  <2>2. Here(4)
    BY <1>3, <2>1 DEF Here
  <2>3. QED
    BY <1>3, <2>2
<1>8. HAdvance /\ opts' = opts /\ UNCHANGED targetVars /\ UNCHANGED <<toTarget, toHost>>
  BY DEF HReopen
<1>9. Here(hpc)' /\ hpc' = hpc + 1 /\ hstate' = hstate /\ place' = place /\ hwait' = "none"
  BY <1>3, <1>7, <1>8, GoesOnHere
<1>10. Free'
  BY <1>2, <1>8, <1>9 DEF Free
<1>11. hspeed' = HValue /\ tspeed' = tspeed /\ saved' = saved /\ tstate' = "S" /\ tpc' = 3
  BY <1>3, <1>6, <1>8 DEF HReopen, OpenPort, targetVars, programVars, cdVars, At
<1>12. InPace'
  BY <1>2, <1>3, <1>6, <1>8, <1>9, <1>11
     DEF InPace, HostPace, TargetPace, Retimed, At, Fast, Slow, Pace, Wanted
<1>13. QED
  BY <1>1, <1>9, <1>10, <1>11, <1>12 DEF IInv, AtWork

(* dc-tool reads the check back.                                           *)
LEMMA HReceives == ASSUME Working, Usual(opts), IInv, HRecv PROVE IInv'
<1>1. hstate = "main" /\ hwait = "none" /\ HostScript[hpc].do = "recv" /\ toHost # <<>>
  BY DEF HRecv, HDoing, HHas
<1>2. InPace /\ Checked
  BY <1>1, NotWaiting, SentNext, FetchedNext DEF Free, HostDo
<1>3. hpc = 5 /\ ~(hpc < Len(HostScript)) /\ place.part \in {"speed", "restore"}
  BY <1>1, <1>2, SpeedDoes, RestoreDoes DEF Checked, SpeedDo, HostDo
<1>4. HAdvance /\ opts' = opts /\ UNCHANGED portVars /\ UNCHANGED targetVars /\ toTarget' = toTarget
  BY DEF HRecv
<1>5. /\ hspeed' = hspeed
      /\ UNCHANGED <<opts, tspeed, saved, tstate, tpc, twait, tenv, loaded, vector>>
  BY <1>4 DEF portVars, targetVars, programVars, cdVars
<1>6. toHost' = <<>> /\ toTarget' = <<>>
  BY <1>1, <1>2, <1>4, OneItem DEF HRecv, Checked, Behind
<1>7. CASE place.part = "speed"
  <2>1. /\ After(opts, place) # End
        /\ After(opts, place).part \in {"redirect", "upload", "execute", "download", "restore"}
        /\ Diverted => After(opts, place).part = "redirect"
        /\ HasLoaded(loaded, Before(opts, After(opts, place)))
    BY <1>2, <1>7, AfterSpeed DEF Checked
  <2>2. hpc' = 1 /\ place' = After(opts, place) /\ hstate' = "main" /\ hwait' = "none"
    BY <1>3, <1>4, <2>1, NextPart
  <2>3. LoadedBefore'
    BY <1>5, <2>1, <2>2 DEF LoadedBefore, HasLoaded, Images
  <2>4. Beginning'
    BY <1>2, <1>5, <2>1, <2>2, <2>3 DEF Beginning, Checked, Pointed, Diverted
  <2>5. (hspeed = Wanted(opts))' /\ (tspeed = Fast)'
    BY <1>2, <1>3, <1>5, <1>7 DEF InPace, HostPace, TargetPace, Retimed, Fast, Pace, Wanted
  <2>6. QED
    BY <1>5, <1>6, <2>1, <2>2, <2>4, <2>5, PartBegins DEF IInv
<1>8. CASE place.part = "restore"
  <2>1. After(opts, place) = End /\ opts.command \in {"u", "d"}
    BY <1>8, RestoreDoes DEF After
  <2>2. hstate' = "gone"
    BY <1>3, <1>4, <2>1 DEF HAdvance, HostAfter
  <2>3. tspeed' = Slow
    BY <1>2, <1>3, <1>5, <1>8 DEF InPace, TargetPace, Retimed
  <2>4. Resting'
    BY <1>2, <1>5, <1>6, <2>2, <2>3 DEF Resting, Nothing, Checked, Pointed, Slow
  <2>5. QED
    BY <1>5, <2>4 DEF IInv
<1>9. QED
  BY <1>3, <1>7, <1>8

(* dc-tool has sent a section, or had nothing to send.                     *)
LEMMA SectionDone ==
    ASSUME Working, IInv, InPace, place.part = "upload", hpc = 4, HAdvance,
           UNCHANGED <<opts, hspeed>>, UNCHANGED targetVars, toTarget' = <<>>, toHost' = <<>>,
           Pointed(Diverted),
           \/ tstate = "idle" /\ LoadedSection
           \/ /\ At("B", 4) /\ tenv.size = 0 /\ LoadedBefore
              /\ tenv.addr = Sections(opts)[place.section].addr
              /\ tenv.size = Sections(opts)[place.section].size
    PROVE  IInv'
<1>1. /\ After(opts, place) # End
      /\ After(opts, place).part \in {"upload", "execute", "restore"}
      /\ After(opts, place).part = "restore" => ~Diverted
      /\ LoadedSection => HasLoaded(loaded, Before(opts, After(opts, place)))
  BY AfterUpload
<1>2. ~(hpc < Len(HostScript))
  BY UploadDoes DEF UploadDo, HostDo
<1>3. hpc' = 1 /\ place' = After(opts, place) /\ hstate' = "main" /\ hwait' = "none"
  BY <1>1, <1>2, NextPart
<1>4. UNCHANGED <<opts, tspeed, saved, tstate, tpc, twait, tenv, loaded, vector>>
  BY DEF targetVars, programVars, cdVars
<1>5. CASE tstate = "idle" /\ LoadedSection
  <2>1. LoadedBefore'
    BY <1>1, <1>3, <1>4, <1>5 DEF LoadedBefore, HasLoaded, Images
  <2>2. Pointed(Diverted /\ place.part \in {"upload", "execute"})'
    BY <1>1, <1>3, <1>4 DEF Pointed, Diverted
  <2>3. Beginning'
    BY <1>4, <1>5, <2>1, <2>2 DEF Beginning
  <2>4. (hspeed = Wanted(opts))' /\ (tspeed = Fast)'
    BY <1>4 DEF InPace, HostPace, TargetPace, Fast, Pace, Wanted
  <2>5. QED
    BY <1>1, <1>3, <1>4, <2>3, <2>4, PartBegins DEF IInv
<1>6. CASE /\ At("B", 4) /\ tenv.size = 0 /\ LoadedBefore
           /\ tenv.addr = Sections(opts)[place.section].addr
           /\ tenv.size = Sections(opts)[place.section].size
  <2> DEFINE images == loaded \cup {<<tenv.addr, tenv.size>>}
             sections == Before(opts, place) \cup {place.section}
             next == After(opts, place)
  <2>1. Images(sections) = Images(Before(opts, place)) \cup {<<tenv.addr, tenv.size>>}
    BY <1>6 DEF Images
  <2>2. HasLoaded(images, sections)
    BY <1>6, <2>1 DEF HasLoaded, LoadedBefore
  <2>3. sections = Before(opts, next) \/ opts.command # "x"
    <3>1. /\ place.section \in ToUpload(opts) /\ opts \in Invocations /\ SessionAssumption
      BY UploadDoes, WorkingAt
    <3>2. ToUpload(opts) \subseteq Nat
      BY <3>1, SectionsFacts
    <3>3. next = FromSection(opts, place.section)
      BY DEF After
    <3>4. Before(opts, next) = {k \in ToUpload(opts) : k <= place.section}
      BY <3>1, <3>2, <3>3, BeforeSection
    <3>5. sections = {k \in ToUpload(opts) : k <= place.section}
      BY <3>1, <3>2 DEF Before
    <3>6. QED
      BY <3>4, <3>5
  <2>4. HasLoaded(images, Before(opts, next))
    BY <2>2, <2>3 DEF HasLoaded
  <2>5. HasLoaded(loaded \cup {<<tenv.addr, tenv.size>>}, Before(opts, place))'
    BY <1>3, <1>4, <2>4 DEF HasLoaded, Images
  <2>6. Beginning'
    BY <1>1, <1>3, <1>4, <1>6, <2>5 DEF Beginning, At, Pointed, Diverted
  <2>7. (hspeed = Wanted(opts))' /\ (tspeed = Fast)'
    BY <1>4 DEF InPace, HostPace, TargetPace, Fast, Pace, Wanted
  <2>8. QED
    BY <1>1, <1>3, <1>4, <2>6, <2>7, PartBegins DEF IInv
<1>7. QED
  BY <1>5, <1>6

LEMMA UploadingLast ==
    ASSUME Uploading(4)
    PROVE  /\ Pointed(Diverted)
           /\ \/ tstate = "idle" /\ Sections(opts)[place.section].size = 0 /\ LoadedSection
              \/ /\ At("B", 4) /\ LoadedBefore
                 /\ tenv.addr = Sections(opts)[place.section].addr
                 /\ tenv.size = Sections(opts)[place.section].size
<1>1. Pointed(Diverted)
  BY DEF Uploading
<1>2. \/ tstate = "idle" /\ Sections(opts)[place.section].size = 0 /\ LoadedSection
      \/ /\ At("B", 4) /\ LoadedBefore
         /\ tenv.addr = Sections(opts)[place.section].addr
         /\ tenv.size = Sections(opts)[place.section].size
  BY DEF Uploading
<1>3. QED
  BY <1>1, <1>2

(* dc-tool sends a section, unless it is empty.                            *)
LEMMA HSends == ASSUME Working, IInv, HData PROVE IInv'
<1>1. hstate = "main" /\ hwait = "none" /\ HostScript[hpc].do = "data"
  BY DEF HData, HDoing
<1>2. InPace /\ Free
  BY <1>1, NotWaiting, CheckedNext, SentNext, FetchedNext DEF HostDo
<1>3. /\ hpc = 4 /\ place.part = "upload"
      /\ HValue = Sections(opts)[place.section].size
  BY <1>1, PartIs, SpeedDoes, RestoreDoes, RedirectDoes, UploadDoes, ExecuteDoes, DownloadDoes
     DEF SpeedDo, UploadDo, ExecuteDo, DownloadDo, HostDo
<1>4. Uploading(4) /\ toTarget = <<>> /\ toHost = <<>>
  BY <1>2, <1>3 DEF Free, Here
<1>5. UNCHANGED <<opts, hspeed, toHost>> /\ UNCHANGED targetVars
  BY DEF HData, portVars
<1>6. CASE HValue = 0
  <2>1. HAdvance /\ toTarget' = <<>> /\ toHost' = <<>>
    BY <1>4, <1>5, <1>6 DEF HData
  <2>2. QED
    BY <1>2, <1>3, <1>4, <1>5, <1>6, <2>1, UploadingLast, SectionDone
<1>7. CASE HValue # 0
  <2>1. /\ toTarget' = Append(toTarget, Item("block", HValue, hspeed))
        /\ hwait' = "answer" /\ UNCHANGED <<hstate, place, hpc>>
    BY <1>7 DEF HData, HWrites
  <2>2. At("B", 4)
    BY <1>3, <1>4, <1>7, UploadingLast
  <2>3. UNCHANGED <<tstate, tpc, tenv, twait, tspeed, vector, saved, loaded>>
    BY <1>5 DEF targetVars, programVars, cdVars
  <2>4. Uploading(4)' /\ At("B", 4)'
    <3>1. Here(4) /\ Steady
      BY <1>3, <1>4, <1>5, <2>1, <2>3 DEF Here, Steady
    <3>2. Here(4)'
      BY <3>1, HereStays
    <3>3. At("B", 4)'
      BY <2>2, <2>3 DEF At
    <3>4. QED
      BY <1>3, <2>1, <3>2, <3>3 DEF Here
  <2>5. HValue' = HValue
    BY <1>5, <2>1 DEF HValue, HostScript
  <2>6. BlockSent'
    <3>1. toTarget' = <<Item("block", HValue, hspeed)>>
      BY <1>4, <2>1, OneItem
    <3>2. QED
      BY <1>3, <1>4, <1>5, <1>7, <2>1, <2>4, <2>5, <3>1 DEF BlockSent
  <2>7. InPace'
    BY <1>2, <1>5, <2>1, <2>3, PaceStays
  <2>8. QED
    BY <1>1, <2>1, <2>3, <2>6, <2>7 DEF IInv, AtWork
<1>8. QED
  BY <1>6, <1>7

(* The section has arrived.                                                *)
LEMMA HAnswered == ASSUME Working, IInv, HAnswer PROVE IInv'
<1>1. hstate = "main" /\ hwait = "answer" /\ toHost # <<>>
  BY DEF HAnswer, HHas
<1>2. InPace /\ BlockAnswered
  <2>1. ~Nothing /\ \A item : ~Only(item)
    BY <1>1 DEF Nothing, Only, Reading
  <2>2. ~Going /\ ~InProgram /\ ~Calling /\ ~Resting
    BY <1>1, <2>1 DEF Going, InProgram, Calling, Resting
  <2>3. AtWork
    BY <2>2 DEF IInv
  <2>4. QED
    BY <1>1, <2>3 DEF AtWork, Free, Asking, Echoing, BlockSent, Checked, Sent, Behind, Fetched
<1>3. toHost' = <<>> /\ toTarget' = <<>> /\ HAdvance
  BY <1>2, OneItem DEF BlockAnswered, HAnswer
<1>4. UNCHANGED <<opts, hspeed>> /\ UNCHANGED targetVars
  BY DEF HAnswer, portVars
<1>5. QED
  BY <1>2, <1>3, <1>4, SectionDone DEF BlockAnswered

(* dc-tool has what it was sent.                                           *)
LEMMA HFetches == ASSUME Working, IInv, HFetch PROVE IInv'
<1>1. hstate = "main" /\ hwait = "none" /\ HostScript[hpc].do = "fetch" /\ toHost # <<>>
  BY DEF HFetch, HDoing, HHas
<1>2. InPace /\ Sent
  BY <1>1, NotWaiting, CheckedNext, FetchedNext DEF Free, HostDo
<1>3. hpc = 5 /\ ~(hpc < Len(HostScript)) /\ place.part = "download"
  BY <1>1, <1>2, DownloadDoes DEF Sent, DownloadDo, HostDo
<1>4. /\ After(opts, place) # End /\ After(opts, place).part = "restore"
      /\ opts.command = "d"
  BY <1>3, AfterDownload
<1>5. /\ HAdvance /\ opts' = opts /\ hspeed' = hspeed /\ UNCHANGED targetVars
      /\ toHost' = Tail(toHost) /\ toTarget' = Append(toTarget, Item("good", 0, hspeed))
  BY DEF HFetch, HWrites, portVars
<1>6. hpc' = 1 /\ place' = After(opts, place) /\ hstate' = "main" /\ hwait' = "none"
  BY <1>3, <1>4, <1>5, NextPart
<1>7. toHost' = <<>> /\ toTarget' = <<Item("good", 0, hspeed)>>
  BY <1>1, <1>2, <1>5, OneItem DEF Sent, Behind
<1>8. UNCHANGED <<opts, tspeed, saved, tstate, tpc, twait, tenv, loaded, vector>>
  BY <1>5 DEF targetVars, programVars, cdVars
<1>9. Fetched'
  BY <1>2, <1>4, <1>5, <1>6, <1>7, <1>8 DEF Fetched, Sent, Pointed, AtSend, Sender, Last
<1>10. tstate # "S"
  BY <1>2 DEF Sent, AtSend, Sender
<1>11. InPace'
  BY <1>2, <1>3, <1>4, <1>5, <1>6, <1>8, <1>10
     DEF InPace, HostPace, TargetPace, Retimed, Fast, Pace, Wanted
<1>12. QED
  BY <1>6, <1>8, <1>9, <1>11 DEF IInv, AtWork
-----------------------------------------------------------------------------
(* dc-tool serves a program, and ends with it.                             *)
LEMMA OnlyOne == ASSUME NEW item, Only(item), hstate # "main" PROVE toHost = <<item>>
  BY DEF Only

LEMMA HServes == ASSUME IInv, HServe PROVE IInv'
<1>1. hstate = "console" /\ toHost # <<>> /\ Head(toHost).kind = "call"
  BY DEF HServe, HHas
<1>2. ~AtWork /\ ~Nothing
  BY <1>1 DEF AtWork, Nothing
<1>3. ~Resting
  <2>1. \A s : ~Only(Item("exit", 0, s))
    BY <1>1, OnlyOne, OneItem, ItemFields
  <2>2. QED
    BY <1>2, <2>1 DEF Resting
<1>4. Calling
  BY <1>2, <1>3 DEF IInv, Going, InProgram
<1>5. PICK s \in Paces : toHost = <<Item("call", 0, s)>> /\ toTarget = <<>>
  BY <1>1, <1>4, OnlyOne DEF Calling
<1>6. toHost' = <<>> /\ toTarget' = <<Item("reply", 0, hspeed)>>
  BY <1>5, OneItem DEF HServe, HWrites
<1>7. UNCHANGED <<opts, hstate, hspeed, tstate, tenv, tspeed, tconsole, vector, saved, loaded>>
  BY DEF HServe, hostVars, portVars, targetVars, programVars, cdVars
<1>8. Launched'
  BY <1>4, <1>7 DEF Calling, Launched, Follows, Pointed, Images, Fast, Pace, Wanted, Usable, Diverted
<1>9. Calling'
  BY <1>1, <1>4, <1>6, <1>7, <1>8 DEF Calling
<1>10. QED
  BY <1>7, <1>9 DEF IInv

LEMMA HExits == ASSUME IInv, HExit PROVE IInv'
<1>1. hstate = "console" /\ toHost # <<>> /\ Head(toHost).kind = "exit"
  BY DEF HExit, HHas
<1>2. ~AtWork /\ ~Nothing
  BY <1>1 DEF AtWork, Nothing
<1>3. ~Calling
  <2>1. \A s : ~Only(Item("call", 0, s))
    BY <1>1, OnlyOne, OneItem, ItemFields
  <2>2. QED
    BY <1>1, <1>2, <2>1 DEF Calling
<1>4. Resting
  BY <1>2, <1>3 DEF IInv, Going, InProgram
<1>5. \E s \in Paces : toHost = <<Item("exit", 0, s)>>
  BY <1>1, <1>2, <1>4, OnlyOne DEF Resting
<1>6. toHost' = <<>> /\ hstate' = "gone" /\ toTarget' = toTarget
  BY <1>5, OneItem DEF HExit
<1>7. UNCHANGED <<tstate, tspeed, vector, saved>>
  BY DEF HExit, targetVars, programVars, cdVars
<1>8. Resting'
  BY <1>4, <1>6, <1>7 DEF Resting, Nothing, Pointed, Slow
<1>9. QED
  BY <1>7, <1>8 DEF IInv

LEMMA Interrupts == ASSUME IInv, Interrupt PROVE IInv'
<1>1. hstate # "main" /\ hstate' = "gone"
  BY DEF Interrupt
<1>2. UNCHANGED <<opts, hspeed, tstate, tpc, tenv, twait, tspeed, tconsole, vector, saved, loaded,
                  toTarget, toHost>>
  BY DEF Interrupt, portVars, targetVars, programVars, cdVars
<1>3. Nothing => Nothing'
  BY <1>1, <1>2 DEF Nothing
<1>4. tstate # "idle" => hstate = "dumb"
  BY DEF Interrupt
<1>5. Launched /\ tstate # "idle" => Launched' /\ ~opts.console
  BY <1>1, <1>2, <1>4
     DEF Launched, Follows, Pointed, Images, Fast, Pace, Wanted, Usable, Diverted
<1>6. CASE Going
  <2>1. Going'
    BY <1>2, <1>3, <1>5, <1>6 DEF Going, At
  <2>2. QED
    BY <1>2, <2>1 DEF IInv
<1>7. CASE InProgram
  <2>1. InProgram'
    BY <1>2, <1>3, <1>5, <1>7 DEF InProgram
  <2>2. QED
    BY <1>2, <2>1 DEF IInv
<1>8. ~Calling
  BY <1>5 DEF Calling
<1>9. CASE Resting
  <2>1. Nothing
    <3>1. CASE hstate = "dumb"
      BY <1>9, <3>1 DEF Resting
    <3>2. CASE toHost = <<>>
      BY <1>1, <3>2 DEF Nothing
    <3>3. QED
      BY <3>1, <3>2 DEF Interrupt
  <2>2. Resting'
    BY <1>1, <1>2, <1>3, <1>9, <2>1 DEF Resting, Pointed, Slow
  <2>3. QED
    BY <1>2, <2>2 DEF IInv
<1>10. QED
  BY <1>1, <1>6, <1>7, <1>8, <1>9 DEF IInv, AtWork

(* dc-tool is started, with the target waiting for it.                     *)
LEMMA Starts ==
    ASSUME SessionAssumption, AllUsual, HostTyped, IInv, Start
    PROVE  IInv'
<1>1. /\ hstate = "gone" /\ tstate = "idle" /\ hpc = 1 /\ hwait = "none"
  BY DEF Start, HostTyped
<1>2. Resting /\ toHost = <<>> /\ toTarget = <<>> /\ saved = "bios"
  <2>1. ~AtWork /\ ~Going /\ ~InProgram /\ ~Calling
    BY <1>1 DEF AtWork, Going, InProgram, Calling, At
  <2>2. Resting
    BY <2>1 DEF IInv
  <2>3. QED
    BY <1>1, <2>2 DEF Resting, Nothing, Only, IInv
<1>3. /\ opts' \in Invocations /\ Usual(opts') /\ hspeed' = Initial /\ place' = From(opts')
      /\ hstate' = (IF place' = End THEN HostAfter(opts') ELSE "main") /\ loaded' = {}
  BY DEF Start, AllUsual
<1>4. UNCHANGED <<hpc, hwait, tstate, tpc, tenv, twait, tspeed, vector, saved, toTarget, toHost>>
  BY DEF Start, cdVars
<1>5. CASE place' = End
  <2>1. hstate' # "main"
    BY <1>3, <1>5 DEF HostAfter
  <2>2. Resting'
    BY <1>2, <1>4, <2>1 DEF Resting, Nothing, Pointed, Slow
  <2>3. QED
    BY <1>2, <1>4, <2>2 DEF IInv
<1>6. CASE place' # End
  <2>1. Started(opts') /\ hstate' = "main"
    BY <1>3, <1>6 DEF From, Started
  <2>2. \A sections : sections = {} => HasLoaded(loaded, sections)'
    BY <1>3 DEF HasLoaded, Images
  <2>3. CASE Wanted(opts') # Initial
    <3>1. place' = Place("speed", 0)
      BY <1>3, <2>1, <2>3 DEF From, Started, Wanted
    <3>2. place'.part = "speed"
      BY <3>1 DEF Place
    <3>3. Before(opts', place') = {}
      BY <3>2 DEF Before
    <3>4. LoadedBefore'
      BY <2>2, <3>3 DEF LoadedBefore
    <3>5. Beginning'
      BY <1>1, <1>2, <1>4, <3>2, <3>4 DEF Beginning, Resting, Pointed
    <3>6. Free'
      BY <1>1, <1>2, <1>4, <3>5 DEF Free, Here
    <3>7. tspeed' = Slow
      BY <1>2, <1>4 DEF Resting
    <3>8. InPace'
      BY <1>1, <1>3, <1>4, <3>2, <3>7 DEF InPace, HostPace, TargetPace, Retimed, Slow
    <3>9. QED
      BY <1>2, <1>4, <2>1, <3>6, <3>8 DEF IInv, AtWork
  <2>4. CASE Wanted(opts') = Initial
    <3>1. place' = FromSpeed(opts')
      BY <1>3, <2>1, <2>4 DEF From, Started, Wanted
    <3>2. /\ place'.part \in {"redirect", "upload", "execute", "download", "restore"}
          /\ Diverted' => place'.part = "redirect"
          /\ opts'.command = "x" => Before(opts', place') = {}
      BY <1>3, <1>6, <2>1, <3>1, FirstPart DEF Diverted
    <3>3. LoadedBefore'
      BY <2>2, <3>2 DEF LoadedBefore, HasLoaded
    <3>4. Beginning'
      BY <1>1, <1>2, <1>4, <3>2, <3>3 DEF Beginning, Resting, Pointed, Diverted
    <3>5. Fast' = Slow
      <4>1. ~opts'.use_extclk
        BY <1>3, <2>1 DEF Usual
      <4>2. Told(opts', Initial) = Initial
        BY <4>1 DEF Told, ToldSpeed, Initial
      <4>3. QED
        BY <2>4, <4>2 DEF Fast, Pace, Slow
    <3>6. (tspeed = Fast)' /\ (hspeed = Wanted(opts))'
      BY <1>2, <1>3, <1>4, <2>4, <3>5 DEF Resting
    <3>7. QED
      BY <1>1, <1>2, <1>4, <2>1, <3>2, <3>4, <3>6, PartBegins
  <2>5. QED
    BY <2>3, <2>4
<1>7. QED
  BY <1>5, <1>6
-----------------------------------------------------------------------------
(* The target goes on with a command by itself.                            *)
LEMMA HereWhere ==
    ASSUME NEW k, Here(k)
    PROVE  \/ tstate = "idle"
           \/ tstate \in {"A", "B", "F", "G", "H", "S"} /\ twait = FALSE
<1>1. CASE Beginning
  BY <1>1 DEF Beginning, At
<1>2. CASE \E speed : Changing(k, speed)
  BY <1>2 DEF Changing, At
<1>3. CASE Redirecting(k)
  BY <1>3 DEF Redirecting, At
<1>4. CASE Uploading(k)
  BY <1>4 DEF Uploading, At
<1>5. CASE Executing(k)
  BY <1>5 DEF Executing, At
<1>6. CASE Downloading(k)
  BY <1>6 DEF Downloading, At, Sender
<1>7. QED
  BY <1>1, <1>2, <1>3, <1>4, <1>5, <1>6 DEF Here

LEMMA Between ==
    ASSUME IInv, tstate \in Commands, twait = FALSE
    PROVE  \/ Going
           \/ hstate = "main" /\ InPace /\ (Free \/ Asking \/ Echoing \/ BlockSent)
<1>1. tstate # "idle" /\ tstate # "program" /\ tstate # "calling"
  BY DEF Commands
<1>2. ~InProgram /\ ~Calling /\ ~Resting /\ ~BlockAnswered /\ ~Checked
  BY <1>1 DEF InProgram, Calling, Resting, BlockAnswered, Checked
<1>3. ~Sent /\ ~Fetched
  BY DEF Sent, Fetched, AtSend
<1>4. QED
  BY <1>2, <1>3 DEF IInv, AtWork

LEMMA GoingAt == ASSUME Going PROVE tstate = "A" /\ tpc = 4 /\ twait = FALSE
  BY DEF Going, At

LEMMA PaceKept ==
    ASSUME InPace, UNCHANGED <<opts, place, hpc, hspeed, tspeed>>, tstate # "S", tstate' # "S"
    PROVE  InPace'
  BY DEF InPace, HostPace, TargetPace, Retimed, Fast, Slow, Pace, Wanted

(* What a step of the target by itself comes to.                           *)
LEMMA Alone ==
    ASSUME IInv, UNCHANGED hostVars, UNCHANGED <<toTarget, toHost, saved>>, InPace',
           hstate = "main", Free \/ Asking \/ Echoing,
           NEW k, k = IF Echoing THEN hpc + 1 ELSE hpc, Here(k)'
    PROVE  IInv'
<1>1. UNCHANGED <<opts, hstate, place, hpc, hwait, hspeed>>
  BY DEF hostVars, portVars
<1>2. Question' = Question /\ Asks' = Asks /\ Paces' = Paces /\ \A s : Echo(s)' = Echo(s)
  BY <1>1 DEF Question, Asks, HValue, HostScript, Paces, Slow, Fast, Pace, Wanted, Echo
<1>3. CASE Echoing
  <2>1. Here(hpc + 1)'
    BY <1>1, <1>3
  <2>2. Echoing'
    BY <1>1, <1>2, <1>3, <2>1 DEF Echoing
  <2>3. QED
    BY <1>1, <2>2 DEF IInv, AtWork
<1>4. CASE ~Echoing /\ Free
  <2>1. Here(hpc)'
    BY <1>1, <1>4
  <2>2. Free'
    BY <1>1, <1>4, <2>1 DEF Free
  <2>3. QED
    BY <1>1, <2>2 DEF IInv, AtWork
<1>5. CASE ~Echoing /\ Asking
  <2>1. Here(hpc)'
    BY <1>1, <1>5
  <2>2. Asking'
    BY <1>1, <1>2, <1>5, <2>1 DEF Asking
  <2>3. QED
    BY <1>1, <2>2 DEF IInv, AtWork
<1>6. QED
  BY <1>3, <1>4, <1>5

(* Where the target is, for the step that dc-tool has asked for last.      *)
LEMMA AskedHere ==
    ASSUME Free \/ Asking \/ Echoing
    PROVE  \E k : k = (IF Echoing THEN hpc + 1 ELSE hpc) /\ Here(k)
  BY DEF Free, Asking, Echoing

LEMMA BeginningAt ==
    ASSUME Beginning
    PROVE  tstate = "idle" \/ (tstate = "H" /\ tpc = 1) \/ (tstate = "B" /\ tpc = 4)
  BY DEF Beginning, At

LEMMA ScreenHere ==
    ASSUME TargetTyped, TScreen, NEW k, Here(k)
    PROVE  Here(k)'
<1>1. /\ tstate \in {"A", "B", "D", "F"} /\ tpc = 1 /\ twait = FALSE
      /\ tstate' = tstate /\ tpc' = 2 /\ twait' = FALSE
  BY ScreenMoves
<1>2. UNCHANGED <<opts, place, tenv, loaded, vector>>
  BY DEF TScreen, hostVars, cdVars
<1>3. /\ LoadedBefore => LoadedBefore'
      /\ Pointed(Diverted) => Pointed(Diverted)'
      /\ Pointed(FALSE) => Pointed(FALSE)'
  BY <1>2 DEF LoadedBefore, HasLoaded, Images, Before, Pointed, Diverted
<1>4. ~Beginning
  <2>1. tstate # "idle" /\ tstate # "H" /\ tpc # 4
    BY <1>1
  <2>2. QED
    BY <2>1, BeginningAt
<1>5. \A speed : ~Changing(k, speed)
  BY <1>1 DEF Changing, At
<1>6. ~Redirecting(k)
  BY <1>1 DEF Redirecting, At
<1>7. Uploading(k) => Uploading(k)'
  BY <1>1, <1>2, <1>3 DEF Uploading, At
<1>8. Executing(k) => Executing(k)'
  BY <1>1, <1>2, <1>3 DEF Executing, At
<1>9. Downloading(k) => Downloading(k)'
  <2>1. SUFFICES ASSUME Downloading(k) PROVE Downloading(k)'
    OBVIOUS
  <2>2. tstate = "F" /\ ~opts.quiet /\ k = 2
    BY <1>1, <2>1 DEF Downloading, At, Sender
  <2>3. At("F", 2)'
    BY <1>1, <2>2 DEF At
  <2>4. At(Sender, IF opts.quiet THEN k - 1 ELSE k)' /\ k \in 2..5
    BY <1>2, <2>2, <2>3 DEF Sender, At
  <2>5. QED
    BY <1>3, <2>1, <2>4 DEF Downloading
<1>10. QED
  BY <1>2, <1>4, <1>5, <1>6, <1>7, <1>8, <1>9 DEF Here

LEMMA Screens == ASSUME Typed, IInv, TScreen PROVE IInv'
<1>1. TargetTyped
  BY DEF Typed
<1>2. /\ tstate \in {"A", "B", "D", "F"} /\ tpc = 1 /\ twait = FALSE /\ tstate' = tstate
  BY <1>1, ScreenMoves
<1>3. /\ UNCHANGED hostVars /\ UNCHANGED <<toTarget, toHost, saved, tspeed>>
  BY DEF TScreen, cdVars
<1>4. hstate = "main" /\ InPace /\ (Free \/ Asking \/ Echoing \/ BlockSent)
  <2>1. tstate \in Commands /\ ~Going
    BY <1>2, GoingAt DEF Commands
  <2>2. QED
    BY <1>2, <2>1, Between
<1>5. ~BlockSent
  BY <1>2 DEF BlockSent, At
<1>6. InPace'
  BY <1>2, <1>3, <1>4, PaceKept DEF hostVars, portVars
<1>7. PICK k : k = (IF Echoing THEN hpc + 1 ELSE hpc) /\ Here(k)
  BY <1>4, <1>5, AskedHere
<1>8. Here(k)'
  BY <1>1, <1>7, ScreenHere
<1>9. QED
  BY <1>3, <1>4, <1>5, <1>6, <1>7, <1>8, Alone

LEMMA ChangingAt ==
    ASSUME NEW k, NEW speed, Changing(k, speed) PROVE tstate = "S" /\ tpc \in 1..4
  BY DEF Changing, At
LEMMA RedirectingAt ==
    ASSUME NEW k, Redirecting(k) PROVE tstate = "idle" \/ (tstate = "H" /\ tpc = 1)
  BY DEF Redirecting, At
LEMMA UploadingAt ==
    ASSUME NEW k, Uploading(k) PROVE tstate = "idle" \/ (tstate = "B" /\ tpc \in 1..4)
  BY DEF Uploading, At
LEMMA ExecutingAt ==
    ASSUME NEW k, Executing(k) PROVE tstate = "A" /\ tpc \in 1..3
  BY DEF Executing, At
LEMMA DownloadingAt ==
    ASSUME NEW k, Downloading(k) PROVE tstate \in {"F", "G"}
  BY DEF Downloading, At, Sender

(* CD calls are redirected.                                                *)
LEMMA RedirectHere ==
    ASSUME TargetTyped, TRedirect, NEW k, Here(k)
    PROVE  Here(k)'
<1>1. /\ tstate = "H" /\ tpc = 1 /\ twait = FALSE /\ tstate' = "idle"
  BY RedirectMoves
<1>2. UNCHANGED <<opts, place, tenv, loaded>> /\ vector' = "dcload"
  BY DEF TRedirect, hostVars
<1>3. /\ LoadedBefore => LoadedBefore'
      /\ Diverted' = Diverted /\ Pointed(TRUE)'
  BY <1>2 DEF LoadedBefore, HasLoaded, Images, Before, Pointed, Diverted
<1>4. (\A speed : ~Changing(k, speed)) /\ ~Uploading(k) /\ ~Executing(k) /\ ~Downloading(k)
  BY <1>1, ChangingAt, UploadingAt, ExecutingAt, DownloadingAt
<1>5. CASE k = 1 /\ Beginning
  <2>1. LoadedBefore /\ Diverted /\ place.part \in {"upload", "execute"}
    BY <1>1, <1>5 DEF Beginning, At
  <2>2. Pointed(Diverted /\ place.part \in {"upload", "execute"})'
    BY <1>2, <1>3, <2>1 DEF Pointed
  <2>3. Beginning'
    BY <1>1, <1>3, <2>1, <2>2 DEF Beginning
  <2>4. QED
    BY <1>5, <2>3 DEF Here
<1>6. CASE place.part = "redirect" /\ Redirecting(k)
  <2>1. k = 2 /\ LoadedBefore
    BY <1>6 DEF Redirecting
  <2>2. Redirecting(k)'
    BY <1>1, <1>3, <2>1 DEF Redirecting
  <2>3. QED
    BY <1>2, <1>6, <2>2 DEF Here
<1>7. QED
  BY <1>4, <1>5, <1>6 DEF Here

LEMMA Redirects == ASSUME Typed, IInv, TRedirect PROVE IInv'
<1>1. TargetTyped
  BY DEF Typed
<1>2. /\ tstate = "H" /\ tpc = 1 /\ twait = FALSE /\ tstate' = "idle"
  BY <1>1, RedirectMoves
<1>3. /\ UNCHANGED hostVars /\ UNCHANGED <<toTarget, toHost, saved, tspeed>>
  BY DEF TRedirect
<1>4. hstate = "main" /\ InPace /\ (Free \/ Asking \/ Echoing \/ BlockSent)
  <2>1. tstate \in Commands /\ ~Going
    BY <1>2, GoingAt DEF Commands
  <2>2. QED
    BY <1>2, <2>1, Between
<1>5. ~BlockSent
  BY <1>2 DEF BlockSent, At
<1>6. InPace'
  BY <1>2, <1>3, <1>4, PaceKept DEF hostVars, portVars
<1>7. PICK k : k = (IF Echoing THEN hpc + 1 ELSE hpc) /\ Here(k)
  BY <1>4, <1>5, AskedHere
<1>8. Here(k)'
  BY <1>1, <1>7, RedirectHere
<1>9. QED
  BY <1>3, <1>4, <1>5, <1>6, <1>7, <1>8, Alone

(* The target changes its speed.                                           *)
LEMMA ChangingTwo ==
    ASSUME NEW k, NEW speed, Changing(k, speed), tpc = 2
    PROVE  k = 3 /\ tenv.speed = Told(opts, speed)
  BY DEF Changing, At

LEMMA ChangingHere ==
    ASSUME NEW k, Here(k), tstate = "S"
    PROVE  \/ place.part = "speed" /\ Changing(k, Wanted(opts))
           \/ place.part = "restore" /\ Changing(k, Initial)
  BY BeginningAt, RedirectingAt, UploadingAt, ExecutingAt, DownloadingAt DEF Here

LEMMA NewSpeed ==
    ASSUME SessionAssumption, SerialAssumption, Typed, Usual(opts), Started(opts), TInit,
           NEW speed \in {Wanted(opts), Initial}, tenv.speed = Told(opts, speed)
    PROVE  tspeed' = IF speed = Wanted(opts) THEN Fast ELSE Slow
<1>1. opts \in Invocations /\ ~opts.use_extclk
  BY DEF Typed, HostTyped, Usual
<1>2. opts.speed \in Nat \ {0}
  BY <1>1 DEF SessionAssumption
<1>3. speed \in Nat \ {0}
  BY <1>2, SpeedPositive DEF Wanted, Initial
<1>4. Told(opts, speed) # External
  BY <1>1, <1>3 DEF Told, ToldSpeed, External
<1>5. tspeed' = Rate(Told(opts, speed))
  BY <1>4 DEF TInit
<1>6. Told(opts, Initial) = Initial
  BY <1>1 DEF Told, ToldSpeed, Initial
<1>7. QED
  BY <1>5, <1>6 DEF Fast, Slow, Pace

LEMMA ChangingKnown ==
    ASSUME NEW k, NEW speed, Changing(k, speed) PROVE LoadedBefore /\ Pointed(FALSE)
  BY DEF Changing

LEMMA ChangedNow ==
    ASSUME LoadedBefore', Pointed(FALSE)', At("S", 3)'
    PROVE  \A speed : Changing(3, speed)'
  BY DEF Changing

LEMMA Inits ==
    ASSUME Grounds, Typed, Usual(opts), IInv, TInit
    PROVE  IInv'
<1>1. TargetTyped /\ HostTyped
  BY DEF Typed
<1>2. /\ tstate = "S" /\ tpc = 2 /\ twait = FALSE
      /\ tstate' = "S" /\ tpc' = 3 /\ twait' = FALSE
  BY <1>1, InitMoves
<1>3. /\ UNCHANGED hostVars /\ UNCHANGED <<toHost, saved, tenv, loaded, vector>> /\ toTarget' = <<>>
  BY DEF TInit, programVars, cdVars
<1>4. hstate = "main" /\ InPace /\ (Free \/ Asking \/ Echoing \/ BlockSent)
  <2>1. tstate \in Commands /\ ~Going
    BY <1>2, GoingAt DEF Commands
  <2>2. twait = FALSE
    BY <1>2
  <2>3. QED
    BY <2>1, <2>2, Between
<1>5. ~BlockSent /\ Working
  BY <1>1, <1>2, <1>4 DEF BlockSent, At, Working, Grounds
<1>6. PICK k : k = (IF Echoing THEN hpc + 1 ELSE hpc) /\ Here(k)
  BY <1>4, <1>5, AskedHere
<1>7. /\ k = 3
      /\ \/ place.part = "speed" /\ Changing(3, Wanted(opts)) /\ tenv.speed = Told(opts, Wanted(opts))
         \/ place.part = "restore" /\ Changing(3, Initial) /\ tenv.speed = Told(opts, Initial)
  BY <1>2, <1>6, ChangingHere, ChangingTwo
<1>8. ~Asking \/ Echoing
  <2>1. SUFFICES ASSUME Asking, ~Echoing PROVE FALSE
    OBVIOUS
  <2>2. hpc = 3 /\ Asks
    BY <1>6, <1>7, <2>1 DEF Asking
  <2>3. QED
    BY <1>5, <1>7, <2>2, AsksNotThree
<1>9. toTarget = <<>>
  BY <1>4, <1>5, <1>8 DEF Free, Echoing
<1>10. Here(3)'
  <2>1. At("S", 3)'
    BY <1>2 DEF At
  <2>2. LoadedBefore /\ Pointed(FALSE)
    BY <1>7, ChangingKnown
  <2>3. LoadedBefore' /\ Pointed(FALSE)' /\ place' = place /\ opts' = opts
    BY <1>3, <2>2 DEF LoadedBefore, HasLoaded, Images, Before, Pointed, hostVars
  <2>4. Changing(3, Wanted(opts))' /\ Changing(3, Initial)'
    BY <2>1, <2>3, ChangedNow
  <2>5. QED
    BY <1>7, <2>3, <2>4 DEF Here
<1>11. InPace'
  <2>1. opts \in Invocations /\ Started(opts)
    BY <1>5, PartIs
  <2>2. Wanted(opts) # Initial => tspeed' = IF place.part = "speed" THEN Fast ELSE Slow
    BY <1>7, <2>1, NewSpeed DEF Grounds
  <2>3. Wanted(opts) = Initial => tspeed' = Fast /\ Fast = Slow
    <3>1. SUFFICES ASSUME Wanted(opts) = Initial PROVE tspeed' = Fast /\ Fast = Slow
      OBVIOUS
    <3>2. tspeed' = Fast
      BY <1>7, <2>1, <3>1, NewSpeed DEF Grounds
    <3>3. ~opts.use_extclk
      BY <2>1 DEF Usual
    <3>4. Told(opts, Initial) = Initial
      BY <3>3 DEF Told, ToldSpeed, Initial
    <3>5. QED
      BY <3>1, <3>2, <3>4 DEF Fast, Slow, Pace
  <2>4. tspeed' = IF place.part = "speed" THEN Fast ELSE Slow
    BY <2>2, <2>3
  <2>5. UNCHANGED <<opts, place, hpc, hspeed>> /\ Retimed'
    BY <1>2, <1>3 DEF hostVars, portVars, Retimed
  <2>6. hspeed' = HostPace'
    BY <1>4, <2>5 DEF InPace, HostPace, Wanted
  <2>7. tspeed' = TargetPace'
    BY <1>7, <2>4, <2>5 DEF TargetPace, Fast, Slow, Pace, Wanted
  <2>8. QED
    BY <2>6, <2>7 DEF InPace
<1>12. QED
  BY <1>3, <1>4, <1>5, <1>6, <1>7, <1>9, <1>10, <1>11, Alone
-----------------------------------------------------------------------------
(* What the target has on its line and what it writes.                     *)
LEMMA WritesMeet ==
    ASSUME Working, Usual(opts), InPace,
           place.part \in {"speed", "restore"} => (Retimed => hpc > 3)
    PROVE  Meets(hspeed, tspeed) /\ Meets(tspeed, hspeed) /\ tspeed \in Paces
  BY PartIs, PaceIsPaired, PairMeets

LEMMA PacesStay == ASSUME opts' = opts PROVE Paces' = Paces
  BY DEF Paces, Slow, Fast, Pace, Wanted

LEMMA EchoStays ==
    ASSUME UNCHANGED <<opts, place, hpc>>
    PROVE  (\A s : Echo(s)' = Echo(s)) /\ Asks' = Asks /\ HValue' = HValue
  BY DEF Echo, Asks, HValue, HostScript

LEMMA QuestionKind ==
    ASSUME Asks PROVE Question.kind \in {"command", "uint"} /\ Question.value = HValue
  BY ItemFields DEF Question, Asks

(* A section is loaded.                                                    *)
LEMMA UploadingFour ==
    ASSUME NEW k, Uploading(k), tstate = "B", tpc = 4
    PROVE  /\ k = 4 /\ LoadedBefore /\ Pointed(Diverted)
           /\ tenv.addr = Sections(opts)[place.section].addr
           /\ tenv.size = Sections(opts)[place.section].size
<1>1. k = 4
  BY DEF Uploading, At
<1>2. QED
  BY <1>1, UploadingLast

LEMMA OneMore ==
    ASSUME LoadedBefore, loaded' = loaded \cup {<<tenv.addr, tenv.size>>},
           tenv.addr = Sections(opts)[place.section].addr,
           tenv.size = Sections(opts)[place.section].size,
           UNCHANGED <<opts, place>>
    PROVE  LoadedSection'
<1> DEFINE sections == Before(opts, place) \cup {place.section}
<1>1. Images(sections) = Images(Before(opts, place)) \cup {<<tenv.addr, tenv.size>>}
  BY DEF Images
<1>2. opts.command = "x" => loaded' = Images(sections)
  BY <1>1 DEF LoadedBefore, HasLoaded
<1>3. QED
  BY <1>2 DEF LoadedSection, HasLoaded, Images, Before

LEMMA LoadHere ==
    ASSUME Working, TargetTyped, TLoad, tenv.size = 0, NEW k, Here(k)
    PROVE  Here(k)'
<1>1. /\ tstate = "B" /\ tpc = 4 /\ twait = FALSE /\ tstate' = "idle"
  BY LoadMoves
<1>2. /\ UNCHANGED <<opts, place, tenv, vector>>
      /\ loaded' = loaded \cup {<<tenv.addr, tenv.size>>}
  BY DEF TLoad, hostVars, cdVars
<1>3. (\A speed : ~Changing(k, speed)) /\ ~Redirecting(k) /\ ~Executing(k) /\ ~Downloading(k)
  BY <1>1, ChangingAt, RedirectingAt, ExecutingAt, DownloadingAt
<1>4. CASE k = 1 /\ Beginning
  <2>1. /\ HasLoaded(loaded \cup {<<tenv.addr, tenv.size>>}, Before(opts, place))
        /\ place.part \in {"upload", "execute", "restore"} /\ Pointed(Diverted)
    BY <1>1, <1>4 DEF Beginning, At
  <2>2. LoadedBefore'
    BY <1>2, <2>1 DEF LoadedBefore, HasLoaded, Images, Before
  <2>3. place.part = "restore" => ~Diverted
    BY RestoreDoes DEF Diverted
  <2>4. Pointed(Diverted /\ place.part \in {"upload", "execute"})'
    BY <1>2, <2>1, <2>3 DEF Pointed, Diverted
  <2>5. Beginning'
    BY <1>1, <2>2, <2>4 DEF Beginning
  <2>6. QED
    BY <1>4, <2>5 DEF Here
<1>5. CASE place.part = "upload" /\ Uploading(k)
  <2>1. /\ k = 4 /\ LoadedBefore /\ Pointed(Diverted)
        /\ tenv.addr = Sections(opts)[place.section].addr
        /\ tenv.size = Sections(opts)[place.section].size
    BY <1>1, <1>5, UploadingFour
  <2>2. LoadedSection'
    BY <1>2, <2>1, OneMore
  <2>3. Pointed(Diverted)' /\ tstate' = "idle" /\ (Sections(opts)[place.section].size = 0)'
    BY <1>1, <1>2, <2>1 DEF Pointed, Diverted
  <2>4. Uploading(4)'
    BY <2>2, <2>3 DEF Uploading
  <2>5. QED
    BY <1>2, <1>5, <2>1, <2>4 DEF Here
<1>6. QED
  BY <1>3, <1>4, <1>5 DEF Here

LEMMA Loads ==
    ASSUME Grounds, Typed, Usual(opts), IInv, TLoad
    PROVE  IInv'
<1>1. TargetTyped /\ HostTyped
  BY DEF Typed
<1>2. /\ tstate = "B" /\ tpc = 4 /\ twait = FALSE /\ tstate' = "idle"
  BY <1>1, LoadMoves
<1>3. /\ UNCHANGED hostVars /\ UNCHANGED <<saved, tspeed, tenv, vector>>
      /\ loaded' = loaded \cup {<<tenv.addr, tenv.size>>}
  BY DEF TLoad, cdVars
<1>4. hstate = "main" /\ InPace /\ (Free \/ Asking \/ Echoing \/ BlockSent)
  <2>1. tstate \in Commands /\ ~Going
    BY <1>2, GoingAt DEF Commands
  <2>2. twait = FALSE
    BY <1>2
  <2>3. QED
    BY <2>1, <2>2, Between
<1>5. Working
  BY <1>1, <1>4 DEF Working, Grounds
<1>6. InPace'
  BY <1>2, <1>3, <1>4, PaceKept DEF hostVars, portVars
<1>7. BlockSent => /\ LoadedBefore /\ Pointed(Diverted) /\ tenv.size = HValue
                   /\ tenv.addr = Sections(opts)[place.section].addr
                   /\ tenv.size = Sections(opts)[place.section].size
                   /\ place.part = "upload" /\ hpc = 4
  <2>1. SUFFICES ASSUME BlockSent
                 PROVE  /\ LoadedBefore /\ Pointed(Diverted) /\ tenv.size = HValue
                        /\ tenv.addr = Sections(opts)[place.section].addr
                        /\ tenv.size = Sections(opts)[place.section].size
                        /\ place.part = "upload" /\ hpc = 4
    OBVIOUS
  <2>2. Uploading(4) /\ place.part = "upload" /\ hpc = 4
    BY <2>1 DEF BlockSent
  <2>3. HValue = Sections(opts)[place.section].size
    BY <1>5, <2>2, UploadDoes DEF UploadDo, HostDo
  <2>4. QED
    BY <1>2, <2>2, <2>3, UploadingFour
<1>8. CASE tenv.size = 0
  <2>1. ~BlockSent
    BY <1>7, <1>8 DEF BlockSent
  <2>2. PICK k : k = (IF Echoing THEN hpc + 1 ELSE hpc) /\ Here(k)
    BY <1>4, <2>1, AskedHere
  <2>3. Here(k)'
    BY <1>1, <1>5, <1>8, <2>2, LoadHere
  <2>4. UNCHANGED <<toTarget, toHost>>
    BY <1>8 DEF TLoad
  <2>5. QED
    BY <1>3, <1>4, <1>6, <2>1, <2>2, <2>3, <2>4, Alone
<1>9. CASE tenv.size # 0
  <2>1. /\ toTarget # <<>> /\ Head(toTarget).kind = "block"
        /\ toTarget' = Tail(toTarget) /\ toHost' = Append(toHost, Item("good", 0, tspeed))
    BY <1>9 DEF TLoad, THas, TWrites
  <2>2. BlockSent
    <3>1. ~Asking
      BY <2>1, OneItem, QuestionKind DEF Asking
    <3>2. QED
      BY <1>4, <2>1, <3>1 DEF Free, Echoing
  <2>3. toTarget' = <<>> /\ toHost' = <<Item("good", 0, tspeed)>>
    BY <2>1, <2>2, OneItem DEF BlockSent
  <2>4. Meets(tspeed, hspeed) /\ tspeed \in Paces
    BY <1>4, <1>5, <1>7, <2>2, WritesMeet
  <2>5. LoadedSection' /\ Pointed(Diverted)'
    BY <1>3, <1>7, <2>2, OneMore DEF hostVars, Pointed, Diverted
  <2>6. UNCHANGED <<opts, hstate, place, hpc, hwait, hspeed>>
    BY <1>3 DEF hostVars, portVars
  <2>7. tspeed \in Paces' /\ Meets(tspeed, hspeed')
    BY <2>4, <2>6, PacesStay
  <2>8. BlockAnswered'
    BY <1>2, <2>2, <2>3, <2>5, <2>6, <2>7 DEF BlockSent, BlockAnswered
  <2>9. QED
    BY <1>3, <1>4, <1>6, <2>6, <2>8 DEF IInv, AtWork
<1>10. QED
  BY <1>8, <1>9

(* The target sends the check back.                                        *)
LEMMA ChangingFour ==
    ASSUME NEW k, NEW speed, Changing(k, speed), tpc = 4
    PROVE  k = 5 /\ tenv.check = Check
  BY DEF Changing, At

LEMMA Puts ==
    ASSUME Grounds, Typed, Usual(opts), IInv, TPut
    PROVE  IInv'
<1>1. TargetTyped /\ HostTyped
  BY DEF Typed
<1>2. /\ tstate = "S" /\ tpc = 4 /\ twait = FALSE
      /\ tstate' = "idle" /\ tpc' = 1 /\ toHost' = Append(toHost, Item("uint", tenv.check, tspeed))
  BY <1>1, PutMoves DEF TWrites
<1>3. UNCHANGED hostVars /\ UNCHANGED <<saved, tspeed, vector, loaded, toTarget>>
  BY DEF TPut, programVars, cdVars
<1>4. hstate = "main" /\ InPace /\ (Free \/ Asking \/ Echoing \/ BlockSent)
  <2>1. tstate \in Commands /\ ~Going
    BY <1>2, GoingAt DEF Commands
  <2>2. twait = FALSE
    BY <1>2
  <2>3. QED
    BY <2>1, <2>2, Between
<1>5. ~BlockSent /\ Working
  BY <1>1, <1>2, <1>4 DEF BlockSent, At, Working, Grounds
<1>6. ASSUME NEW k, Here(k)
      PROVE  /\ k = 5 /\ tenv.check = Check /\ LoadedBefore /\ Pointed(FALSE)
             /\ place.part \in {"speed", "restore"}
  <2>1. /\ tstate = "S" /\ tpc = 4
    BY <1>2
  <2>2. place.part \in {"speed", "restore"} /\ \E speed : Changing(k, speed)
    BY <1>6, <2>1, ChangingHere
  <2>3. PICK speed : Changing(k, speed)
    BY <2>2
  <2>4. k = 5 /\ tenv.check = Check
    BY <2>1, <2>3, ChangingFour
  <2>5. LoadedBefore /\ Pointed(FALSE)
    BY <2>3, ChangingKnown
  <2>6. QED
    BY <2>2, <2>4, <2>5
<1>7. /\ tenv.check = Check /\ LoadedBefore /\ Pointed(FALSE)
      /\ place.part \in {"speed", "restore"}
  BY <1>4, <1>5, <1>6 DEF Free, Asking, Echoing
<1>8. hpc \in Nat
  BY <1>5, WorkingAt
<1>9. (Free /\ hpc = 5) \/ (Echoing /\ hpc = 4)
  <2>1. Free => hpc = 5
    BY <1>6 DEF Free
  <2>2. Echoing => hpc + 1 = 5
    BY <1>6 DEF Echoing
  <2>3. ~Asking
    <3>1. Asking => hpc = 5 /\ Asks
      BY <1>6 DEF Asking
    <3>2. QED
      BY <1>5, <1>7, <3>1, AsksNotThree
  <2>4. QED
    BY <1>4, <1>5, <1>8, <2>1, <2>2, <2>3
<1>10. Meets(tspeed, hspeed) /\ tspeed \in Paces
  BY <1>4, <1>5, <1>9, WritesMeet
<1>11. UNCHANGED <<opts, hstate, place, hpc, hwait, hspeed>>
  BY <1>3 DEF hostVars, portVars
<1>12. /\ tspeed \in Paces' /\ Meets(tspeed, hspeed') /\ Paces' = Paces
       /\ \A s : Echo(s)' = Echo(s)
  BY <1>10, <1>11, PacesStay, EchoStays
<1>13. Behind(Item("uint", Check, tspeed))'
  <2>1. CASE Free /\ hpc = 5
    <3>1. toHost' = <<Item("uint", Check, tspeed)>>
      BY <1>2, <1>7, <2>1, OneItem DEF Free
    <3>2. QED
      BY <1>3, <1>11, <2>1, <3>1 DEF Behind, Free
  <2>2. CASE Echoing /\ hpc = 4
    <3>1. PICK s \in Paces : Meets(s, hspeed) /\ toHost = <<Echo(s)>>
      BY <2>2 DEF Echoing
    <3>2. toHost' = <<Echo(s), Item("uint", Check, tspeed)>>
      BY <1>2, <1>7, <3>1, Appended
    <3>3. QED
      BY <1>3, <1>11, <1>12, <2>2, <3>1, <3>2 DEF Behind, Echoing
  <2>3. QED
    BY <1>9, <2>1, <2>2
<1>14. LoadedBefore' /\ Pointed(FALSE)'
  BY <1>3, <1>7, <1>11 DEF LoadedBefore, HasLoaded, Images, Before, Pointed
<1>15. toTarget' = <<>>
  BY <1>3, <1>9 DEF Free, Echoing
<1>16. Checked'
  BY <1>2, <1>3, <1>7, <1>11, <1>12, <1>13, <1>14, <1>15 DEF Checked
<1>17. InPace'
  BY <1>3, <1>4, <1>9, <1>11 DEF InPace, HostPace, TargetPace, Retimed, Fast, Slow, Pace, Wanted
<1>18. QED
  BY <1>3, <1>4, <1>11, <1>16, <1>17 DEF IInv, AtWork

(* The target sends what it was asked for.                                 *)
LEMMA DownloadingLast ==
    ASSUME NEW k, Downloading(k), twait = FALSE,
           \/ tstate = "G" /\ tpc = 4
           \/ tstate = "F" /\ tpc = 5
    PROVE  k = 5 /\ tstate = Sender /\ tpc = Last /\ LoadedBefore /\ Pointed(FALSE)
<1>1. LoadedBefore /\ Pointed(FALSE)
  BY DEF Downloading
<1>2. k \in 2..5 /\ At(Sender, IF opts.quiet THEN k - 1 ELSE k)
  BY DEF Downloading, At
<1>3. tstate = Sender /\ tpc = IF opts.quiet THEN k - 1 ELSE k
  BY <1>2 DEF At
<1>4. CASE opts.quiet
  <2>1. tstate = "G" /\ tpc = 4 /\ k - 1 = 4
    BY <1>3, <1>4 DEF Sender
  <2>2. k = 5
    BY <1>2, <2>1
  <2>3. QED
    BY <1>1, <1>3, <1>4, <2>1, <2>2 DEF Last
<1>5. CASE ~opts.quiet
  <2>1. tstate = "F" /\ tpc = 5 /\ k = 5
    BY <1>3, <1>5 DEF Sender
  <2>2. QED
    BY <1>1, <1>3, <1>5, <2>1 DEF Last
<1>6. QED
  BY <1>4, <1>5

LEMMA Sends ==
    ASSUME Grounds, Typed, Usual(opts), IInv, TSend
    PROVE  IInv'
<1>1. TargetTyped /\ HostTyped
  BY DEF Typed
<1>2. /\ \/ tstate \in {"D", "G"} /\ tpc = 4
         \/ tstate = "E" /\ tpc = 3
         \/ tstate = "F" /\ tpc = 5
      /\ twait = FALSE
  BY <1>1, SendMoves
<1>3. /\ UNCHANGED hostVars
      /\ UNCHANGED <<tstate, tpc, tenv, saved, tspeed, vector, loaded, toTarget>>
      /\ twait' = TRUE /\ toHost' = Append(toHost, Item("block", tenv.size, tspeed))
  BY DEF TSend, TWrites, programVars, cdVars
<1>4. hstate = "main" /\ InPace /\ (Free \/ Asking \/ Echoing \/ BlockSent)
  <2>1. tstate \in Commands /\ tstate # "A"
    BY <1>2 DEF Commands
  <2>2. twait = FALSE
    BY <1>2
  <2>3. QED
    BY <2>1, <2>2, Between, GoingAt
<1>5. ~BlockSent /\ Working
  <2>1. tstate # "B"
    BY <1>2
  <2>2. QED
    BY <1>1, <1>4, <2>1 DEF BlockSent, At, Working, Grounds
<1>6. ASSUME NEW k, Here(k)
      PROVE  /\ k = 5 /\ tstate = Sender /\ tpc = Last /\ LoadedBefore /\ Pointed(FALSE)
             /\ place.part = "download"
  <2>1. /\ ~Beginning /\ (\A speed : ~Changing(k, speed)) /\ ~Redirecting(k)
        /\ ~Uploading(k) /\ ~Executing(k)
    <3>1. tstate \notin {"idle", "A", "B", "H", "S"}
      BY <1>2
    <3>2. QED
      BY <3>1, BeginningAt, ChangingAt, RedirectingAt, UploadingAt, ExecutingAt
  <2>2. Downloading(k) /\ place.part = "download"
    BY <1>6, <2>1 DEF Here
  <2>3. tstate \in {"F", "G"}
    BY <2>2, DownloadingAt
  <2>4. (tstate = "G" /\ tpc = 4) \/ (tstate = "F" /\ tpc = 5)
    BY <1>2, <2>3
  <2>5. twait = FALSE
    BY <1>2
  <2>6. QED
    BY <2>2, <2>4, <2>5, DownloadingLast
<1>7. /\ tstate = Sender /\ tpc = Last /\ LoadedBefore /\ Pointed(FALSE)
      /\ place.part = "download"
  BY <1>4, <1>5, <1>6 DEF Free, Asking, Echoing
<1>8. hpc \in Nat
  BY <1>5, WorkingAt
<1>9. (Free /\ hpc = 5) \/ (Echoing /\ hpc = 4)
  <2>1. Free => hpc = 5
    BY <1>6 DEF Free
  <2>2. Echoing => hpc + 1 = 5
    BY <1>6 DEF Echoing
  <2>3. ~Asking
    <3>1. Asking => hpc = 5 /\ Asks
      BY <1>6 DEF Asking
    <3>2. QED
      BY <1>5, <1>7, <3>1, DownloadDoes DEF DownloadDo, HostDo, Asks
  <2>4. QED
    BY <1>4, <1>5, <1>8, <2>1, <2>2, <2>3
<1>10. Meets(tspeed, hspeed) /\ tspeed \in Paces
  BY <1>4, <1>5, <1>7, WritesMeet
<1>11. UNCHANGED <<opts, hstate, place, hpc, hwait, hspeed>>
  BY <1>3 DEF hostVars, portVars
<1>12. /\ tspeed \in Paces' /\ Meets(tspeed, hspeed') /\ Paces' = Paces
       /\ \A s : Echo(s)' = Echo(s)
  BY <1>10, <1>11, PacesStay, EchoStays
<1>13. Behind(Item("block", tenv.size, tspeed))'
  <2>1. CASE Free /\ hpc = 5
    <3>1. toHost' = <<Item("block", tenv.size, tspeed)>>
      BY <1>3, <2>1, OneItem DEF Free
    <3>2. QED
      BY <1>3, <1>11, <2>1, <3>1 DEF Behind, Free
  <2>2. CASE Echoing /\ hpc = 4
    <3>1. PICK s \in Paces : Meets(s, hspeed) /\ toHost = <<Echo(s)>>
      BY <2>2 DEF Echoing
    <3>2. toHost' = <<Echo(s), Item("block", tenv.size, tspeed)>>
      BY <1>3, <3>1, Appended
    <3>3. QED
      BY <1>3, <1>11, <1>12, <2>2, <3>1, <3>2 DEF Behind, Echoing
  <2>3. QED
    BY <1>9, <2>1, <2>2
<1>14. LoadedBefore' /\ Pointed(FALSE)' /\ AtSend'
  BY <1>3, <1>7, <1>11
     DEF LoadedBefore, HasLoaded, Images, Before, Pointed, AtSend, Sender, Last
<1>15. toTarget' = <<>>
  BY <1>3, <1>9 DEF Free, Echoing
<1>16. Sent'
  <2>1. place'.part = "download"
    BY <1>7, <1>11
  <2>2. (\E s \in Paces : Meets(s, hspeed) /\ Behind(Item("block", tenv.size, s)))'
    <3>1. tspeed' = tspeed
      BY <1>3
    <3>2. Behind(Item("block", tenv.size, tspeed))' /\ tspeed' \in Paces' /\ Meets(tspeed', hspeed')
      BY <1>12, <1>13, <3>1
    <3>3. QED
      BY <3>2
  <2>3. QED
    BY <1>14, <1>15, <2>1, <2>2 DEF Sent
<1>17. InPace'
  BY <1>3, <1>4, <1>11, PaceStays
<1>18. QED
  BY <1>3, <1>4, <1>11, <1>16, <1>17 DEF IInv, AtWork

(* The target reads the answer to what it has sent.                        *)
LEMMA TAnswers ==
    ASSUME Grounds, Typed, IInv, TAnswer
    PROVE  IInv'
<1>1. TargetTyped /\ HostTyped /\ tstate \in Commands /\ twait /\ toTarget # <<>>
  BY DEF Typed, TAnswer, THas
<1>2. tstate \notin {"idle", "program", "calling"} /\ twait # FALSE
  BY <1>1 DEF Commands
<1>3. \A k : ~Here(k)
  BY <1>2, HereWhere
<1>4. hstate = "main" /\ InPace /\ Fetched
  <2>1. ~Going /\ ~InProgram /\ ~Calling /\ ~Resting
    BY <1>2, GoingAt DEF InProgram, Calling, Resting
  <2>2. AtWork
    BY <2>1 DEF IInv
  <2>3. ~Free /\ ~Asking /\ ~Echoing
    BY <1>3 DEF Free, Asking, Echoing
  <2>4. ~BlockSent /\ ~BlockAnswered /\ ~Checked /\ ~Sent
    BY <1>1, <1>2 DEF BlockSent, At, BlockAnswered, Checked, Sent
  <2>5. QED
    BY <2>2, <2>3, <2>4 DEF AtWork
<1>5. tstate' = "idle" /\ toTarget' = Tail(toTarget)
  BY <1>1, <1>4, AnswerMoves DEF Fetched, TAnswer
<1>6. UNCHANGED <<opts, hstate, place, hpc, hwait, hspeed, tspeed, vector, saved, loaded, toHost>>
  BY DEF TAnswer, hostVars, portVars, programVars, cdVars
<1>7. InPace'
  <2>1. tstate # "S" /\ tstate' # "S"
    BY <1>4, <1>5 DEF Fetched, AtSend, Sender
  <2>2. QED
    BY <1>4, <1>6, <2>1, PaceKept
<1>8. Here(1)'
  <2>1. LoadedBefore'
    BY <1>4, <1>6 DEF Fetched, LoadedBefore, HasLoaded
  <2>2. Pointed(Diverted /\ place.part \in {"upload", "execute"})'
    BY <1>4, <1>6 DEF Fetched, Pointed
  <2>3. Beginning'
    BY <1>5, <2>1, <2>2 DEF Beginning
  <2>4. QED
    BY <2>3 DEF Here
<1>9. Working
  BY <1>1, <1>4 DEF Working, Grounds
<1>10. CASE hwait = "none"
  <2>1. toTarget' = <<>> /\ toHost' = <<>> /\ hwait' = "none" /\ hpc' = 1
    BY <1>4, <1>5, <1>6, <1>10, OneItem DEF Fetched
  <2>2. Free'
    BY <1>8, <2>1 DEF Free
  <2>3. QED
    BY <1>4, <1>6, <1>7, <2>2 DEF IInv, AtWork
<1>11. CASE hwait = "echo"
  <2>1. toTarget' = <<Question>> /\ toHost' = <<>> /\ hwait' = "echo" /\ hpc' = 1
    BY <1>4, <1>5, <1>6, <1>11, TwoItems DEF Fetched
  <2>2. Asks
    BY <1>4, <1>9, FetchedNext DEF HostDo, Asks
  <2>3. Question' = Question /\ Asks'
    BY <1>6, <2>2, EchoStays DEF Question, Asks, HValue, HostScript
  <2>4. Asking'
    BY <1>8, <2>1, <2>3 DEF Asking
  <2>5. QED
    BY <1>4, <1>6, <1>7, <2>4 DEF IInv, AtWork
<1>12. QED
  BY <1>4, <1>10, <1>11 DEF Fetched
-----------------------------------------------------------------------------
(* The program is started.                                                 *)
LEMMA YesOrNo ==
    ASSUME Grounds, HostTyped
    PROVE  opts.console \in BOOLEAN /\ opts.cdfs_redir \in BOOLEAN /\ opts.quiet \in BOOLEAN
  BY DEF Grounds, SessionAssumption, HostTyped

LEMMA Goes == ASSUME Grounds, Typed, IInv, TGo PROVE IInv'
<1>1. TargetTyped
  BY DEF Typed
<1>2. tstate = "A" /\ tpc = 4 /\ twait = FALSE
  BY <1>1, GoMoves
<1>3. Going
  <2>1. tstate \in Commands
    BY <1>2 DEF Commands
  <2>2. \A k : ~Here(k)
    <3>1. tstate \notin {"idle", "B", "F", "G", "H", "S"} /\ ~(tpc \in 1..3)
      BY <1>2
    <3>2. QED
      BY <3>1, BeginningAt, ChangingAt, RedirectingAt, UploadingAt, ExecutingAt, DownloadingAt
         DEF Here
  <2>3. ~Free /\ ~Asking /\ ~Echoing /\ ~BlockSent
    BY <1>2, <2>2 DEF Free, Asking, Echoing, BlockSent, At
  <2>4. QED
    BY <1>2, <2>1, <2>3, Between
<1>4. /\ UNCHANGED <<opts, hstate, place, hpc, hwait, hspeed, tenv, tspeed, vector, saved, loaded>>
      /\ UNCHANGED <<toTarget, toHost>>
      /\ tstate' = "program" /\ tconsole' = (tenv.console # 0)
  BY DEF TGo, hostVars, portVars, cdVars
<1>5. Nothing' /\ toTarget' = <<>>
  BY <1>3, <1>4 DEF Going, Nothing, Reading, LastEcho, Paces, Slow, Fast, Pace, Wanted
<1>6. Launched'
  BY <1>3, <1>4 DEF Going, Launched, Follows, Pointed, Images, Fast, Pace, Wanted, Usable, Diverted
<1>7. tconsole' = opts.console
  <2>1. tenv.console = IF opts.console THEN 1 ELSE 0
    BY <1>3 DEF Going
  <2>2. opts.console \in BOOLEAN
    BY YesOrNo DEF Typed
  <2>3. QED
    BY <1>4, <2>1, <2>2
<1>8. InProgram'
  BY <1>4, <1>5, <1>6, <1>7 DEF InProgram
<1>9. QED
  BY <1>3, <1>4, <1>8 DEF IInv
-----------------------------------------------------------------------------
(* The target reads a command.                                             *)
LEMMA PaceHeld ==
    ASSUME InPace, UNCHANGED <<opts, place, hpc, hspeed, tspeed>>, Retimed' <=> Retimed
    PROVE  InPace'
  BY DEF InPace, HostPace, TargetPace, Fast, Slow, Pace, Wanted

LEMMA CommandsOfMain ==
    ASSUME Working, HostScript[hpc].do = "command"
    PROVE  /\ hpc = 1
           /\ \/ place.part \in {"speed", "restore"} /\ HValue = "S"
              \/ place.part = "redirect" /\ HValue = "H" /\ Diverted
              \/ place.part = "upload" /\ HValue = "B"
              \/ place.part = "execute" /\ HValue = "A"
              \/ place.part = "download" /\ HValue = Sender
  BY PartIs, SpeedDoes, RestoreDoes, RedirectDoes, UploadDoes, ExecuteDoes, DownloadDoes
     DEF SpeedDo, UploadDo, ExecuteDo, DownloadDo, HostDo

LEMMA BeginningIdle ==
    ASSUME Here(1), tstate = "idle"
    PROVE  LoadedBefore /\ Pointed(Diverted /\ place.part \in {"upload", "execute"})
<1>1. (\A speed : ~Changing(1, speed)) /\ ~Executing(1) /\ ~Downloading(1)
  BY ChangingAt, ExecutingAt, DownloadingAt
<1>2. ~Redirecting(1) /\ ~Uploading(1)
  BY DEF Redirecting, Uploading
<1>3. Beginning
  BY <1>1, <1>2 DEF Here
<1>4. QED
  BY <1>3 DEF Beginning, At

(* Where the command takes the target.                                     *)
LEMMA Commanded ==
    ASSUME Grounds, Working, Here(1), tstate = "idle", HostScript[hpc].do = "command",
           tstate' = HValue, tpc' = 1, twait' = FALSE,
           UNCHANGED <<opts, place, loaded, vector>>
    PROVE  Here(2)'
<1>1. LoadedBefore /\ Pointed(Diverted /\ place.part \in {"upload", "execute"})
  BY BeginningIdle
<1>2. LoadedBefore' /\ Diverted' = Diverted
  BY <1>1 DEF LoadedBefore, HasLoaded, Images, Before, Diverted
<1>3. CASE place.part \in {"speed", "restore"} /\ HValue = "S"
  <2>1. Pointed(FALSE)' /\ At("S", 1)'
    BY <1>1, <1>3 DEF Pointed, At
  <2>2. \A speed : Changing(2, speed)'
    BY <1>2, <2>1 DEF Changing
  <2>3. QED
    BY <1>3, <2>2 DEF Here
<1>4. CASE place.part = "redirect" /\ HValue = "H" /\ Diverted
  <2>1. Pointed(FALSE)' /\ At("H", 1)'
    BY <1>1, <1>4 DEF Pointed, At
  <2>2. Redirecting(2)'
    BY <1>2, <2>1 DEF Redirecting
  <2>3. QED
    BY <1>4, <2>2 DEF Here
<1>5. CASE place.part = "upload" /\ HValue = "B"
  <2>1. Pointed(Diverted)' /\ At("B", 1)'
    BY <1>1, <1>2, <1>5 DEF Pointed, At, Diverted
  <2>2. Uploading(2)'
    BY <1>2, <2>1 DEF Uploading
  <2>3. QED
    BY <1>5, <2>2 DEF Here
<1>6. CASE place.part = "execute" /\ HValue = "A"
  <2>1. Pointed(Diverted)' /\ At("A", 1)'
    BY <1>1, <1>2, <1>6 DEF Pointed, At, Diverted
  <2>2. Executing(2)'
    BY <1>2, <2>1 DEF Executing
  <2>3. QED
    BY <1>6, <2>2 DEF Here
<1>7. CASE place.part = "download" /\ HValue = Sender
  <2>1. Pointed(FALSE)' /\ opts.quiet \in BOOLEAN
    BY <1>1, <1>7, YesOrNo DEF Pointed, Working
  <2>2. \/ opts'.quiet /\ At("G", 1)' /\ Sender' = "G"
        \/ ~opts'.quiet /\ At("F", 1)'
    BY <1>7, <2>1 DEF At, Sender
  <2>3. Downloading(2)'
    <3>1. At(Sender, IF opts.quiet THEN 2 - 1 ELSE 2)' \/ (At("F", 1)' /\ ~opts'.quiet)
      BY <2>2 DEF At
    <3>2. 2 \in 2..5
      OBVIOUS
    <3>3. QED
      BY <1>2, <2>1, <3>1, <3>2, Zenon DEF Downloading
  <2>4. QED
    BY <1>7, <2>3 DEF Here
<1>8. QED
  BY <1>3, <1>4, <1>5, <1>6, <1>7, CommandsOfMain

LEMMA TCommands ==
    ASSUME Grounds, Typed, Usual(opts), IInv, TCommand
    PROVE  IInv'
<1>1. /\ HostTyped /\ tstate = "idle" /\ tpc = 1 /\ twait = FALSE
      /\ toTarget # <<>> /\ Head(toTarget).kind = "command"
  <2>1. HostTyped /\ Stepping /\ tstate = "idle"
    BY DEF Typed, TargetTyped, TCommand
  <2>2. tpc = 1 /\ twait = FALSE
    BY <2>1 DEF Stepping, Commands
  <2>3. toTarget # <<>> /\ Head(toTarget).kind = "command"
    BY DEF TCommand, THas
  <2>4. QED
    BY <2>1, <2>2, <2>3
<1>2. hstate = "main" /\ InPace /\ Asking
  <2>1. ~Going /\ ~InProgram /\ ~Calling /\ ~Resting
    BY <1>1, GoingAt DEF InProgram, Calling, Resting
  <2>2. AtWork
    BY <2>1 DEF IInv
  <2>3. ~BlockSent /\ ~Fetched /\ ~Sent
    BY <1>1 DEF BlockSent, At, Fetched, Sent, AtSend
  <2>4. QED
    BY <1>1, <2>2, <2>3 DEF AtWork, Free, Echoing, BlockAnswered, Checked
<1>3. Working
  BY <1>1, <1>2 DEF Working, Grounds
<1>4. /\ HostScript[hpc].do = "command" /\ Head(toTarget) = Question /\ Question.value = HValue
      /\ Tail(toTarget) = <<>> /\ toHost = <<>> /\ Asks /\ Here(hpc)
  <2>1. Head(toTarget) = Question /\ Tail(toTarget) = <<>> /\ toHost = <<>> /\ Asks /\ Here(hpc)
    BY <1>2, OneItem DEF Asking
  <2>2. Question.kind = HostScript[hpc].do /\ Question.value = HValue
    BY ItemFields DEF Question
  <2>3. QED
    BY <1>1, <2>1, <2>2
<1>5. hpc = 1 /\ HValue \in Commands
  BY <1>3, <1>4, CommandsOfMain DEF Commands, Sender
<1>6. /\ tstate' = HValue /\ tpc' = 1 /\ twait' = FALSE /\ tspeed' = tspeed
      /\ toTarget' = <<>> /\ toHost' = <<Echo(tspeed)>>
  <2>1. tstate' = HValue /\ tspeed' = tspeed
    BY <1>4, <1>5 DEF TCommand
  <2>2. toHost' = Append(<<>>, Item("command", HValue, tspeed))
    BY <1>4 DEF TCommand, TWrites
  <2>3. QED
    BY <1>1, <1>4, <2>1, <2>2, OneItem DEF TCommand, Echo
<1>7. UNCHANGED <<opts, hstate, place, hpc, hwait, hspeed, vector, saved, loaded>>
  BY DEF TCommand, hostVars, portVars, programVars, cdVars
<1>8. Here(hpc + 1)'
  <2>1. Here(2)'
    BY <1>1, <1>3, <1>4, <1>5, <1>6, <1>7, Commanded
  <2>2. QED
    BY <1>5, <1>7, <2>1
<1>9. ~Retimed /\ ~Retimed'
  BY <1>1, <1>5, <1>6, <1>7 DEF Retimed
<1>10. InPace'
  BY <1>2, <1>6, <1>7, <1>9, PaceHeld
<1>11. tspeed \in Paces' /\ Meets(tspeed, hspeed') /\ Asks'
  BY <1>2, <1>3, <1>4, <1>7, <1>9, WritesMeet, PacesStay, EchoStays
<1>12. Echoing'
  <2>1. (\E s \in Paces : Meets(s, hspeed) /\ toHost = <<Echo(s)>>)'
    <3>1. toHost' = <<Echo(tspeed)'>>
      BY <1>6, <1>7, EchoStays
    <3>2. QED
      BY <1>6, <1>11, <3>1
  <2>2. hwait' = "echo"
    BY <1>2, <1>7 DEF Asking
  <2>3. QED
    BY <1>6, <1>8, <1>11, <2>1, <2>2 DEF Echoing
<1>13. QED
  BY <1>2, <1>7, <1>10, <1>12 DEF IInv, AtWork
-----------------------------------------------------------------------------
(* The target reads a number.                                              *)
LEMMA NumbersOfMain ==
    ASSUME Working, HostScript[hpc].do = "uint"
    PROVE  LET section == Sections(opts)[place.section] IN
           \/ /\ place.part = "speed"
              /\ (hpc = 2 /\ HValue = Told(opts, Wanted(opts))) \/ (hpc = 4 /\ HValue = Check)
           \/ /\ place.part = "restore"
              /\ (hpc = 2 /\ HValue = Told(opts, Initial)) \/ (hpc = 4 /\ HValue = Check)
           \/ /\ place.part = "upload"
              /\ (hpc = 2 /\ HValue = section.addr) \/ (hpc = 3 /\ HValue = section.size)
           \/ /\ place.part = "execute"
              /\ \/ hpc = 2 /\ HValue = Entry(opts)
                 \/ hpc = 3 /\ HValue = IF opts.console THEN 1 ELSE 0
           \/ place.part = "download" /\ hpc \in 2..4
  BY PartIs, SpeedDoes, RestoreDoes, RedirectDoes, UploadDoes, ExecuteDoes, DownloadDoes
     DEF SpeedDo, UploadDo, ExecuteDo, DownloadDo, HostDo

LEMMA FieldRead ==
    ASSUME TargetTyped, TGet
    PROVE  LET field == TScript(tstate)[tpc].value IN
           /\ tenv'[field] = Head(toTarget).value
           /\ \A f \in Fields : f # field => tenv'[f] = tenv[f]
<1> DEFINE field == TScript(tstate)[tpc].value
<1>1. field \in Fields
  BY DoesGet DEF TGet
<1>2. tenv \in [Fields -> Nat] /\ tenv' = [tenv EXCEPT ![field] = Head(toTarget).value]
  BY DEF TargetTyped, Kept, TGet
<1> HIDE DEF field
<1>3. tenv'[field] = Head(toTarget).value /\ \A f \in Fields : f # field => tenv'[f] = tenv[f]
  BY <1>1, <1>2
<1>4. QED
  BY <1>3 DEF field

(* What the target reads for the step that main is at.                     *)
Taken == /\ UNCHANGED <<opts, place, loaded, vector>> /\ Head(toTarget).value = HValue
         /\ tstate' = tstate /\ tpc' = tpc + 1 /\ twait' = FALSE

LEMMA TakenKeeps ==
    ASSUME Taken
    PROVE  /\ LoadedBefore => LoadedBefore'
           /\ Pointed(FALSE) => Pointed(FALSE)'
           /\ Pointed(Diverted) => Pointed(Diverted)'
  BY DEF Taken, LoadedBefore, HasLoaded, Images, Before, Pointed, Diverted

LEMMA TakenChanging ==
    ASSUME TargetTyped, TGet, Taken, NEW speed, NEW k, Changing(k, speed),
           (k = 2 /\ HValue = Told(opts, speed)) \/ (k = 4 /\ HValue = Check)
    PROVE  /\ Changing(k + 1, speed)'
           /\ tstate = "S" /\ tpc = (IF k = 2 THEN 1 ELSE 3)
<1>1. LoadedBefore /\ Pointed(FALSE)
  BY ChangingKnown
<1>2. LoadedBefore' /\ Pointed(FALSE)'
  BY <1>1, TakenKeeps
<1>3. CASE k = 2 /\ HValue = Told(opts, speed)
  <2>1. At("S", 1)
    BY <1>3 DEF Changing
  <2>2. TScript(tstate)[tpc].value = "speed"
    BY <2>1, GetMoves DEF At
  <2>3. tenv'.speed = Told(opts, speed)
    BY <1>3, <2>2, FieldRead DEF Taken
  <2>4. At("S", 2)' /\ (tenv.speed = Told(opts, speed))'
    BY <2>1, <2>3 DEF At, Taken
  <2>5. Changing(3, speed)'
    BY <1>2, <2>4 DEF Changing
  <2>6. QED
    BY <1>3, <2>1, <2>5 DEF At
<1>4. CASE k = 4 /\ HValue = Check
  <2>1. At("S", 3)
    BY <1>4 DEF Changing
  <2>2. TScript(tstate)[tpc].value = "check"
    BY <2>1, GetMoves DEF At
  <2>3. (tenv.check = Check)'
    BY <1>4, <2>2, FieldRead DEF Taken
  <2>4. At("S", 4)'
    BY <2>1 DEF At, Taken
  <2>5. Changing(5, speed)'
    BY <1>2, <2>3, <2>4 DEF Changing
  <2>6. QED
    BY <1>4, <2>1, <2>5 DEF At
<1>5. QED
  BY <1>3, <1>4

LEMMA TakenUploading ==
    ASSUME TargetTyped, TGet, Taken, NEW k, Uploading(k),
           \/ k = 2 /\ HValue = Sections(opts)[place.section].addr
           \/ k = 3 /\ HValue = Sections(opts)[place.section].size
    PROVE  Uploading(k + 1)' /\ tstate = "B"
<1>1. Pointed(Diverted) /\ LoadedBefore
  BY DEF Uploading
<1>2. Pointed(Diverted)' /\ LoadedBefore'
  BY <1>1, TakenKeeps
<1>3. CASE k = 2 /\ HValue = Sections(opts)[place.section].addr
  <2>1. At("B", 1) \/ At("B", 2)
    BY <1>3 DEF Uploading
  <2>2. tstate = "B" /\ tpc = 2 /\ TScript(tstate)[tpc].value = "addr"
    BY <2>1, GetMoves DEF At
  <2>3. At("B", 3)'
    BY <2>2 DEF At, Taken
  <2>4. (tenv.addr = Sections(opts)[place.section].addr)'
    BY <1>3, <2>2, FieldRead DEF Taken
  <2>5. Uploading(3)'
    BY <1>2, <2>3, <2>4 DEF Uploading
  <2>6. QED
    BY <1>3, <2>2, <2>5
<1>4. CASE k = 3 /\ HValue = Sections(opts)[place.section].size
  <2>1. At("B", 3) /\ tenv.addr = Sections(opts)[place.section].addr
    BY <1>4 DEF Uploading
  <2>2. tstate = "B" /\ tpc = 3 /\ TScript(tstate)[tpc].value = "size"
    BY <2>1, GetMoves DEF At
  <2>3. At("B", 4)'
    BY <2>2 DEF At, Taken
  <2>4. (tenv.size = Sections(opts)[place.section].size)'
    BY <1>4, <2>2, FieldRead DEF Taken
  <2>5. tenv'.addr = tenv.addr
    <3>1. "addr" \in Fields /\ "addr" # "size"
      BY DEF Fields
    <3>2. QED
      BY <2>2, <3>1, FieldRead
  <2>6. (tenv.addr = Sections(opts)[place.section].addr)'
    BY <2>1, <2>5 DEF Taken
  <2>7. Uploading(4)'
    BY <1>2, <2>3, <2>4, <2>6 DEF Uploading
  <2>8. QED
    BY <1>4, <2>2, <2>7
<1>5. QED
  BY <1>3, <1>4

LEMMA TakenExecuting ==
    ASSUME TargetTyped, TGet, Taken, NEW k, Executing(k), k = 2, HValue = Entry(opts)
    PROVE  Executing(3)' /\ tstate = "A"
<1>1. Pointed(Diverted) /\ LoadedBefore
  BY DEF Executing
<1>2. Pointed(Diverted)' /\ LoadedBefore'
  BY <1>1, TakenKeeps
<1>3. At("A", 1) \/ At("A", 2)
  BY DEF Executing
<1>4. tstate = "A" /\ tpc = 2 /\ TScript(tstate)[tpc].value = "addr"
  BY <1>3, GetMoves DEF At
<1>5. At("A", 3)'
  BY <1>4 DEF At, Taken
<1>6. (tenv.addr = Entry(opts))'
  BY <1>4, FieldRead DEF Taken
<1>7. QED
  BY <1>2, <1>4, <1>5, <1>6 DEF Executing

LEMMA TakenDownloading ==
    ASSUME TargetTyped, TGet, Taken, NEW k, Downloading(k), k \in 2..4
    PROVE  Downloading(k + 1)' /\ tstate # "S"
<1>1. LoadedBefore /\ Pointed(FALSE)
  BY DEF Downloading
<1>2. LoadedBefore' /\ Pointed(FALSE)'
  BY <1>1, TakenKeeps
<1>3. tstate \in {"F", "G"}
  BY DownloadingAt
<1>4. ~At("F", 1)
  BY GetMoves DEF At
<1>5. At(Sender, IF opts.quiet THEN k - 1 ELSE k)
  BY <1>4 DEF Downloading
<1>6. tstate = Sender /\ tpc = (IF opts.quiet THEN k - 1 ELSE k)
  BY <1>5 DEF At
<1>7. tstate' = Sender' /\ tpc' = (IF opts'.quiet THEN k + 1 - 1 ELSE k + 1) /\ twait' = FALSE
  BY <1>6 DEF Taken, Sender
<1>8. At(Sender, IF opts.quiet THEN k + 1 - 1 ELSE k + 1)'
  BY <1>7 DEF At
<1>9. k + 1 \in 2..5
  OBVIOUS
<1>10. Downloading(k + 1)'
  <2> DEFINE next == k + 1
  <2>1. At(Sender, IF opts.quiet THEN next - 1 ELSE next)' /\ next \in 2..5
    BY <1>8, <1>9
  <2> HIDE DEF next
  <2>2. Downloading(next)'
    BY <1>2, <2>1 DEF Downloading
  <2>3. QED
    BY <2>2 DEF next
<1>11. QED
  BY <1>3, <1>10

(* The last thing that is read before a program is started.                *)
LEMMA TakenLast ==
    ASSUME Grounds, Typed, Usual(opts), Working, InPace, TGet, Taken, place.part = "execute",
           Here(hpc), hpc = 3, HValue = (IF opts.console THEN 1 ELSE 0), hwait = "echo",
           HostScript[hpc].do = "uint", UNCHANGED hostVars, UNCHANGED tspeed,
           toTarget' = <<>>, toHost' = <<Echo(tspeed)>>
    PROVE  Going'
<1>1. TargetTyped
  BY DEF Typed
<1>2. Executing(3)
  <2>1. ~(3 = 1)
    OBVIOUS
  <2>2. QED
    BY <2>1 DEF Here
<1>3. /\ At("A", 3) /\ tenv.addr = Entry(opts) /\ LoadedBefore /\ Pointed(Diverted)
  BY <1>2 DEF Executing
<1>4. tstate = "A" /\ tpc = 3 /\ TScript(tstate)[tpc].value = "console"
  BY <1>1, <1>3, GetMoves DEF At
<1>5. tenv'.console = IF opts.console THEN 1 ELSE 0
  BY <1>1, <1>4, FieldRead DEF Taken
<1>6. tenv'.addr = Entry(opts)
  <2>1. "addr" \in Fields /\ "addr" # "console"
    BY DEF Fields
  <2>2. QED
    BY <1>1, <1>3, <1>4, <2>1, FieldRead
<1>7. place = Place("execute", 0) /\ Usable(opts) /\ opts.command = "x"
  BY ExecuteDoes
<1>8. UNCHANGED <<opts, hstate, place, hpc, hwait, hspeed, loaded, vector>>
  BY DEF hostVars, portVars, Taken
<1>9. loaded = Images(ToUpload(opts))
  BY <1>3, <1>7 DEF LoadedBefore, HasLoaded, Before, Place
<1>10. hspeed = Wanted(opts) /\ tspeed = Fast
  BY <1>7 DEF InPace, HostPace, TargetPace, Place
<1>11. hstate = "main"
  BY DEF Working
<1>12. Launched'
  <2>1. loaded' = Images(ToUpload(opts))' /\ Pointed(Diverted)'
    BY <1>3, <1>8, <1>9 DEF Images, Pointed, Diverted
  <2>2. hspeed' = Wanted(opts)' /\ tspeed' = Fast'
    BY <1>8, <1>10 DEF Wanted, Fast, Pace
  <2>3. Follows' /\ Usable(opts') /\ opts'.command = "x" /\ tenv'.addr = Entry(opts')
    BY <1>6, <1>7, <1>8, <1>11 DEF Follows
  <2>4. QED
    BY <2>1, <2>2, <2>3 DEF Launched
<1>13. Nothing'
  <2>1. Reading'
    BY <1>7, <1>8 DEF Reading
  <2>2. Echo(tspeed) = LastEcho(tspeed) /\ \A s : LastEcho(s)' = LastEcho(s)
    BY <1>8 DEF Echo, LastEcho
  <2>3. Meets(tspeed, hspeed) /\ tspeed \in Paces
    BY WritesMeet
  <2>4. QED
    BY <1>8, <1>11, <2>1, <2>2, <2>3, PacesStay DEF Nothing
<1>14. At("A", 4)'
  BY <1>4 DEF At, Taken
<1>15. QED
  BY <1>5, <1>8, <1>12, <1>13, <1>14 DEF Going

LEMMA HereOf ==
    ASSUME NEW k, Here(k), k # 1
    PROVE  /\ place.part = "speed" => Changing(k, Wanted(opts))
           /\ place.part = "restore" => Changing(k, Initial)
           /\ place.part = "upload" => Uploading(k)
           /\ place.part = "execute" => Executing(k)
           /\ place.part = "download" => Downloading(k)
  BY DEF Here

(* Where a number takes the target, unless it is the last thing it needs.  *)
LEMMA TakenHere ==
    ASSUME Working, TargetTyped, TGet, Taken, Here(hpc), HostScript[hpc].do = "uint",
           UNCHANGED hpc
    PROVE  \/ /\ Here(hpc + 1)'
              /\ tstate = "S" => \/ hpc = 2 /\ tpc = 1
                                 \/ hpc = 4 /\ tpc = 3
           \/ place.part = "execute" /\ hpc = 3 /\ HValue = IF opts.console THEN 1 ELSE 0
<1>1. hpc # 1 /\ hpc \in Nat
  BY NumbersOfMain
<1>2. opts' = opts /\ place' = place
  BY DEF Taken
<1>3. CASE place.part = "speed"
  <2>1. (hpc = 2 /\ HValue = Told(opts, Wanted(opts))) \/ (hpc = 4 /\ HValue = Check)
    BY <1>3, NumbersOfMain
  <2>2. Changing(hpc, Wanted(opts))
    BY <1>1, <1>3, HereOf
  <2>3. Changing(hpc + 1, Wanted(opts))' /\ tstate = "S" /\ tpc = (IF hpc = 2 THEN 1 ELSE 3)
    <3> DEFINE speed == Wanted(opts)
    <3>1. speed' = speed
      BY <1>2 DEF Wanted
    <3>2. QED
      BY <2>1, <2>2, <3>1, TakenChanging
  <2>4. Here(hpc + 1)'
    BY <1>2, <1>3, <2>3 DEF Here
  <2>5. QED
    BY <2>1, <2>3, <2>4
<1>4. CASE place.part = "restore"
  <2>1. (hpc = 2 /\ HValue = Told(opts, Initial)) \/ (hpc = 4 /\ HValue = Check)
    BY <1>4, NumbersOfMain
  <2>2. Changing(hpc, Initial)
    BY <1>1, <1>4, HereOf
  <2>3. Changing(hpc + 1, Initial)' /\ tstate = "S" /\ tpc = (IF hpc = 2 THEN 1 ELSE 3)
    BY <2>1, <2>2, TakenChanging
  <2>4. Here(hpc + 1)'
    BY <1>2, <1>4, <2>3 DEF Here
  <2>5. QED
    BY <2>1, <2>3, <2>4
<1>5. CASE place.part = "upload"
  <2>1. \/ hpc = 2 /\ HValue = Sections(opts)[place.section].addr
        \/ hpc = 3 /\ HValue = Sections(opts)[place.section].size
    BY <1>5, NumbersOfMain
  <2>2. Uploading(hpc + 1)' /\ tstate = "B"
    BY <1>1, <1>5, <2>1, HereOf, TakenUploading
  <2>3. Here(hpc + 1)'
    BY <1>2, <1>5, <2>2 DEF Here
  <2>4. QED
    BY <2>2, <2>3
<1>6. CASE place.part = "execute"
  <2>1. \/ hpc = 2 /\ HValue = Entry(opts)
        \/ hpc = 3 /\ HValue = IF opts.console THEN 1 ELSE 0
    BY <1>6, NumbersOfMain
  <2>2. ASSUME hpc = 2, HValue = Entry(opts)
        PROVE  Here(hpc + 1)' /\ tstate = "A"
    <3>1. Executing(3)' /\ tstate = "A"
      BY <1>1, <1>6, <2>2, HereOf, TakenExecuting
    <3>2. Here(3)'
      BY <1>2, <1>6, <3>1 DEF Here
    <3>3. QED
      BY <2>2, <3>1, <3>2
  <2>3. QED
    BY <1>6, <2>1, <2>2
<1>7. CASE place.part = "download"
  <2>1. hpc \in 2..4
    BY <1>7, NumbersOfMain
  <2>2. Downloading(hpc + 1)' /\ tstate # "S"
    BY <1>1, <1>7, <2>1, HereOf, TakenDownloading
  <2>3. Here(hpc + 1)'
    BY <1>2, <1>7, <2>2 DEF Here
  <2>4. QED
    BY <2>2, <2>3
<1>8. QED
  BY <1>3, <1>4, <1>5, <1>6, <1>7, NumbersOfMain

LEMMA Gets ==
    ASSUME Grounds, Typed, Usual(opts), IInv, TGet
    PROVE  IInv'
<1>1. /\ HostTyped /\ TargetTyped /\ toTarget # <<>> /\ Head(toTarget).kind = "uint"
      /\ tstate \in Commands /\ twait = FALSE
      /\ tstate' = tstate /\ tpc' = tpc + 1 /\ twait' = FALSE
  <2>1. HostTyped /\ TargetTyped /\ toTarget # <<>> /\ Head(toTarget).kind = "uint"
    BY DEF Typed, TGet, THas
  <2>2. QED
    BY <2>1, GetMoves
<1>2. hstate = "main" /\ InPace /\ Asking
  <2>1. ~BlockSent
    BY <1>1, OneItem, ItemFields DEF BlockSent
  <2>2. ~Going /\ ~Free /\ ~Echoing
    BY <1>1 DEF Going, Free, Echoing
  <2>3. QED
    BY <1>1, <2>1, <2>2, Between
<1>3. Working
  BY <1>1, <1>2 DEF Working, Grounds
<1>4. /\ HostScript[hpc].do = "uint" /\ Head(toTarget).value = HValue
      /\ Tail(toTarget) = <<>> /\ toHost = <<>> /\ Asks /\ Here(hpc) /\ hwait = "echo"
  <2>1. /\ Head(toTarget) = Question /\ Tail(toTarget) = <<>> /\ toHost = <<>> /\ Asks
        /\ Here(hpc) /\ hwait = "echo"
    BY <1>2, OneItem DEF Asking
  <2>2. Question.kind = HostScript[hpc].do /\ Question.value = HValue
    BY ItemFields DEF Question
  <2>3. QED
    BY <1>1, <2>1, <2>2
<1>5. /\ UNCHANGED <<opts, hstate, place, hpc, hwait, hspeed, tspeed, vector, saved, loaded>>
      /\ UNCHANGED hostVars
  BY DEF TGet, hostVars, portVars, programVars, cdVars
<1>6. Taken
  BY <1>1, <1>4, <1>5 DEF Taken
<1>7. toTarget' = <<>> /\ toHost' = <<Echo(tspeed)>>
  <2>1. toHost' = Append(<<>>, Item("uint", HValue, tspeed))
    BY <1>4 DEF TGet, TWrites
  <2>2. QED
    BY <1>4, <2>1, OneItem DEF TGet, Echo
<1>8. CASE place.part = "execute" /\ hpc = 3 /\ HValue = IF opts.console THEN 1 ELSE 0
  <2>1. Going'
    BY <1>1, <1>2, <1>3, <1>4, <1>5, <1>6, <1>7, <1>8, TakenLast
  <2>2. QED
    BY <1>5, <2>1 DEF IInv
<1>9. CASE /\ Here(hpc + 1)'
           /\ tstate = "S" => \/ hpc = 2 /\ tpc = 1
                              \/ hpc = 4 /\ tpc = 3
  <2>1. (Retimed' <=> Retimed) /\ (Retimed => hpc > 3)
    <3>1. CASE tstate # "S"
      BY <1>1, <1>5, <3>1 DEF Retimed
    <3>2. CASE hpc = 2 /\ tpc = 1
      BY <1>1, <1>5, <3>2 DEF Retimed
    <3>3. CASE hpc = 4 /\ tpc = 3
      BY <1>1, <1>5, <3>3 DEF Retimed
    <3>4. QED
      BY <1>9, <3>1, <3>2, <3>3
  <2>2. InPace'
    BY <1>2, <1>5, <2>1, PaceHeld
  <2>3. tspeed \in Paces' /\ Meets(tspeed, hspeed') /\ Asks'
    BY <1>2, <1>3, <1>4, <1>5, <2>1, WritesMeet, PacesStay, EchoStays
  <2>4. (\E s \in Paces : Meets(s, hspeed) /\ toHost = <<Echo(s)>>)'
    <3>1. toHost' = <<Echo(tspeed)'>>
      BY <1>5, <1>7, EchoStays
    <3>2. QED
      BY <1>5, <2>3, <3>1
  <2>5. Echoing'
    BY <1>4, <1>5, <1>7, <1>9, <2>3, <2>4 DEF Echoing
  <2>6. QED
    BY <1>2, <1>5, <2>2, <2>5 DEF IInv, AtWork
<1>10. QED
  BY <1>1, <1>3, <1>4, <1>5, <1>6, <1>8, <1>9, TakenHere
-----------------------------------------------------------------------------
(* The program runs.                                                       *)
LEMMA WhenRunning ==
    ASSUME IInv
    PROVE  /\ tstate = "program" => InProgram
           /\ tstate = "calling" => Calling
<1>1. tstate \in {"program", "calling"} => ~AtWork
  <2>1. SUFFICES ASSUME tstate \in {"program", "calling"} PROVE ~AtWork
    OBVIOUS
  <2>2. \A k : ~Here(k)
    BY <2>1, HereWhere
  <2>3. ~Free /\ ~Asking /\ ~Echoing
    BY <2>2 DEF Free, Asking, Echoing
  <2>4. ~BlockSent /\ ~BlockAnswered /\ ~Checked /\ ~Sent /\ ~Fetched
    BY <2>1 DEF BlockSent, At, BlockAnswered, Checked, Sent, Fetched, AtSend, Sender
  <2>5. QED
    BY <2>3, <2>4 DEF AtWork
<1>2. tstate \in {"program", "calling"} => ~Going /\ ~Resting
  BY DEF Going, At, Resting
<1>3. QED
  BY <1>1, <1>2 DEF IInv, InProgram, Calling

LEMMA NothingStays ==
    ASSUME Nothing, UNCHANGED hostVars, toHost' = toHost PROVE Nothing'
  BY DEF Nothing, Reading, LastEcho, Paces, Slow, Fast, Pace, Wanted, hostVars, portVars

LEMMA Follow ==
    ASSUME Nothing, UNCHANGED hostVars, NEW item, toHost' = Append(toHost, item)
    PROVE  Only(item)'
<1>1. UNCHANGED <<opts, hstate, place, hpc, hwait, hspeed>>
  BY DEF hostVars, portVars
<1>2. Paces' = Paces /\ (\A s : LastEcho(s)' = LastEcho(s)) /\ (Reading => Reading')
  BY <1>1 DEF LastEcho, Reading, Paces, Slow, Fast, Pace, Wanted
<1>3. CASE hstate # "main" /\ toHost = <<>>
  <2>1. toHost' = <<item>>
    BY <1>3, OneItem
  <2>2. QED
    BY <1>1, <1>3, <2>1 DEF Only
<1>4. CASE hstate = "main" /\ Reading /\ \E s \in Paces : Meets(s, hspeed) /\ toHost = <<LastEcho(s)>>
  <2>1. PICK s \in Paces : Meets(s, hspeed) /\ toHost = <<LastEcho(s)>>
    BY <1>4
  <2>2. toHost' = <<LastEcho(s), item>>
    BY <2>1, Appended
  <2>3. QED
    BY <1>1, <1>2, <1>4, <2>1, <2>2 DEF Only
<1>5. QED
  BY <1>3, <1>4 DEF Nothing

LEMMA LaunchedStays ==
    ASSUME Launched, UNCHANGED hostVars, UNCHANGED <<tspeed, tenv, loaded, vector>> PROVE Launched'
  BY DEF Launched, Follows, Pointed, Images, Fast, Pace, Wanted, Usable, Diverted, hostVars, portVars

LEMMA LaunchedMeets ==
    ASSUME Launched, Usual(opts)
    PROVE  Meets(hspeed, tspeed) /\ Meets(tspeed, hspeed) /\ tspeed \in Paces
<1>1. Started(opts) /\ Paired
  BY DEF Launched, Usable, Paired
<1>2. QED
  BY <1>1, PairMeets

LEMMA Calls == ASSUME Grounds, Typed, Usual(opts), IInv, ProgramCall PROVE IInv'
<1>1. tstate = "program" /\ (tconsole \/ vector = "dcload") /\ tstate' = "calling"
  BY DEF ProgramCall, Wrapped
<1>2. InProgram /\ Launched /\ Nothing
  BY <1>1, WhenRunning DEF InProgram
<1>3. opts.console
  <2>1. tconsole => opts.console
    BY <1>2 DEF InProgram
  <2>2. vector = "dcload" => Diverted
    BY <1>2 DEF Launched, Pointed
  <2>3. Diverted => opts.console
    BY <1>2 DEF Launched, Usable, Usual, Diverted
  <2>4. QED
    BY <1>1, <2>1, <2>2, <2>3
<1>4. /\ UNCHANGED hostVars /\ UNCHANGED <<tspeed, tenv, loaded, vector, saved, tconsole, toTarget>>
      /\ toHost' = Append(toHost, Item("call", 0, tspeed))
  BY DEF ProgramCall, TWrites, programVars, cdVars
<1>5. Launched'
  BY <1>2, <1>4, LaunchedStays
<1>6. Only(Item("call", 0, tspeed))'
  <2> DEFINE item == Item("call", 0, tspeed)
  <2>1. item' = item
    BY <1>4
  <2>2. Only(item)'
    <3> HIDE DEF item
    <3>1. toHost' = Append(toHost, item)
      BY <1>4 DEF item
    <3>2. QED
      BY <1>2, <1>4, <2>1, <3>1, Follow
  <2>3. QED
    BY <2>2
<1>7. tspeed' \in Paces' /\ Meets(tspeed', hspeed')
  BY <1>2, <1>4, LaunchedMeets, PacesStay DEF hostVars, portVars
<1>8. Calling'
  <2>1. opts' = opts
    BY <1>4 DEF hostVars
  <2>2. toTarget' = <<>> /\ tconsole' = opts'.console /\ opts'.console
    BY <1>2, <1>3, <1>4, <2>1 DEF InProgram
  <2>3. (\E s \in Paces : Meets(s, hspeed) /\ Only(Item("call", 0, s)))'
    BY <1>6, <1>7
  <2>4. QED
    BY <1>1, <1>5, <2>2, <2>3 DEF Calling
<1>9. QED
  BY <1>4, <1>8 DEF IInv

LEMMA Replies == ASSUME IInv, ProgramReply PROVE IInv'
<1>1. tstate = "calling" /\ toTarget # <<>> /\ toTarget' = Tail(toTarget) /\ tstate' = "program"
  BY DEF ProgramReply, THas
<1>2. Calling
  BY <1>1, WhenRunning
<1>3. hstate = "console" /\ toHost = <<>> /\ toTarget' = <<>>
  BY <1>1, <1>2, OneItem DEF Calling
<1>4. /\ UNCHANGED hostVars /\ UNCHANGED <<tspeed, tenv, loaded, vector, saved, tconsole, toHost>>
  BY DEF ProgramReply, programVars, cdVars
<1>5. Launched'
  BY <1>2, <1>4, LaunchedStays DEF Calling
<1>6. Nothing' /\ tconsole' = opts'.console
  BY <1>2, <1>3, <1>4 DEF Nothing, Calling, hostVars
<1>7. InProgram'
  BY <1>1, <1>3, <1>5, <1>6 DEF InProgram
<1>8. QED
  BY <1>4, <1>7 DEF IInv

(* Back to dcload.                                                         *)
LEMMA Returns ==
    ASSUME Grounds, Typed, Usual(opts), IInv, ProgramEnd \/ ProgramFault PROVE IInv'
<1>1. tstate = "program" /\ UNCHANGED hostVars /\ \E now : MainStarts(now)
  BY DEF ProgramEnd, ProgramFault
<1>2. InProgram /\ Launched /\ Nothing
  BY <1>1, WhenRunning DEF InProgram
<1>3. tstate' = "idle" /\ tspeed' = Slow /\ toTarget' = <<>> /\ saved' = "bios" /\ vector' = "bios"
  BY <1>1 DEF MainStarts, SaveVector, IInv, Slow
<1>4. UNCHANGED <<opts, hstate, hspeed>>
  BY <1>1 DEF hostVars, portVars
<1>5. hstate' = "main" => opts'.command = "x" /\ Usable(opts') /\ hspeed' = Wanted(opts')
  BY <1>2, <1>4 DEF Launched
<1>6. tspeed' = Slow' /\ Pointed(FALSE)'
  BY <1>3 DEF Slow, Pointed
<1>7. CASE UNCHANGED toHost
  <2>1. Nothing'
    BY <1>1, <1>2, <1>7, NothingStays
  <2>2. Resting'
    BY <1>3, <1>5, <1>6, <2>1 DEF Resting
  <2>3. QED
    BY <1>3, <2>2 DEF IInv
<1>8. CASE tconsole /\ toHost' = Append(toHost, Item("exit", 0, tspeed))
  <2>1. opts.console
    BY <1>2, <1>8 DEF InProgram
  <2>2. hstate \in {"main", "console"}
    BY <1>2, <2>1 DEF Launched, Follows
  <2>3. \E s \in Paces' : Meets(s, hspeed') /\ Only(Item("exit", 0, s))'
    <3> DEFINE s == tspeed
    <3>1. s \in Paces' /\ Meets(s, hspeed')
      BY <1>2, <1>4, LaunchedMeets, PacesStay
    <3>2. PICK speed : speed = tspeed
      OBVIOUS
    <3>3. Only(Item("exit", 0, speed))'
      BY <1>1, <1>2, <1>8, <3>2, Follow
    <3>4. QED
      BY <3>1, <3>2, <3>3
  <2>4. Resting'
    BY <1>3, <1>4, <1>5, <1>6, <2>1, <2>2, <2>3 DEF Resting
  <2>5. QED
    BY <1>3, <2>4 DEF IInv
<1>9. QED
  BY <1>7, <1>8 DEF ProgramEnd, ProgramFault, ProgramExit, Wrapped, TWrites

LEMMA Boots == ASSUME IInv, Boot PROVE IInv'
<1>1. /\ hstate' # "main" /\ toHost' = <<>> /\ tstate' = "idle" /\ tspeed' = Slow'
      /\ saved' = "bios" /\ Pointed(FALSE)' /\ toTarget' = <<>>
  BY DEF Boot, hostVars, Slow, Pointed
<1>2. Resting'
  BY <1>1 DEF Resting, Nothing
<1>3. QED
  BY <1>1, <1>2 DEF IInv

LEMMA Stutters == ASSUME IInv, UNCHANGED vars PROVE IInv'
<1>1. /\ UNCHANGED hostVars /\ UNCHANGED targetVars /\ UNCHANGED <<toTarget, toHost>>
      /\ UNCHANGED <<opts, hstate, place, hpc, hwait, hspeed>>
      /\ UNCHANGED <<tstate, tpc, tenv, twait, tspeed, tconsole, vector, saved, loaded>>
  BY DEF vars, hostVars, portVars, targetVars, programVars, cdVars
<1>2. \A k : Here(k) => Here(k)'
  BY <1>1, HereStays DEF Steady
<1>3. Question' = Question /\ (Asks => Asks') /\ HValue' = HValue /\ Paces' = Paces
  BY <1>1 DEF Question, Asks, HValue, HostScript, Paces, Slow, Fast, Pace, Wanted
<1>4. \A s : Echo(s)' = Echo(s) /\ LastEcho(s)' = LastEcho(s)
  BY <1>1 DEF Echo, LastEcho, HValue, HostScript
<1>5. \A item : /\ Behind(item) => Behind(item)'
                /\ Only(item) => Only(item)'
  BY <1>1, <1>3, <1>4 DEF Behind, Only, Reading
<1>6. /\ LoadedBefore => LoadedBefore'
      /\ LoadedSection => LoadedSection'
      /\ Pointed(FALSE) => Pointed(FALSE)'
      /\ Pointed(Diverted) => Pointed(Diverted)'
      /\ AtSend => AtSend'
  BY <1>1 DEF LoadedBefore, LoadedSection, HasLoaded, Images, Before, Pointed, Diverted, AtSend,
              Sender, Last
<1>7. AtWork => AtWork'
  <2>1. Free => Free'
    BY <1>1, <1>2 DEF Free
  <2>2. Asking => Asking'
    BY <1>1, <1>2, <1>3 DEF Asking
  <2>3. Echoing => Echoing'
    BY <1>1, <1>2, <1>3, <1>4 DEF Echoing
  <2>4. BlockSent => BlockSent'
    <3>1. Uploading(4) => Uploading(4)'
      BY <1>1, <1>6 DEF Uploading, At
    <3>2. QED
      BY <1>1, <1>3, <3>1 DEF BlockSent, At
  <2>5. BlockAnswered => BlockAnswered'
    BY <1>1, <1>3, <1>6 DEF BlockAnswered
  <2>6. Checked => Checked'
    BY <1>1, <1>3, <1>5, <1>6 DEF Checked
  <2>7. Sent => Sent'
    BY <1>1, <1>3, <1>5, <1>6 DEF Sent
  <2>8. Fetched => Fetched'
    BY <1>1, <1>3, <1>6 DEF Fetched
  <2>9. InPace => InPace'
    BY <1>1, PaceStays
  <2>10. QED
    BY <1>1, <2>1, <2>2, <2>3, <2>4, <2>5, <2>6, <2>7, <2>8, <2>9 DEF AtWork
<1>8. (Nothing => Nothing') /\ (Launched => Launched')
  BY <1>1, NothingStays, LaunchedStays
<1>9. (Going => Going') /\ (InProgram => InProgram')
  BY <1>1, <1>8 DEF Going, InProgram, At
<1>10. Calling => Calling'
  BY <1>1, <1>3, <1>5, <1>8 DEF Calling
<1>11. Resting => Resting'
  <2>1. Slow' = Slow /\ Wanted(opts)' = Wanted(opts)
    BY <1>1 DEF Slow, Wanted
  <2>2. QED
    BY <1>1, <1>3, <1>5, <1>6, <1>8, <2>1 DEF Resting, Usable
<1>12. QED
  BY <1>1, <1>7, <1>9, <1>10, <1>11 DEF IInv
-----------------------------------------------------------------------------
(* The session is always in one of its phases.                             *)
LEMMA InitIInv == Init => IInv
<1> SUFFICES ASSUME Init PROVE IInv
  OBVIOUS
<1>1. Resting /\ saved = "bios"
  BY DEF Init, Resting, Nothing, Pointed, Slow
<1>2. QED
  BY <1>1 DEF IInv

LEMMA NextIInv ==
    ASSUME Grounds, AllUsual, Typed, IInv, [Next]_vars
    PROVE  IInv'
<1>1. /\ HostTyped /\ TargetTyped /\ Usual(opts) /\ SessionAssumption
      /\ SerialAssumption /\ SupportedSpeed(Initial) = Initial
  BY DEF Typed, HostTyped, AllUsual, Grounds
<1>2. hstate = "main" => Working
  BY <1>1 DEF Working
<1>3. CASE Start
  BY <1>1, <1>3, Starts
<1>4. CASE Host
  <2>1. CASE HCommand \/ HUint
    BY <1>2, <2>1, HAsks DEF HCommand, HUint, HDoing
  <2>2. CASE HEcho
    BY <1>1, <1>2, <2>2, HEchoes DEF HEcho
  <2>3. CASE HReopen
    BY <1>1, <1>2, <2>3, HReopens, SupportedTwice DEF HReopen, HDoing
  <2>4. CASE HRecv
    BY <1>1, <1>2, <2>4, HReceives DEF HRecv, HDoing
  <2>5. CASE HData
    BY <1>2, <2>5, HSends DEF HData, HDoing
  <2>6. CASE HAnswer
    BY <1>2, <2>6, HAnswered DEF HAnswer
  <2>7. CASE HFetch
    BY <1>2, <2>7, HFetches DEF HFetch, HDoing
  <2>8. CASE HServe \/ HExit
    BY <2>8, HServes, HExits
  <2>9. QED
    BY <1>4, <2>1, <2>2, <2>3, <2>4, <2>5, <2>6, <2>7, <2>8 DEF Host
<1>5. CASE Interrupt
  BY <1>5, Interrupts
<1>6. CASE Target
  BY <1>1, <1>6, TCommands, Screens, Gets, Puts, Loads, Sends, TAnswers, Redirects, Inits, Goes
     DEF Target
<1>7. CASE Program \/ ProgramReply \/ Boot
  BY <1>1, <1>7, Calls, Returns, Replies, Boots DEF Program
<1>8. CASE UNCHANGED vars
  BY <1>8, Stutters
<1>9. QED
  BY <1>3, <1>4, <1>5, <1>6, <1>7, <1>8 DEF Next

THEOREM AlwaysInPhase == AllUsual => (Spec => []IInv)
<1> SUFFICES ASSUME AllUsual PROVE Spec => []IInv
  OBVIOUS
<1>1. Grounds
  BY SessionAssumption, SerialAssumption DEF Grounds
<1>2. Init => IInv
  BY InitIInv
<1>3. Typed /\ IInv /\ [Next]_vars => IInv'
  BY <1>1, NextIInv
<1>4. QED
  BY <1>2, <1>3, AlwaysTyped, PTL DEF Spec
-----------------------------------------------------------------------------
(* What the host reads is what it waits for.                               *)
LEMMA EchoExpected ==
    ASSUME hstate = "main", hwait = "echo", Asks, NEW s, toHost # <<>>, Head(toHost) = Echo(s)
    PROVE  HReads
<1>1. /\ Head(toHost).kind = HostScript[hpc].do /\ Head(toHost).value = HValue
  BY ItemFields DEF Echo
<1>2. QED
  BY <1>1 DEF HReads, HDoing, Asks

LEMMA LastExpected ==
    ASSUME Working, Reading, NEW s, toHost # <<>>, Head(toHost) = LastEcho(s)
    PROVE  HReads
<1>1. HostScript[hpc].do = "uint" /\ HValue = IF opts.console THEN 1 ELSE 0
  BY ExecuteDoes DEF Reading, Place, ExecuteDo, HostDo
<1>2. LastEcho(s) = Echo(s) /\ Asks
  BY <1>1 DEF LastEcho, Echo, Asks
<1>3. QED
  BY <1>2, EchoExpected DEF Reading, Working

LEMMA HostAgrees ==
    ASSUME Grounds, Typed, IInv, toHost # <<>>
    PROVE  HReads /\ Meets(Head(toHost).speed, hspeed)
<1>1. hstate = "main" => Working
  BY DEF Typed, Working, Grounds
<1>2. \A kind, value, s : /\ Item(kind, value, s).kind = kind
                          /\ Item(kind, value, s).value = value
                          /\ Item(kind, value, s).speed = s
  BY ItemFields
<1>3. \A s : Echo(s).speed = s /\ LastEcho(s).speed = s
  BY <1>2 DEF Echo, LastEcho
<1>4. CASE AtWork
  <2>1. hstate = "main" /\ Working
    BY <1>1, <1>4 DEF AtWork
  <2>2. CASE Echoing
    <3>1. PICK s : Meets(s, hspeed) /\ Head(toHost) = Echo(s)
      BY <2>2, OneItem DEF Echoing
    <3>2. HReads
      BY <2>1, <2>2, <3>1, EchoExpected DEF Echoing
    <3>3. QED
      BY <1>3, <3>1, <3>2
  <2>3. CASE BlockAnswered
    <3>1. PICK s : Meets(s, hspeed) /\ Head(toHost) = Item("good", 0, s)
      BY <2>3, OneItem DEF BlockAnswered
    <3>2. HReads
      BY <1>2, <2>1, <2>3, <3>1 DEF HReads, HDoing, BlockAnswered
    <3>3. QED
      BY <1>2, <3>1, <3>2
  <2>4. ASSUME NEW item, NEW s, Behind(item), item.speed = s, Meets(s, hspeed),
               HostScript[hpc].do = "uint" \/ hwait = "none",
               hwait = "none" /\ Head(toHost) = item => HReads
        PROVE  HReads /\ Meets(Head(toHost).speed, hspeed)
    <3>1. CASE hwait = "none" /\ toHost = <<item>>
      BY <2>4, <3>1, OneItem
    <3>2. CASE hwait = "echo" /\ \E p \in Paces : Meets(p, hspeed) /\ toHost = <<Echo(p), item>>
      <4>1. PICK p : Meets(p, hspeed) /\ Head(toHost) = Echo(p)
        BY <3>2, TwoItems
      <4>2. Asks
        BY <2>4, <3>2 DEF Asks
      <4>3. HReads
        BY <2>1, <3>2, <4>1, <4>2, EchoExpected
      <4>4. QED
        BY <1>3, <4>1, <4>3
    <3>3. QED
      BY <2>4, <3>1, <3>2 DEF Behind
  <2>5. CASE Checked
    <3>1. PICK s : Meets(s, hspeed) /\ Behind(Item("uint", Check, s))
      BY <2>5 DEF Checked
    <3>2. \/ hwait = "none" /\ HostScript[hpc].do = "recv" /\ HValue = Check
          \/ hwait = "echo" /\ HostScript[hpc].do = "uint"
      BY <2>1, <2>5, <3>1, SpeedDoes, RestoreDoes DEF Checked, Behind, SpeedDo, HostDo
    <3>3. hwait = "none" /\ Head(toHost) = Item("uint", Check, s) => HReads
      BY <1>2, <2>1, <3>2 DEF HReads, HDoing
    <3>4. QED
      BY <1>2, <2>4, <3>1, <3>2, <3>3
  <2>6. CASE Sent
    <3>1. PICK s : Meets(s, hspeed) /\ Behind(Item("block", tenv.size, s))
      BY <2>6 DEF Sent
    <3>2. \/ hwait = "none" /\ HostScript[hpc].do = "fetch"
          \/ hwait = "echo" /\ HostScript[hpc].do = "uint"
      BY <2>1, <2>6, <3>1, DownloadDoes DEF Sent, Behind, DownloadDo, HostDo
    <3>3. hwait = "none" /\ Head(toHost) = Item("block", tenv.size, s) => HReads
      BY <1>2, <2>1, <3>2 DEF HReads, HDoing
    <3>4. QED
      BY <1>2, <2>4, <3>1, <3>2, <3>3
  <2>7. QED
    BY <1>4, <2>2, <2>3, <2>5, <2>6 DEF AtWork, Free, Asking, BlockSent, Fetched
<1>5. CASE Nothing
  <2>1. PICK s : hstate = "main" /\ Reading /\ Meets(s, hspeed) /\ Head(toHost) = LastEcho(s)
    BY <1>5, OneItem DEF Nothing
  <2>2. QED
    BY <1>1, <1>3, <2>1, LastExpected
<1>6. ASSUME NEW kind, NEW s, Only(Item(kind, 0, s)), Meets(s, hspeed),
             kind \in {"call", "exit"}, hstate \in {"main", "console"}
      PROVE  HReads /\ Meets(Head(toHost).speed, hspeed)
  <2>1. CASE hstate = "console"
    <3>1. Head(toHost) = Item(kind, 0, s)
      BY <1>6, <2>1, OnlyOne, OneItem
    <3>2. HReads
      BY <1>2, <1>6, <2>1, <3>1 DEF HReads, HDoing
    <3>3. QED
      BY <1>2, <1>6, <3>1, <3>2
  <2>2. CASE hstate = "main"
    <3>1. PICK p : Reading /\ Meets(p, hspeed) /\ Head(toHost) = LastEcho(p)
      BY <1>6, <2>2, TwoItems DEF Only
    <3>2. QED
      BY <1>1, <1>3, <2>2, <3>1, LastExpected
  <2>3. QED
    BY <1>6, <2>1, <2>2
<1>7. CASE Calling
  <2>1. PICK s : Meets(s, hspeed) /\ Only(Item("call", 0, s))
    BY <1>7 DEF Calling
  <2>2. hstate \in {"main", "console"}
    BY <1>7 DEF Calling, Launched, Follows
  <2>3. QED
    BY <1>6, <2>1, <2>2
<1>8. CASE Resting
  <2>1. CASE Nothing
    BY <1>5, <2>1
  <2>2. CASE /\ hstate \in {"main", "console"}
             /\ \E s \in Paces : Meets(s, hspeed) /\ Only(Item("exit", 0, s))
    BY <1>6, <2>2
  <2>3. QED
    BY <1>8, <2>1, <2>2 DEF Resting
<1>9. QED
  BY <1>4, <1>5, <1>7, <1>8 DEF IInv, Going, InProgram

(* What the target reads is what its command reads.                        *)
LEMMA GetsWhere ==
    ASSUME TargetTyped, TDoing("get")
    PROVE  (tstate = "B" => tpc # 4) /\ tstate # "H"
<1>1. tstate \in Commands /\ TScript(tstate)[tpc].do = "get"
  BY DEF TDoing
<1>2. QED
  BY <1>1, TargetDoes DEF TargetDo

LEMMA LoadsWhere ==
    ASSUME TargetTyped, TDoing("load")
    PROVE  tstate = "B" /\ tpc = 4
<1>1. tstate \in Commands /\ TScript(tstate)[tpc].do = "load"
  BY DEF TDoing
<1>2. QED
  BY <1>1, TargetDoes DEF TargetDo

LEMMA AskedAgrees ==
    ASSUME Grounds, Typed, Working, Usual(opts), InPace, Asking
    PROVE  TReads /\ Meets(Head(toTarget).speed, tspeed)
<1>1. TargetTyped
  BY DEF Typed
<1>2. /\ Head(toTarget) = Question /\ Question.kind = HostScript[hpc].do /\ Question.value = HValue
      /\ Question.speed = hspeed /\ Asks /\ Here(hpc)
  BY OneItem, ItemFields DEF Asking, Question
<1>3. tstate # "program" /\ tstate # "calling" /\ twait = FALSE
  <2>1. tstate \notin Commands => twait = FALSE
    BY <1>1 DEF TargetTyped, Stepping
  <2>2. QED
    BY <1>2, <2>1, HereWhere DEF Commands
<1>4. CASE HostScript[hpc].do = "command"
  <2>1. hpc = 1 /\ HValue \in Commands
    BY <1>4, CommandsOfMain DEF Commands, Sender
  <2>2. Beginning
    <3>1. (\A speed : ~Changing(1, speed)) /\ ~Executing(1) /\ ~Downloading(1)
      BY DEF Changing, Executing, Downloading
    <3>2. ~Redirecting(1) /\ ~Uploading(1)
      BY DEF Redirecting, Uploading
    <3>3. QED
      BY <1>2, <2>1, <3>1, <3>2 DEF Here
  <2>3. ~TDoing("get")
    <3>1. TDoing("get") => tstate \in Commands
      BY DEF TDoing
    <3>2. QED
      BY <1>1, <2>2, <3>1, BeginningAt, GetsWhere DEF Commands
  <2>4. TDoing("load") => tenv.size = 0
    BY <1>1, <2>2, LoadsWhere DEF Beginning, At
  <2>5. TReads
    BY <1>2, <1>3, <1>4, <2>1, <2>3, <2>4 DEF TReads
  <2>6. ~Retimed
    BY <2>1, <2>2, BeginningAt DEF Retimed
  <2>7. QED
    BY <1>2, <2>5, <2>6, WritesMeet
<1>5. CASE HostScript[hpc].do = "uint"
  <2>1. hpc # 1 /\ hpc \in Nat
    BY <1>5, NumbersOfMain
  <2>2. \/ tstate = "S" /\ (hpc = 2 => tpc = 1) /\ hpc \in {2, 4}
        \/ tstate \in {"A", "F", "G"}
        \/ tstate = "B" /\ tpc # 4
    <3>1. CASE place.part \in {"speed", "restore"}
      <4>1. hpc \in {2, 4} /\ \E speed : Changing(hpc, speed)
        BY <1>2, <1>5, <2>1, <3>1, NumbersOfMain, HereOf
      <4>2. PICK speed : Changing(hpc, speed)
        BY <4>1
      <4>3. tstate = "S" /\ (hpc = 2 => tpc = 1)
        BY <4>2 DEF Changing, At
      <4>4. QED
        BY <4>1, <4>3
    <3>2. CASE place.part = "upload"
      <4>1. hpc \in {2, 3} /\ Uploading(hpc)
        BY <1>2, <1>5, <2>1, <3>2, NumbersOfMain, HereOf
      <4>2. tstate = "B" /\ tpc # 4
        BY <4>1 DEF Uploading, At
      <4>3. QED
        BY <4>2
    <3>3. CASE place.part = "execute"
      BY <1>2, <2>1, <3>3, HereOf, ExecutingAt
    <3>4. CASE place.part = "download"
      BY <1>2, <2>1, <3>4, HereOf, DownloadingAt
    <3>5. QED
      BY <1>5, <3>1, <3>2, <3>3, <3>4, NumbersOfMain
  <2>3. ~TDoing("load") /\ tstate # "idle"
    BY <1>1, <2>2, LoadsWhere
  <2>4. TReads
    BY <1>2, <1>3, <1>5, <2>3 DEF TReads
  <2>5. Retimed => hpc > 3
    BY <2>2 DEF Retimed
  <2>6. QED
    BY <1>2, <2>4, <2>5, WritesMeet
<1>6. QED
  BY <1>2, <1>4, <1>5 DEF Asks

LEMMA TargetAgrees ==
    ASSUME Grounds, Typed, Usual(opts), IInv, toTarget # <<>>
    PROVE  TReads /\ Meets(Head(toTarget).speed, tspeed)
<1>1. TargetTyped /\ (hstate = "main" => Working)
  BY DEF Typed, Working, Grounds
<1>2. \A kind, value, s : /\ Item(kind, value, s).kind = kind
                          /\ Item(kind, value, s).speed = s
  BY ItemFields
<1>3. CASE AtWork
  <2>1. InPace /\ Working
    BY <1>1, <1>3 DEF AtWork
  <2>2. CASE Asking
    BY <2>1, <2>2, AskedAgrees
  <2>3. CASE BlockSent
    <3>1. Head(toTarget) = Item("block", HValue, hspeed)
      BY <2>3, OneItem DEF BlockSent
    <3>2. tstate = "B" /\ tpc = 4 /\ twait = FALSE
      BY <2>3 DEF BlockSent, At
    <3>3. TReads
      BY <1>1, <1>2, <3>1, <3>2, GetsWhere DEF TReads
    <3>4. Meets(hspeed, tspeed)
      BY <2>1, <2>3, WritesMeet DEF BlockSent
    <3>5. QED
      BY <1>2, <3>1, <3>3, <3>4
  <2>4. CASE Fetched
    <3>1. Head(toTarget) = Item("good", 0, hspeed)
      BY <2>4, OneItem, TwoItems DEF Fetched
    <3>2. tstate \in {"F", "G"} /\ twait = TRUE
      BY <2>4 DEF Fetched, AtSend, Sender
    <3>3. TReads
      BY <1>2, <3>1, <3>2 DEF TReads, TDoing
    <3>4. ~Retimed
      BY <2>4, <3>2 DEF Retimed, Fetched
    <3>5. QED
      BY <1>2, <2>1, <3>1, <3>3, <3>4, WritesMeet
  <2>5. QED
    BY <1>3, <2>2, <2>3, <2>4
       DEF AtWork, Free, Echoing, BlockAnswered, Checked, Sent
<1>4. CASE Calling
  <2>1. Head(toTarget) = Item("reply", 0, hspeed) /\ tstate = "calling"
    BY <1>4, OneItem DEF Calling
  <2>2. twait = FALSE /\ tstate \notin Commands
    BY <1>1, <2>1 DEF TargetTyped, Stepping, Commands
  <2>3. TReads
    BY <1>2, <2>1, <2>2 DEF TReads, TDoing
  <2>4. QED
    BY <1>2, <1>4, <2>1, <2>3, LaunchedMeets DEF Calling
<1>5. QED
  BY <1>3, <1>4 DEF IInv, Going, InProgram, Resting

(* The next item on a line is what its reader is about to read, at its     *)
(* speed.  A reader takes what it finds for what it expects: dc-tool's     *)
(* main and dcload's must go on in step through every part.                *)
THEOREM MainsGoInStep == AllUsual => (Spec => []MainsAgree)
<1> SUFFICES ASSUME AllUsual PROVE Spec => []MainsAgree
  OBVIOUS
<1>1. Typed /\ IInv => MainsAgree
  <2> SUFFICES ASSUME Typed, IInv PROVE MainsAgree
    OBVIOUS
  <2>1. Grounds /\ Usual(opts)
    BY SessionAssumption, SerialAssumption DEF Grounds, Typed, HostTyped, AllUsual
  <2>2. QED
    BY <2>1, HostAgrees, TargetAgrees DEF MainsAgree
<1>2. QED
  BY <1>1, AlwaysTyped, AlwaysInPhase, PTL

(* The next dc-tool finds the target at the speed that it begins with, and *)
(* nothing on the line of what the last one did.                           *)
THEOREM ReadyForTheNext == AllUsual => (Spec => []LeftReady)
<1> SUFFICES ASSUME AllUsual PROVE Spec => []LeftReady
  OBVIOUS
<1>1. IInv => LeftReady
  <2> SUFFICES ASSUME IInv, hstate = "gone", tstate = "idle"
               PROVE  /\ Meets(Initial, tspeed) /\ vector = "bios"
                      /\ toHost = <<>> /\ toTarget = <<>>
    BY DEF LeftReady
  <2>1. Resting
    BY DEF IInv, AtWork, Going, At, InProgram, Calling
  <2>2. QED
    BY <2>1, SlowMeets DEF Resting, Nothing, Pointed
<1>2. QED
  BY <1>1, AlwaysInPhase, PTL

(* A program calls the host only when do_console is there, or is what      *)
(* dc-tool comes to once it has read the last echo.                        *)
THEOREM CallsAreServed == AllUsual => (Spec => []CallServed)
<1> SUFFICES ASSUME AllUsual PROVE Spec => []CallServed
  OBVIOUS
<1>1. IInv => CallServed
  <2> SUFFICES ASSUME IInv, tstate = "calling"
               PROVE  hstate = "console" \/ (hstate = "main" /\ HostAfter(opts) = "console")
    BY DEF CallServed
  <2>1. Launched /\ opts.console
    BY WhenRunning DEF Calling
  <2>2. QED
    BY <2>1 DEF Launched, Follows, HostAfter, Usable, Started
<1>2. QED
  BY <1>1, AlwaysInPhase, PTL

(* A program is started with what its file says, and with what dc-tool     *)
(* was told, however many parts that took.                                 *)
THEOREM ProgramAsAsked == AllUsual => (Spec => []RunsAsAsked)
<1> SUFFICES ASSUME AllUsual PROVE Spec => []RunsAsAsked
  OBVIOUS
<1>1. Typed /\ IInv => RunsAsAsked
  <2> SUFFICES ASSUME Typed, IInv, tstate \in {"program", "calling"}
               PROVE  /\ tenv.addr = Entry(opts) /\ loaded = Images(ToUpload(opts))
                      /\ tconsole = opts.console
                      /\ (vector = "dcload") = opts.cdfs_redir
    BY DEF RunsAsAsked, Images
  <2>1. Launched /\ tconsole = opts.console
    BY WhenRunning DEF InProgram, Calling
  <2>2. opts.cdfs_redir \in BOOLEAN
    BY SessionAssumption, SerialAssumption, YesOrNo DEF Grounds, Typed
  <2>3. opts.cdfs_redir <=> vector = "dcload"
    BY <2>1 DEF Launched, Pointed, Diverted
  <2>4. QED
    BY <2>1, <2>2, <2>3 DEF Launched
<1>2. QED
  BY <1>1, AlwaysTyped, AlwaysInPhase, PTL
=============================================================================
