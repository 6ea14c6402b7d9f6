--------------------------- MODULE ConsoleProofs ---------------------------
(***************************************************************************)
(* Proofs about Console, for all sizes, whatever goes wrong with gdb's     *)
(* socket, and on every platform whose directory entries have all of their *)
(* fields: both halves of every call agree on what is on the line, every   *)
(* call is carried out once and returns what came of it (Rpc).             *)
(*                                                                         *)
(* First the scripts: whatever a half knows, its steps and the steps of    *)
(* the other half go together one by one (HalvesFit), in the order in      *)
(* which the values they depend on become known. Then the invariant, which *)
(* places the two halves in the scripts of one call; one lemma or two for  *)
(* each kind of step in each part of a call; and the theorems.             *)
(***************************************************************************)
EXTENDS Console, SequenceTheorems, TLAPS

(***************************************************************************)
(* The scripts.                                                            *)
(***************************************************************************)
(* What a half knows of a call that was made with the arguments a.         *)
Env(c, a) == [v \in Values |-> IF v \in Params(c) THEN a[v] ELSE 0]

(* How many steps of the target's half tell the host of the call.          *)
Ins(c, env) ==
    CASE c = "time" -> 0
      [] c \in {"close", "fstat", "closedir", "readdir", "rewinddir", "exit"} -> 1
      [] c \in {"read", "unlink", "chdir", "stat", "opendir", "cdfs"} -> 2
      [] c \in {"write", "creat", "chmod", "lseek"} -> 3
      [] c \in {"open", "link"} -> 4
      [] c = "utime" -> IF env["flag"] = 0 THEN 3 ELSE 5
      [] c = "gdbpacket" -> IF env["in_size"] = 0 THEN 2 ELSE 3

(* What the host knows before step p of its half.                          *)
Heard(c, env, p) == [v \in Values |->
    IF \E j \in 1..p - 1 : TScript(c, env)[j] = Step("put", v) THEN env[v] ELSE 0]

(* What the target knows before step t, of a call whose outcome is env.    *)
Learned(c, env, t) == [v \in Values |->
    IF v \in Params(c) \/ \E j \in 1..t - 1 : TScript(c, env)[j] = Step("get", v)
    THEN env[v] ELSE 0]

(* What the host may know once it has carried out a call and will answer.  *)
Outcome(c, e, f) ==
    /\ f \in [Values -> 0..MinusOne]
    /\ \A v \in Params(c) : f[v] = e[v]
    /\ f["silent"] = 0
    /\ c = "gdbpacket" => f["retval"] \in 0..f["out_size"] \cup {MinusOne}
    /\ c = "readdir" => f["namelen"] > 0

(* The item of step k of the target's half; before the first step it sends *)
(* the number of the call.                                                 *)
Said(c, e, k) ==
    IF k = 0 THEN Command(Number[c])
    ELSE LET step == TScript(c, e)[k]
         IN IF step.do = "put" THEN Word(step.field, ValueOf(e, step.field))
            ELSE Block(e[step.field])
-----------------------------------------------------------------------------
(* A step of the target's half that tells the host something, or takes     *)
(* something from it, and the step of the host's half that goes with it.   *)
Tells(t, h) == /\ t.field = h.field
               /\ \/ t = Step("put", t.field) /\ h.do = "recv"
                  \/ t = Step("send", t.field) /\ h.do = "data"
Takes(t, h) == /\ t.field = h.field
               /\ \/ t = Step("get", t.field) /\ h.do = "send"
                  \/ t = Step("load", t.field) /\ h.do = "block"

(* The field a call's answer is taken from.                                *)
AnswerField(c) == IF c = "readdir" THEN "found" ELSE "retval"

(* The values a call that is answered can be about.                        *)
Fitting(c, f) ==
    /\ f \in [Values -> 0..MinusOne]
    /\ f["silent"] = 0
    /\ \A v \in Params(c) : f[v] \in Least(c, v)..MaxSize
    /\ c = "gdbpacket" => f["retval"] \in 0..f["out_size"] \cup {MinusOne}
    /\ c = "readdir" => f["found"] = 0 \/ f["namelen"] # 0

(* The two halves of the call c fit together, when f is known of it: first *)
(* the target tells and the host listens, the host carries the call out,   *)
(* and then the host tells.  A size is told before the block, and a block  *)
(* of no bytes is only asked for by read.                                  *)
Paired(T, H, n) ==
    /\ n \in Nat /\ Len(T) \in Nat /\ Len(H) = Len(T) + 1
    /\ \A k \in 1..n : Tells(T[k], H[k])
    /\ H[n + 1].do = "run"
    /\ \A k \in n + 1..Len(T) : Takes(T[k], H[k + 1])
Sized(c, f, T, n) ==
    /\ \A k \in 1..n : T[k].do = "send" =>
          /\ T[k].field \in Values
          /\ f[T[k].field] # 0
          /\ \E j \in 1..k - 1 : T[j] = Step("put", T[k].field)
    /\ \A k \in n + 1..Len(T) : T[k].do = "load" =>
          /\ T[k].field \in Values
          /\ \/ T[k].field \in Params(c)
             \/ \E j \in n + 1..k - 1 : T[j] = Step("get", T[k].field)
          /\ f[T[k].field] = 0 => c = "read"
Whole(c, T, n) ==
    /\ \A v \in Params(c) : \E j \in 1..n : T[j] = Step("put", v)
    /\ c = "exit" => n = 1 /\ Len(T) = 1
    /\ c # "exit" => n < Len(T)
    /\ c \notin {"exit", "cdfs"} =>
          \E j \in n + 1..Len(T) : T[j] = Step("get", AnswerField(c))
    /\ c = "read" => /\ n = 2 /\ Len(T) = 4 /\ T[2] = Step("put", "count")
                     /\ T[3] = Step("load", "count") /\ T[4] = Step("get", "retval")
Fits(c, f, T, H, n) == Paired(T, H, n) /\ Sized(c, f, T, n) /\ Whole(c, T, n)
Shaped(c, f) == Fits(c, f, TScript(c, f), HScript(c, f), Ins(c, f))

(* A write of no bytes makes the target send a block nobody reads          *)
(* (recv_empty shows it), and where directory entries lack fields          *)
(* dc_readdir sends fewer numbers than the target reads: those two are     *)
(* left out. Nothing is asked of gdb.                                      *)
Usual == Platform \in {"linux", "apple", "windows"} /\ MinWrite > 0

(* The halves of each call fit together.                                   *)
LEMMA ReadFits ==
  ASSUME NEW f, Fitting("read", f)
  PROVE  Fits("read", f, TRead, HRead, 2)
<1>1. /\ Len(TRead) = 4
      /\ TRead[1] = Step("put", "fd") /\ TRead[2] = Step("put", "count")
      /\ TRead[3] = Step("load", "count") /\ TRead[4] = Step("get", "retval")
  BY DEF TRead, TRetval
<1>2. /\ Len(HRead) = 5
      /\ HRead[1] = Step("recv", "fd") /\ HRead[2] = Step("recv", "count")
      /\ HRead[3] = Step("run", "retval") /\ HRead[4] = Step("block", "count")
      /\ HRead[5] = Step("send", "retval")
  BY DEF HRead, HRun, Steps
<1>3. Params("read") = {"count"}
  BY DEF Params
<1>4. Paired(TRead, HRead, 2)
  BY <1>1, <1>2 DEF Paired, Tells, Takes, Step
<1>5. Sized("read", f, TRead, 2)
  BY <1>1, <1>3 DEF Sized, Step, Values
<1>6. Whole("read", TRead, 2)
  BY <1>1, <1>3 DEF Whole, Step, AnswerField
<1>7. QED
  BY <1>4, <1>5, <1>6 DEF Fits

LEMMA WriteFits ==
  ASSUME NEW f, Fitting("write", f), MinWrite > 0
  PROVE  Fits("write", f, TWrite, HWrite, 3)
<1>1. /\ Len(TWrite) = 4
      /\ TWrite[1] = Step("put", "fd") /\ TWrite[2] = Step("put", "count")
      /\ TWrite[3] = Step("send", "count") /\ TWrite[4] = Step("get", "retval")
  BY DEF TWrite, TRetval
<1>2. /\ Len(HWrite) = 5
      /\ HWrite[1] = Step("recv", "fd") /\ HWrite[2] = Step("recv", "count")
      /\ HWrite[3] = Step("data", "count") /\ HWrite[4] = Step("run", "retval")
      /\ HWrite[5] = Step("send", "retval")
  BY DEF HWrite, HReply, HRun, Steps
<1>3. Params("write") = {"count"} /\ f["count"] # 0
  BY ConsoleAssumption DEF Fitting, Params, Least, ConsoleAssumption
<1>4. Paired(TWrite, HWrite, 3)
  BY <1>1, <1>2 DEF Paired, Tells, Takes, Step
<1>5. Sized("write", f, TWrite, 3)
  BY <1>1, <1>3 DEF Sized, Step, Values
<1>6. Whole("write", TWrite, 3)
  BY <1>1, <1>3 DEF Whole, Step, AnswerField
<1>7. QED
  BY <1>4, <1>5, <1>6 DEF Fits

LEMMA OpenFits ==
  ASSUME NEW f, Fitting("open", f)
  PROVE  Fits("open", f, TOpen, HOpen, 4)
<1>1. /\ Len(TOpen) = 5
      /\ TOpen[1] = Step("put", "namelen") /\ TOpen[2] = Step("send", "namelen")
      /\ TOpen[3] = Step("put", "flags") /\ TOpen[4] = Step("put", "mode")
      /\ TOpen[5] = Step("get", "retval")
  BY DEF TOpen, TName, TRetval
<1>2. /\ Len(HOpen) = 6
      /\ HOpen[1] = Step("recv", "namelen") /\ HOpen[2] = Step("data", "namelen")
      /\ HOpen[3] = Step("recv", "flags") /\ HOpen[4] = Step("recv", "mode")
      /\ HOpen[5] = Step("run", "retval") /\ HOpen[6] = Step("send", "retval")
  BY DEF HOpen, HName, HReply, HRun, Steps
<1>3. Params("open") = {"namelen"} /\ f["namelen"] # 0
  BY ConsoleAssumption DEF Fitting, Params, Least, ConsoleAssumption
<1>4. Paired(TOpen, HOpen, 4)
  BY <1>1, <1>2 DEF Paired, Tells, Takes, Step
<1>5. Sized("open", f, TOpen, 4)
  BY <1>1, <1>3 DEF Sized, Step, Values
<1>6. Whole("open", TOpen, 4)
  BY <1>1, <1>3 DEF Whole, Step, AnswerField
<1>7. QED
  BY <1>4, <1>5, <1>6 DEF Fits

LEMMA CloseFits ==
  ASSUME NEW f, Fitting("close", f)
  PROVE  Fits("close", f, TClose, HClose, 1)
<1>1. /\ Len(TClose) = 2
      /\ TClose[1] = Step("put", "fd") /\ TClose[2] = Step("get", "retval")
  BY DEF TClose, TRetval
<1>2. /\ Len(HClose) = 3
      /\ HClose[1] = Step("recv", "fd") /\ HClose[2] = Step("run", "retval")
      /\ HClose[3] = Step("send", "retval")
  BY DEF HClose, HReply, HRun
<1>3. Params("close") = {}
  BY DEF Params
<1>4. Paired(TClose, HClose, 1)
  BY <1>1, <1>2 DEF Paired, Tells, Takes, Step
<1>5. Sized("close", f, TClose, 1)
  BY <1>1, <1>3 DEF Sized, Step
<1>6. Whole("close", TClose, 1)
  BY <1>1, <1>3 DEF Whole, Step, AnswerField
<1>7. QED
  BY <1>4, <1>5, <1>6 DEF Fits

LEMMA CreatFits ==
  ASSUME NEW f, NEW c \in {"creat", "chmod"}, Fitting(c, f)
  PROVE  Fits(c, f, TCreat, HCreat, 3)
<1>1. /\ Len(TCreat) = 4
      /\ TCreat[1] = Step("put", "namelen")
      /\ TCreat[2] = Step("send", "namelen") /\ TCreat[3] = Step("put", "mode")
      /\ TCreat[4] = Step("get", "retval")
  BY DEF TCreat, TName, TRetval
<1>2. /\ Len(HCreat) = 5
      /\ HCreat[1] = Step("recv", "namelen")
      /\ HCreat[2] = Step("data", "namelen") /\ HCreat[3] = Step("recv", "mode")
      /\ HCreat[4] = Step("run", "retval") /\ HCreat[5] = Step("send", "retval")
  BY DEF HCreat, HName, HReply, HRun
<1>3. Params(c) = {"namelen"} /\ f["namelen"] # 0
  BY ConsoleAssumption DEF Fitting, Params, Least, ConsoleAssumption
<1>4. Paired(TCreat, HCreat, 3)
  BY <1>1, <1>2 DEF Paired, Tells, Takes, Step
<1>5. Sized(c, f, TCreat, 3)
  BY <1>1, <1>3 DEF Sized, Step, Values
<1>6. Whole(c, TCreat, 3)
  BY <1>1, <1>3 DEF Whole, Step, AnswerField
<1>7. QED
  BY <1>4, <1>5, <1>6 DEF Fits

LEMMA LinkFits ==
  ASSUME NEW f, Fitting("link", f)
  PROVE  Fits("link", f, TLink, HLink, 4)
<1>1. /\ Len(TLink) = 5
      /\ TLink[1] = Step("put", "namelen") /\ TLink[2] = Step("send", "namelen")
      /\ TLink[3] = Step("put", "namelen2")
      /\ TLink[4] = Step("send", "namelen2") /\ TLink[5] = Step("get", "retval")
  BY DEF TLink, TName, TRetval
<1>2. /\ Len(HLink) = 6
      /\ HLink[1] = Step("recv", "namelen") /\ HLink[2] = Step("data", "namelen")
      /\ HLink[3] = Step("recv", "namelen2")
      /\ HLink[4] = Step("data", "namelen2") /\ HLink[5] = Step("run", "retval")
      /\ HLink[6] = Step("send", "retval")
  BY DEF HLink, HName, HReply, HRun
<1>3. Params("link") = {"namelen", "namelen2"} /\ f["namelen"] # 0 /\ f["namelen2"] # 0
  BY ConsoleAssumption DEF Fitting, Params, Least, ConsoleAssumption
<1>4. Paired(TLink, HLink, 4)
  BY <1>1, <1>2 DEF Paired, Tells, Takes, Step
<1>5. Sized("link", f, TLink, 4)
  BY <1>1, <1>3 DEF Sized, Step, Values
<1>6. Whole("link", TLink, 4)
  BY <1>1, <1>3 DEF Whole, Step, AnswerField
<1>7. QED
  BY <1>4, <1>5, <1>6 DEF Fits

LEMMA UnlinkFits ==
  ASSUME NEW f, NEW c \in {"unlink", "chdir", "opendir"}, Fitting(c, f)
  PROVE  Fits(c, f, TUnlink, HUnlink, 2)
<1>1. /\ Len(TUnlink) = 3
      /\ TUnlink[1] = Step("put", "namelen")
      /\ TUnlink[2] = Step("send", "namelen")
      /\ TUnlink[3] = Step("get", "retval")
  BY DEF TUnlink, TName, TRetval
<1>2. /\ Len(HUnlink) = 4
      /\ HUnlink[1] = Step("recv", "namelen")
      /\ HUnlink[2] = Step("data", "namelen")
      /\ HUnlink[3] = Step("run", "retval")
      /\ HUnlink[4] = Step("send", "retval")
  BY DEF HUnlink, HName, HReply, HRun
<1>3. Params(c) = {"namelen"} /\ f["namelen"] # 0
  BY ConsoleAssumption DEF Fitting, Params, Least, ConsoleAssumption
<1>4. Paired(TUnlink, HUnlink, 2)
  BY <1>1, <1>2 DEF Paired, Tells, Takes, Step
<1>5. Sized(c, f, TUnlink, 2)
  BY <1>1, <1>3 DEF Sized, Step, Values
<1>6. Whole(c, TUnlink, 2)
  BY <1>1, <1>3 DEF Whole, Step, AnswerField
<1>7. QED
  BY <1>4, <1>5, <1>6 DEF Fits

LEMMA LseekFits ==
  ASSUME NEW f, Fitting("lseek", f)
  PROVE  Fits("lseek", f, TLseek, HLseek, 3)
<1>1. /\ Len(TLseek) = 4
      /\ TLseek[1] = Step("put", "fd") /\ TLseek[2] = Step("put", "offset")
      /\ TLseek[3] = Step("put", "whence") /\ TLseek[4] = Step("get", "retval")
  BY DEF TLseek, TRetval, Steps
<1>2. /\ Len(HLseek) = 5
      /\ HLseek[1] = Step("recv", "fd") /\ HLseek[2] = Step("recv", "offset")
      /\ HLseek[3] = Step("recv", "whence") /\ HLseek[4] = Step("run", "retval")
      /\ HLseek[5] = Step("send", "retval")
  BY DEF HLseek, HReply, HRun, Steps
<1>3. Params("lseek") = {}
  BY DEF Params
<1>4. Paired(TLseek, HLseek, 3)
  BY <1>1, <1>2 DEF Paired, Tells, Takes, Step
<1>5. Sized("lseek", f, TLseek, 3)
  BY <1>1, <1>3 DEF Sized, Step
<1>6. Whole("lseek", TLseek, 3)
  BY <1>1, <1>3 DEF Whole, Step, AnswerField
<1>7. QED
  BY <1>4, <1>5, <1>6 DEF Fits

LEMMA TimeFits ==
  ASSUME NEW f, Fitting("time", f)
  PROVE  Fits("time", f, TTime, HTime, 0)
<1>1. /\ Len(TTime) = 1
      /\ TTime[1] = Step("get", "retval")
  BY DEF TTime, TRetval
<1>2. /\ Len(HTime) = 2
      /\ HTime[1] = Step("run", "retval") /\ HTime[2] = Step("send", "retval")
  BY DEF HTime, HReply, HRun
<1>3. Params("time") = {}
  BY DEF Params
<1>4. Paired(TTime, HTime, 0)
  BY <1>1, <1>2 DEF Paired, Tells, Takes, Step
<1>5. Sized("time", f, TTime, 0)
  BY <1>1, <1>3 DEF Sized, Step
<1>6. Whole("time", TTime, 0)
  BY <1>1, <1>3 DEF Whole, Step, AnswerField
<1>7. QED
  BY <1>4, <1>5, <1>6 DEF Fits

LEMMA ClosedirFits ==
  ASSUME NEW f, NEW c \in {"closedir", "rewinddir"}, Fitting(c, f)
  PROVE  Fits(c, f, TClosedir, HClosedir, 1)
<1>1. /\ Len(TClosedir) = 2
      /\ TClosedir[1] = Step("put", "dir")
      /\ TClosedir[2] = Step("get", "retval")
  BY DEF TClosedir, TRetval
<1>2. /\ Len(HClosedir) = 3
      /\ HClosedir[1] = Step("recv", "dir")
      /\ HClosedir[2] = Step("run", "retval")
      /\ HClosedir[3] = Step("send", "retval")
  BY DEF HClosedir, HReply, HRun
<1>3. Params(c) = {}
  BY DEF Params
<1>4. Paired(TClosedir, HClosedir, 1)
  BY <1>1, <1>2 DEF Paired, Tells, Takes, Step
<1>5. Sized(c, f, TClosedir, 1)
  BY <1>1, <1>3 DEF Sized, Step
<1>6. Whole(c, TClosedir, 1)
  BY <1>1, <1>3 DEF Whole, Step, AnswerField
<1>7. QED
  BY <1>4, <1>5, <1>6 DEF Fits

LEMMA CdfsFits ==
  ASSUME NEW f, Fitting("cdfs", f)
  PROVE  Fits("cdfs", f, TCdfs, HCdfs, 2)
<1>1. /\ Len(TCdfs) = 3
      /\ TCdfs[1] = Step("put", "start") /\ TCdfs[2] = Step("put", "num")
      /\ TCdfs[3] = Step("load", "num")
  BY DEF TCdfs
<1>2. /\ Len(HCdfs) = 4
      /\ HCdfs[1] = Step("recv", "start") /\ HCdfs[2] = Step("recv", "num")
      /\ HCdfs[3] = Step("run", "retval") /\ HCdfs[4] = Step("block", "num")
  BY DEF HCdfs, HRun, Steps
<1>3. Params("cdfs") = {"num"} /\ f["num"] # 0
  BY ConsoleAssumption DEF Fitting, Params, Least, ConsoleAssumption
<1>4. Paired(TCdfs, HCdfs, 2)
  BY <1>1, <1>2 DEF Paired, Tells, Takes, Step
<1>5. Sized("cdfs", f, TCdfs, 2)
  BY <1>1, <1>3 DEF Sized, Step, Values
<1>6. Whole("cdfs", TCdfs, 2)
  BY <1>1, <1>3 DEF Whole, Step, AnswerField
<1>7. QED
  BY <1>4, <1>5, <1>6 DEF Fits

LEMMA ExitFits ==
  ASSUME NEW f, Fitting("exit", f)
  PROVE  Fits("exit", f, TExit, HExit, 1)
<1>1. /\ Len(TExit) = 1
      /\ TExit[1] = Step("put", "retval")
  BY DEF TExit
<1>2. /\ Len(HExit) = 2
      /\ HExit[1] = Step("recv", "retval") /\ HExit[2] = Step("run", "retval")
  BY DEF HExit, HRun
<1>3. Params("exit") = {"retval"}
  BY DEF Params
<1>4. Paired(TExit, HExit, 1)
  BY <1>1, <1>2 DEF Paired, Tells, Takes, Step
<1>5. Sized("exit", f, TExit, 1)
  BY <1>1, <1>3 DEF Sized, Step, Values
<1>6. Whole("exit", TExit, 1)
  BY <1>1, <1>3 DEF Whole, Step, AnswerField
<1>7. QED
  BY <1>4, <1>5, <1>6 DEF Fits

LEMMA FstatFits ==
  ASSUME NEW f
  PROVE  Fits("fstat", f, TFstat, HFstat, 1)
<1>1. /\ Len(TFstat) = 15
      /\ TFstat[1] = Step("put", "fd") /\ TFstat[15] = Step("get", "retval")
      /\ \A k \in 1..13 : TFstat[k + 1] = Step("get", StatFields[k])
  BY DEF TFstat, TRetval, Steps, StatFields
<1>2. /\ Len(HFstat) = 16
      /\ HFstat[1] = Step("recv", "fd") /\ HFstat[2] = Step("run", "retval")
      /\ \A k \in 1..13 : HFstat[k + 2] = Step("send", StatFields[k])
      /\ HFstat[16] = Step("send", "retval")
  BY DEF HFstat, Steps, HRun, StatFields
<1>3. Params("fstat") = {}
  BY DEF Params
<1>4. \A k \in 2..15 : Takes(TFstat[k], HFstat[k + 1]) /\ TFstat[k].do = "get"
  <2> SUFFICES ASSUME NEW k \in 2..15
               PROVE  Takes(TFstat[k], HFstat[k + 1]) /\ TFstat[k].do = "get"
    OBVIOUS
  <2>1. CASE k = 15
    BY <1>1, <1>2, <2>1 DEF Takes, Step
  <2>2. CASE k # 15
    <3>1. k - 1 \in 1..13 /\ (k - 1) + 1 = k /\ (k - 1) + 2 = k + 1
      BY <2>2
    <3>2. QED
      BY <1>1, <1>2, <3>1 DEF Takes, Step
  <2>3. QED
    BY <2>1, <2>2
<1>5. Paired(TFstat, HFstat, 1)
  BY <1>1, <1>2, <1>4 DEF Paired, Tells, Step
<1>6. Sized("fstat", f, TFstat, 1)
  BY <1>1, <1>4 DEF Sized, Step
<1>7. Whole("fstat", TFstat, 1)
  BY <1>1, <1>3 DEF Whole, AnswerField
<1>8. QED
  BY <1>5, <1>6, <1>7 DEF Fits

LEMMA StatFits ==
  ASSUME NEW f, Fitting("stat", f)
  PROVE  Fits("stat", f, TStat, HStat, 2)
<1>1. /\ Len(TStat) = 16
      /\ TStat[1] = Step("put", "namelen") /\ TStat[2] = Step("send", "namelen")
      /\ \A k \in 1..13 : TStat[k + 2] = Step("get", StatFields[k])
      /\ TStat[16] = Step("get", "retval")
  BY DEF TStat, TName, TRetval, Steps, StatFields
<1>2. /\ Len(HStat) = 17
      /\ HStat[1] = Step("recv", "namelen") /\ HStat[2] = Step("data", "namelen")
      /\ HStat[3] = Step("run", "retval")
      /\ \A k \in 1..13 : HStat[k + 3] = Step("send", StatFields[k])
      /\ HStat[17] = Step("send", "retval")
  BY DEF HStat, HName, Steps, HRun, StatFields
<1>3. Params("stat") = {"namelen"} /\ f["namelen"] # 0
  BY ConsoleAssumption DEF Fitting, Params, Least, ConsoleAssumption
<1>4. \A k \in 3..16 : Takes(TStat[k], HStat[k + 1]) /\ TStat[k].do = "get"
  <2> SUFFICES ASSUME NEW k \in 3..16
               PROVE  Takes(TStat[k], HStat[k + 1]) /\ TStat[k].do = "get"
    OBVIOUS
  <2>1. CASE k = 16
    BY <1>1, <1>2, <2>1 DEF Takes, Step
  <2>2. CASE k # 16
    <3>1. k - 2 \in 1..13 /\ (k - 2) + 2 = k /\ (k - 2) + 3 = k + 1
      BY <2>2
    <3>2. QED
      BY <1>1, <1>2, <3>1 DEF Takes, Step
  <2>3. QED
    BY <2>1, <2>2
<1>5. Paired(TStat, HStat, 2)
  BY <1>1, <1>2, <1>4 DEF Paired, Tells, Step
<1>6. Sized("stat", f, TStat, 2)
  BY <1>1, <1>3, <1>4 DEF Sized, Step, Values
<1>7. Whole("stat", TStat, 2)
  BY <1>1, <1>3 DEF Whole, Step, AnswerField
<1>8. QED
  BY <1>5, <1>6, <1>7 DEF Fits

LEMMA UtimeFits ==
  ASSUME NEW f, Fitting("utime", f)
  PROVE  Fits("utime", f, TUtime(f), HUtime(f), Ins("utime", f))
<1>1. Params("utime") = {"namelen", "flag"} /\ f["namelen"] # 0
  BY ConsoleAssumption DEF Fitting, Params, Least, ConsoleAssumption
<1>2. CASE f["flag"] = 0
  <2>1. /\ Len(TUtime(f)) = 4
        /\ TUtime(f)[1] = Step("put", "namelen")
        /\ TUtime(f)[2] = Step("send", "namelen")
        /\ TUtime(f)[3] = Step("put", "flag")
        /\ TUtime(f)[4] = Step("get", "retval")
        /\ Ins("utime", f) = 3
    BY <1>2 DEF TUtime, TName, TRetval, Steps, Ins
  <2>2. /\ Len(HUtime(f)) = 5
        /\ HUtime(f)[1] = Step("recv", "namelen")
        /\ HUtime(f)[2] = Step("data", "namelen")
        /\ HUtime(f)[3] = Step("recv", "flag")
        /\ HUtime(f)[4] = Step("run", "retval")
        /\ HUtime(f)[5] = Step("send", "retval")
    BY <1>2 DEF HUtime, HName, HReply, HRun, Steps
  <2>3. Paired(TUtime(f), HUtime(f), Ins("utime", f))
    BY <2>1, <2>2 DEF Paired, Tells, Takes, Step
  <2>4. Sized("utime", f, TUtime(f), Ins("utime", f))
    BY <1>1, <1>2, <2>1 DEF Sized, Step, Values
  <2>5. Whole("utime", TUtime(f), Ins("utime", f))
    BY <1>1, <2>1 DEF Whole, Step, AnswerField
  <2>6. QED
    BY <2>3, <2>4, <2>5 DEF Fits
<1>3. CASE f["flag"] # 0
  <2>1. /\ Len(TUtime(f)) = 6
        /\ TUtime(f)[1] = Step("put", "namelen")
        /\ TUtime(f)[2] = Step("send", "namelen")
        /\ TUtime(f)[3] = Step("put", "flag")
        /\ TUtime(f)[4] = Step("put", "actime")
        /\ TUtime(f)[5] = Step("put", "modtime")
        /\ TUtime(f)[6] = Step("get", "retval")
        /\ Ins("utime", f) = 5
    BY <1>3 DEF TUtime, TName, TRetval, Steps, Ins
  <2>2. /\ Len(HUtime(f)) = 7
        /\ HUtime(f)[1] = Step("recv", "namelen")
        /\ HUtime(f)[2] = Step("data", "namelen")
        /\ HUtime(f)[3] = Step("recv", "flag")
        /\ HUtime(f)[4] = Step("recv", "actime")
        /\ HUtime(f)[5] = Step("recv", "modtime")
        /\ HUtime(f)[6] = Step("run", "retval")
        /\ HUtime(f)[7] = Step("send", "retval")
    BY <1>3 DEF HUtime, HName, HReply, HRun, Steps
  <2>3. Paired(TUtime(f), HUtime(f), Ins("utime", f))
    BY <2>1, <2>2 DEF Paired, Tells, Takes, Step
  <2>4. Sized("utime", f, TUtime(f), Ins("utime", f))
    BY <1>1, <1>3, <2>1 DEF Sized, Step, Values
  <2>5. Whole("utime", TUtime(f), Ins("utime", f))
    BY <1>1, <2>1 DEF Whole, Step, AnswerField
  <2>6. QED
    BY <2>3, <2>4, <2>5 DEF Fits
<1>4. QED
  BY <1>2, <1>3

LEMMA ReaddirFits ==
  ASSUME NEW f, Fitting("readdir", f), Usual
  PROVE  Fits("readdir", f, TReaddir(f), HReaddir(f), Ins("readdir", f))
<1>1. Params("readdir") = {} /\ (f["found"] = 0 \/ f["namelen"] # 0)
  BY DEF Fitting, Params
<1>2. EntryFields = <<"d_off", "d_reclen", "d_type">>
  BY DEF Usual, EntryFields
<1>3. CASE f["found"] = 0
  <2>1. /\ Len(TReaddir(f)) = 2
        /\ TReaddir(f)[1] = Step("put", "dir")
        /\ TReaddir(f)[2] = Step("get", "found")
        /\ Ins("readdir", f) = 1
    BY <1>3 DEF TReaddir, Steps, Ins
  <2>2. /\ Len(HReaddir(f)) = 3
        /\ HReaddir(f)[1] = Step("recv", "dir")
        /\ HReaddir(f)[2] = Step("run", "retval")
        /\ HReaddir(f)[3] = Step("send", "found")
    BY <1>2, <1>3 DEF HReaddir, HRun, Steps
  <2>3. Paired(TReaddir(f), HReaddir(f), Ins("readdir", f))
    BY <2>1, <2>2 DEF Paired, Tells, Takes, Step
  <2>4. Sized("readdir", f, TReaddir(f), Ins("readdir", f))
    BY <1>1, <1>3, <2>1 DEF Sized, Step, Values
  <2>5. Whole("readdir", TReaddir(f), Ins("readdir", f))
    BY <1>1, <2>1 DEF Whole, Step, AnswerField
  <2>6. QED
    BY <2>3, <2>4, <2>5 DEF Fits
<1>4. CASE f["found"] # 0
  <2>1. /\ Len(TReaddir(f)) = 8
        /\ TReaddir(f)[1] = Step("put", "dir")
        /\ TReaddir(f)[2] = Step("get", "found")
        /\ TReaddir(f)[3] = Step("get", "d_ino")
        /\ TReaddir(f)[4] = Step("get", "d_off")
        /\ TReaddir(f)[5] = Step("get", "d_reclen")
        /\ TReaddir(f)[6] = Step("get", "d_type")
        /\ TReaddir(f)[7] = Step("get", "namelen")
        /\ TReaddir(f)[8] = Step("load", "namelen")
        /\ Ins("readdir", f) = 1
    BY <1>4 DEF TReaddir, Steps, Ins
  <2>2. /\ Len(HReaddir(f)) = 9
        /\ HReaddir(f)[1] = Step("recv", "dir")
        /\ HReaddir(f)[2] = Step("run", "retval")
        /\ HReaddir(f)[3] = Step("send", "found")
        /\ HReaddir(f)[4] = Step("send", "d_ino")
        /\ HReaddir(f)[5] = Step("send", "d_off")
        /\ HReaddir(f)[6] = Step("send", "d_reclen")
        /\ HReaddir(f)[7] = Step("send", "d_type")
        /\ HReaddir(f)[8] = Step("send", "namelen")
        /\ HReaddir(f)[9] = Step("block", "namelen")
    BY <1>2, <1>4 DEF HReaddir, HRun, Steps
  <2>3. Paired(TReaddir(f), HReaddir(f), Ins("readdir", f))
    BY <2>1, <2>2 DEF Paired, Tells, Takes, Step
  <2>4. Sized("readdir", f, TReaddir(f), Ins("readdir", f))
    BY <1>1, <1>4, <2>1 DEF Sized, Step, Values
  <2>5. Whole("readdir", TReaddir(f), Ins("readdir", f))
    BY <1>1, <2>1 DEF Whole, Step, AnswerField
  <2>6. QED
    BY <2>3, <2>4, <2>5 DEF Fits
<1>5. QED
  BY <1>3, <1>4

LEMMA GdbpacketFits ==
  ASSUME NEW f, Fitting("gdbpacket", f)
  PROVE  Fits("gdbpacket", f, TGdbpacket(f), HGdbpacket(f), Ins("gdbpacket", f))
<1>1. /\ Params("gdbpacket") = {"in_size", "out_size"}
      /\ f["silent"] = 0
      /\ f["retval"] \in 1..f["out_size"] <=> f["retval"] \in 1..MaxSize
  BY ConsoleAssumption DEF Fitting, Params, Least, ConsoleAssumption
<1>2. CASE f["in_size"] = 0 /\ f["retval"] \notin 1..MaxSize
  <2>1. /\ Len(TGdbpacket(f)) = 3
        /\ TGdbpacket(f)[1] = Step("put", "in_size")
        /\ TGdbpacket(f)[2] = Step("put", "out_size")
        /\ TGdbpacket(f)[3] = Step("get", "retval")
        /\ Ins("gdbpacket", f) = 2
    BY <1>1, <1>2 DEF TGdbpacket, TRetval, Steps, Ins
  <2>2. /\ Len(HGdbpacket(f)) = 4
        /\ HGdbpacket(f)[1] = Step("recv", "in_size")
        /\ HGdbpacket(f)[2] = Step("recv", "out_size")
        /\ HGdbpacket(f)[3] = Step("run", "retval")
        /\ HGdbpacket(f)[4] = Step("send", "retval")
    BY <1>1, <1>2 DEF HGdbpacket, HRun, Steps
  <2>3. Paired(TGdbpacket(f), HGdbpacket(f), Ins("gdbpacket", f))
    BY <2>1, <2>2 DEF Paired, Tells, Takes, Step
  <2>4. Sized("gdbpacket", f, TGdbpacket(f), Ins("gdbpacket", f))
    BY <1>1, <1>2, <2>1 DEF Sized, Step, Values
  <2>5. Whole("gdbpacket", TGdbpacket(f), Ins("gdbpacket", f))
    BY <1>1, <2>1 DEF Whole, Step, AnswerField
  <2>6. QED
    BY <2>3, <2>4, <2>5 DEF Fits
<1>3. CASE f["in_size"] = 0 /\ f["retval"] \in 1..MaxSize
  <2>1. /\ Len(TGdbpacket(f)) = 4
        /\ TGdbpacket(f)[1] = Step("put", "in_size")
        /\ TGdbpacket(f)[2] = Step("put", "out_size")
        /\ TGdbpacket(f)[3] = Step("get", "retval")
        /\ TGdbpacket(f)[4] = Step("load", "retval")
        /\ Ins("gdbpacket", f) = 2
    BY <1>1, <1>3 DEF TGdbpacket, TRetval, Steps, Ins
  <2>2. /\ Len(HGdbpacket(f)) = 5
        /\ HGdbpacket(f)[1] = Step("recv", "in_size")
        /\ HGdbpacket(f)[2] = Step("recv", "out_size")
        /\ HGdbpacket(f)[3] = Step("run", "retval")
        /\ HGdbpacket(f)[4] = Step("send", "retval")
        /\ HGdbpacket(f)[5] = Step("block", "retval")
    BY <1>1, <1>3 DEF HGdbpacket, HRun, Steps
  <2>3. Paired(TGdbpacket(f), HGdbpacket(f), Ins("gdbpacket", f))
    BY <2>1, <2>2 DEF Paired, Tells, Takes, Step
  <2>4. Sized("gdbpacket", f, TGdbpacket(f), Ins("gdbpacket", f))
    BY <1>1, <1>3, <2>1 DEF Sized, Step, Values
  <2>5. Whole("gdbpacket", TGdbpacket(f), Ins("gdbpacket", f))
    BY <1>1, <2>1 DEF Whole, Step, AnswerField
  <2>6. QED
    BY <2>3, <2>4, <2>5 DEF Fits
<1>4. CASE f["in_size"] # 0 /\ f["retval"] \notin 1..MaxSize
  <2>1. /\ Len(TGdbpacket(f)) = 4
        /\ TGdbpacket(f)[1] = Step("put", "in_size")
        /\ TGdbpacket(f)[2] = Step("put", "out_size")
        /\ TGdbpacket(f)[3] = Step("send", "in_size")
        /\ TGdbpacket(f)[4] = Step("get", "retval")
        /\ Ins("gdbpacket", f) = 3
    BY <1>1, <1>4 DEF TGdbpacket, TRetval, Steps, Ins
  <2>2. /\ Len(HGdbpacket(f)) = 5
        /\ HGdbpacket(f)[1] = Step("recv", "in_size")
        /\ HGdbpacket(f)[2] = Step("recv", "out_size")
        /\ HGdbpacket(f)[3] = Step("data", "in_size")
        /\ HGdbpacket(f)[4] = Step("run", "retval")
        /\ HGdbpacket(f)[5] = Step("send", "retval")
    BY <1>1, <1>4 DEF HGdbpacket, HRun, Steps
  <2>3. Paired(TGdbpacket(f), HGdbpacket(f), Ins("gdbpacket", f))
    BY <2>1, <2>2 DEF Paired, Tells, Takes, Step
  <2>4. Sized("gdbpacket", f, TGdbpacket(f), Ins("gdbpacket", f))
    BY <1>1, <1>4, <2>1 DEF Sized, Step, Values
  <2>5. Whole("gdbpacket", TGdbpacket(f), Ins("gdbpacket", f))
    BY <1>1, <2>1 DEF Whole, Step, AnswerField
  <2>6. QED
    BY <2>3, <2>4, <2>5 DEF Fits
<1>5. CASE f["in_size"] # 0 /\ f["retval"] \in 1..MaxSize
  <2>1. /\ Len(TGdbpacket(f)) = 5
        /\ TGdbpacket(f)[1] = Step("put", "in_size")
        /\ TGdbpacket(f)[2] = Step("put", "out_size")
        /\ TGdbpacket(f)[3] = Step("send", "in_size")
        /\ TGdbpacket(f)[4] = Step("get", "retval")
        /\ TGdbpacket(f)[5] = Step("load", "retval")
        /\ Ins("gdbpacket", f) = 3
    BY <1>1, <1>5 DEF TGdbpacket, TRetval, Steps, Ins
  <2>2. /\ Len(HGdbpacket(f)) = 6
        /\ HGdbpacket(f)[1] = Step("recv", "in_size")
        /\ HGdbpacket(f)[2] = Step("recv", "out_size")
        /\ HGdbpacket(f)[3] = Step("data", "in_size")
        /\ HGdbpacket(f)[4] = Step("run", "retval")
        /\ HGdbpacket(f)[5] = Step("send", "retval")
        /\ HGdbpacket(f)[6] = Step("block", "retval")
    BY <1>1, <1>5 DEF HGdbpacket, HRun, Steps
  <2>3. Paired(TGdbpacket(f), HGdbpacket(f), Ins("gdbpacket", f))
    BY <2>1, <2>2 DEF Paired, Tells, Takes, Step
  <2>4. Sized("gdbpacket", f, TGdbpacket(f), Ins("gdbpacket", f))
    BY <1>1, <1>5, <2>1 DEF Sized, Step, Values
  <2>5. Whole("gdbpacket", TGdbpacket(f), Ins("gdbpacket", f))
    BY <1>1, <2>1 DEF Whole, Step, AnswerField
  <2>6. QED
    BY <2>3, <2>4, <2>5 DEF Fits
<1>6. QED
  BY <1>2, <1>3, <1>4, <1>5

(* Whatever call it is, its halves fit together.                           *)
LEMMA HalvesFit ==
  ASSUME NEW c \in Calls, NEW f, Fitting(c, f), Usual
  PROVE  Shaped(c, f)
<1>1. CASE c = "read"
  BY <1>1, ReadFits DEF Shaped, TScript, HScript, Ins
<1>2. CASE c = "write"
  BY <1>2, WriteFits DEF Shaped, TScript, HScript, Ins, Usual
<1>3. CASE c = "open"
  BY <1>3, OpenFits DEF Shaped, TScript, HScript, Ins
<1>4. CASE c = "close"
  BY <1>4, CloseFits DEF Shaped, TScript, HScript, Ins
<1>5. CASE c \in {"creat", "chmod"}
  BY <1>5, CreatFits
     DEF Shaped, TScript, HScript, Ins,
         TCreat, TChmod, HCreat, HChmod
<1>6. CASE c = "link"
  BY <1>6, LinkFits DEF Shaped, TScript, HScript, Ins
<1>7. CASE c \in {"unlink", "chdir", "opendir"}
  BY <1>7, UnlinkFits
     DEF Shaped, TScript, HScript, Ins,
         TUnlink, TChdir, TOpendir, HUnlink, HChdir, HOpendir
<1>8. CASE c = "lseek"
  BY <1>8, LseekFits DEF Shaped, TScript, HScript, Ins
<1>9. CASE c = "time"
  BY <1>9, TimeFits DEF Shaped, TScript, HScript, Ins
<1>10. CASE c \in {"closedir", "rewinddir"}
  BY <1>10, ClosedirFits
     DEF Shaped, TScript, HScript, Ins,
         TClosedir, TRewinddir, HClosedir, HRewinddir
<1>11. CASE c = "cdfs"
  BY <1>11, CdfsFits DEF Shaped, TScript, HScript, Ins
<1>12. CASE c = "exit"
  BY <1>12, ExitFits DEF Shaped, TScript, HScript, Ins
<1>13. CASE c = "fstat"
  BY <1>13, FstatFits DEF Shaped, TScript, HScript, Ins
<1>14. CASE c = "stat"
  BY <1>14, StatFits DEF Shaped, TScript, HScript, Ins
<1>15. CASE c = "utime"
  BY <1>15, UtimeFits DEF Shaped, TScript, HScript, Ins
<1>16. CASE c = "readdir"
  BY <1>16, ReaddirFits DEF Shaped, TScript, HScript, Ins
<1>17. CASE c = "gdbpacket"
  BY <1>17, GdbpacketFits DEF Shaped, TScript, HScript, Ins
<1>18. QED
  BY <1>1, <1>2, <1>3, <1>4, <1>5, <1>6, <1>7, <1>8, <1>9, <1>10, <1>11,
     <1>12, <1>13, <1>14, <1>15, <1>16, <1>17 DEF Calls, Number

-----------------------------------------------------------------------------
(* The arguments of a call fit it, and so does what the host may know when *)
(* it answers: that changes neither the arguments nor how many steps tell  *)
(* them.                                                                   *)
LEMMA ParamsAreValues == \A c \in Calls : Params(c) \subseteq Values
BY DEF Params, Values

(* What a half knows of the arguments fits the call, and is all that was   *)
(* asked.                                                                  *)
LEMMA ArgsFit ==
  ASSUME NEW c \in Calls, NEW a \in Args(c)
  PROVE  /\ Fitting(c, Env(c, a))
         /\ \A v \in Values : v \notin Params(c) => Env(c, a)[v] = 0
         /\ [v \in Params(c) |-> Env(c, a)[v]] = a
<1>1. a \in [Params(c) -> 0..MaxSize] /\ \A v \in Params(c) : a[v] >= Least(c, v)
  BY DEF Args
<1>2. Params(c) \subseteq Values
  BY ParamsAreValues
<1>3. MaxSize \in Nat /\ MinWrite \in Nat /\ MinusOne \in Nat /\ MinusOne > MaxSize
  BY ConsoleAssumption DEF ConsoleAssumption
<1>4. Env(c, a) \in [Values -> 0..MinusOne]
  BY <1>1, <1>2, <1>3 DEF Env
<1>5. \A v \in Params(c) : Least(c, v) \in Nat
  BY <1>3 DEF Least
<1>6. \A v \in Params(c) : Env(c, a)[v] \in Least(c, v)..MaxSize
  BY <1>1, <1>2, <1>3, <1>5 DEF Env
<1>7. Env(c, a)["silent"] = 0
  BY DEF Env, Params, Values
<1>8. c = "gdbpacket" => Env(c, a)["retval"] = 0 /\ Env(c, a)["out_size"] \in Nat
  BY <1>1, <1>2, <1>3 DEF Env, Params, Values
<1>9. c = "readdir" => Env(c, a)["found"] = 0
  BY DEF Env, Params, Values
<1>10. Fitting(c, Env(c, a))
  BY <1>3, <1>4, <1>6, <1>7, <1>8, <1>9 DEF Fitting
<1>11. [v \in Params(c) |-> Env(c, a)[v]] = a
  BY <1>1, <1>2 DEF Env
<1>12. QED
  BY <1>10, <1>11 DEF Env

(* So does what the host knows when it answers; it still tells as much.    *)
LEMMA OutcomeFits ==
  ASSUME NEW c \in Calls, NEW a \in Args(c), NEW f, Outcome(c, Env(c, a), f)
  PROVE  Fitting(c, f) /\ Ins(c, f) = Ins(c, Env(c, a))
<1>1. Fitting(c, Env(c, a))
  BY ArgsFit
<1>2. Fitting(c, f)
  BY <1>1 DEF Fitting, Outcome
<1>3. c = "utime" => f["flag"] = Env(c, a)["flag"]
  BY DEF Outcome, Params
<1>4. c = "gdbpacket" => f["in_size"] = Env(c, a)["in_size"]
  BY DEF Outcome, Params
<1>5. Ins(c, f) = Ins(c, Env(c, a))
  BY <1>3, <1>4 DEF Ins
<1>6. QED
  BY <1>2, <1>5

(* Most halves are the same whatever is known.                             *)
Variable == {"utime", "readdir", "gdbpacket"}

LEMMA FixedHalves ==
  ASSUME NEW c \in Calls \ Variable, NEW f, NEW g
  PROVE  TScript(c, f) = TScript(c, g) /\ HScript(c, f) = HScript(c, g)
BY DEF Variable, TScript, HScript, Calls, Number

(* The host reads the arguments of a call with what it knows so far, as it *)
(* would with all of them.                                                 *)
LEMMA HeardScript ==
  ASSUME NEW c \in Calls, NEW a \in Args(c), NEW e, e = Env(c, a), Usual,
         NEW p \in 1..Ins(c, e) + 1
  PROVE  /\ HScript(c, Heard(c, e, p))[p] = HScript(c, e)[p]
         /\ p <= Len(HScript(c, Heard(c, e, p)))
<1> DEFINE n == Ins(c, e)
           T == TScript(c, e)
           H == HScript(c, e)
<1>1. Fits(c, e, T, H, n)
  BY ArgsFit, HalvesFit DEF Shaped
<1>2. n \in Nat /\ Len(T) \in Nat /\ Len(H) = Len(T) + 1 /\ n <= Len(T)
  BY <1>1 DEF Fits, Paired, Whole
<1>3. CASE c \notin Variable
  BY <1>2, <1>3, FixedHalves
<1>4. CASE c = "readdir"
  <2>1. n = 1
    BY <1>4 DEF Ins
  <2>2. \A g : /\ HScript(c, g)[1] = Step("recv", "dir") /\ HScript(c, g)[2] = Step("run", "retval")
               /\ Len(HScript(c, g)) >= 3
    <3> SUFFICES ASSUME NEW g
                 PROVE  /\ HReaddir(g)[1] = Step("recv", "dir")
                        /\ HReaddir(g)[2] = Step("run", "retval")
                        /\ Len(HReaddir(g)) >= 3
      BY <1>4 DEF HScript
    <3>1. EntryFields = <<"d_off", "d_reclen", "d_type">>
      BY DEF Usual, EntryFields
    <3>2. CASE g["found"] = 0
      BY <3>2 DEF HReaddir, HRun, Steps
    <3>3. CASE g["found"] # 0
      BY <3>1, <3>3 DEF HReaddir, HRun, Steps
    <3>4. QED
      BY <3>2, <3>3
  <2>3. QED
    BY <2>1, <2>2
<1>5. CASE c = "utime"
  <2>1. \A g : /\ HUtime(g)[1] = Step("recv", "namelen") /\ HUtime(g)[2] = Step("data", "namelen")
               /\ HUtime(g)[3] = Step("recv", "flag")
               /\ Len(HUtime(g)) >= 5
    <3> SUFFICES ASSUME NEW g
                 PROVE  /\ HUtime(g)[1] = Step("recv", "namelen")
                        /\ HUtime(g)[2] = Step("data", "namelen")
                        /\ HUtime(g)[3] = Step("recv", "flag")
                        /\ Len(HUtime(g)) >= 5
      OBVIOUS
    <3>1. CASE g["flag"] = 0
      BY <3>1 DEF HUtime, HName, HReply, HRun, Steps
    <3>2. CASE g["flag"] # 0
      BY <3>2 DEF HUtime, HName, HReply, HRun, Steps
    <3>3. QED
      BY <3>1, <3>2
  <2>2. n >= 3 /\ T[3] = Step("put", "flag")
    <3>1. CASE e["flag"] = 0
      BY <1>5, <3>1 DEF Ins, TScript, TUtime, TName, TRetval, Steps
    <3>2. CASE e["flag"] # 0
      BY <1>5, <3>2 DEF Ins, TScript, TUtime, TName, TRetval, Steps
    <3>3. QED
      BY <3>1, <3>2
  <2>3. \A q \in 4..n + 1 : Heard(c, e, q)["flag"] = e["flag"]
    BY <1>2, <2>2 DEF Heard, Values
  <2>4. \A q \in 4..n + 1 : HUtime(Heard(c, e, q)) = HUtime(e)
    BY <2>3 DEF HUtime
  <2>5. \A g : HScript(c, g) = HUtime(g)
    BY <1>5 DEF HScript
  <2>6. CASE p \in 1..3
    BY <1>2, <2>1, <2>5, <2>6
  <2>7. CASE p \in 4..n + 1
    BY <1>2, <2>4, <2>5, <2>7
  <2>8. QED
    BY <1>2, <2>6, <2>7
<1>6. CASE c = "gdbpacket"
  <2>1. \A g : /\ HGdbpacket(g)[1] = Step("recv", "in_size")
               /\ HGdbpacket(g)[2] = Step("recv", "out_size")
               /\ Len(HGdbpacket(g)) >= 3
    <3> SUFFICES ASSUME NEW g
                 PROVE  /\ HGdbpacket(g)[1] = Step("recv", "in_size")
                        /\ HGdbpacket(g)[2] = Step("recv", "out_size")
                        /\ Len(HGdbpacket(g)) >= 3
      OBVIOUS
    <3>1. CASE g["in_size"] = 0
      BY <3>1 DEF HGdbpacket, HRun, Steps
    <3>2. CASE g["in_size"] # 0
      BY <3>2 DEF HGdbpacket, HRun, Steps
    <3>3. QED
      BY <3>1, <3>2
  <2>2. /\ n >= 2 /\ T[1] = Step("put", "in_size")
        /\ \A j \in 1..n : T[j] # Step("put", "retval") /\ T[j] # Step("put", "silent")
    <3>1. CASE e["in_size"] = 0
      BY <1>6, <3>1 DEF Ins, TScript, TGdbpacket, TRetval, Steps, Step
    <3>2. CASE e["in_size"] # 0
      BY <1>6, <3>2 DEF Ins, TScript, TGdbpacket, TRetval, Steps, Step
    <3>3. QED
      BY <3>1, <3>2
  <2>3. e["retval"] = 0 /\ e["silent"] = 0
    BY <1>6, ArgsFit DEF Params, Values
  <2>4. \A q \in 2..n + 1 : /\ Heard(c, e, q)["in_size"] = e["in_size"]
                            /\ Heard(c, e, q)["retval"] = e["retval"]
                            /\ Heard(c, e, q)["silent"] = e["silent"]
    BY <1>2, <2>2, <2>3 DEF Heard, Values
  <2>5. \A q \in 2..n + 1 : HGdbpacket(Heard(c, e, q)) = HGdbpacket(e)
    BY <2>4 DEF HGdbpacket
  <2>6. \A g : HScript(c, g) = HGdbpacket(g)
    BY <1>6 DEF HScript
  <2>7. CASE p = 1
    BY <1>2, <2>1, <2>6, <2>7
  <2>8. CASE p \in 2..n + 1
    BY <1>2, <2>5, <2>6, <2>8
  <2>9. QED
    BY <1>2, <2>7, <2>8
<1>7. QED
  BY <1>3, <1>4, <1>5, <1>6 DEF Variable

(* The target takes the answer with what it knows so far, as it would with *)
(* all of it, and it knows then whether the answer is over.                *)
LEMMA LearnedScript ==
  ASSUME NEW c \in Calls, NEW f, Fitting(c, f), Usual, c # "exit",
         NEW t \in Ins(c, f) + 1..Len(TScript(c, f)) + 1
  PROVE  /\ t <= Len(TScript(c, Learned(c, f, t))) <=> t <= Len(TScript(c, f))
         /\ t <= Len(TScript(c, f)) => TScript(c, Learned(c, f, t))[t] = TScript(c, f)[t]
<1> DEFINE n == Ins(c, f)
           T == TScript(c, f)
           H == HScript(c, f)
<1>1. Fits(c, f, T, H, n)
  BY HalvesFit DEF Shaped
<1>2. n \in Nat /\ Len(T) \in Nat /\ n < Len(T)
  BY <1>1 DEF Fits, Paired, Whole
<1>3. CASE c \notin Variable
  BY <1>3, FixedHalves
<1>4. CASE c = "utime"
  <2>1. Learned(c, f, t)["flag"] = f["flag"]
    BY <1>4 DEF Learned, Params, Values
  <2>2. QED
    BY <1>4, <2>1 DEF TScript, TUtime
<1>5. CASE c = "readdir"
  <2>1. n = 1
    BY <1>5 DEF Ins
  <2>2. \A g : TReaddir(g)[2] = Step("get", "found") /\ Len(TReaddir(g)) >= 2
    <3> SUFFICES ASSUME NEW g
                 PROVE  TReaddir(g)[2] = Step("get", "found") /\ Len(TReaddir(g)) >= 2
      OBVIOUS
    <3>1. CASE g["found"] = 0
      BY <3>1 DEF TReaddir, Steps
    <3>2. CASE g["found"] # 0
      BY <3>2 DEF TReaddir, Steps
    <3>3. QED
      BY <3>1, <3>2
  <2>3. \A g : TScript(c, g) = TReaddir(g)
    BY <1>5 DEF TScript
  <2>4. CASE t = 2
    BY <1>2, <2>1, <2>2, <2>3, <2>4
  <2>5. CASE t >= 3
    <3>1. Learned(c, f, t)["found"] = f["found"]
      BY <1>2, <2>1, <2>2, <2>3, <2>5 DEF Learned, Values
    <3>2. QED
      BY <2>3, <3>1 DEF TReaddir
  <2>6. QED
    BY <1>2, <2>1, <2>4, <2>5
<1>6. CASE c = "gdbpacket"
  <2>1. /\ Learned(c, f, t)["in_size"] = f["in_size"]
        /\ Learned(c, f, t)["out_size"] = f["out_size"]
    BY <1>6 DEF Learned, Params, Values
  <2>2. \A g : g["in_size"] = f["in_size"] =>
           TScript(c, g)[n + 1] = Step("get", "retval") /\ Len(TScript(c, g)) >= n + 1
    <3> SUFFICES ASSUME NEW g, g["in_size"] = f["in_size"]
                 PROVE  /\ TGdbpacket(g)[n + 1] = Step("get", "retval")
                        /\ Len(TGdbpacket(g)) >= n + 1
      BY <1>6 DEF TScript
    <3>1. CASE f["in_size"] = 0
      BY <1>6, <3>1 DEF Ins, TGdbpacket, TRetval, Steps
    <3>2. CASE f["in_size"] # 0
      BY <1>6, <3>2 DEF Ins, TGdbpacket, TRetval, Steps
    <3>3. QED
      BY <3>1, <3>2
  <2>3. CASE t = n + 1
    BY <1>2, <2>1, <2>2, <2>3
  <2>4. CASE t >= n + 2
    <3>1. Learned(c, f, t)["retval"] = f["retval"]
      BY <1>2, <2>2, <2>4 DEF Learned, Values
    <3>2. QED
      BY <1>6, <2>1, <3>1 DEF TScript, TGdbpacket
  <2>5. QED
    BY <1>2, <2>3, <2>4
<1>7. QED
  BY <1>3, <1>4, <1>5, <1>6 DEF Variable

-----------------------------------------------------------------------------
(* What the steps of a call's two halves are, and what each half knows     *)
(* before them; e are its arguments and f what the host answers with.      *)
Ends(c, e) ==
    /\ Ins(c, e) \in Nat /\ Len(TScript(c, e)) \in Nat
    /\ c = "exit" => Ins(c, e) = 1 /\ Len(TScript(c, e)) = 1
    /\ c # "exit" => Ins(c, e) < Len(TScript(c, e))

PutStep(c, e, k) ==
    LET field == TScript(c, e)[k].field IN
    /\ TScript(c, e)[k].do = "put"
    /\ HScript(c, Heard(c, e, k))[k].do = "recv"
    /\ HScript(c, Heard(c, e, k))[k].field = field
    /\ Said(c, e, k) = Word(field, ValueOf(e, field))
    /\ Heard(c, e, k + 1) = Learn(Heard(c, e, k), field, ValueOf(e, field))
SendStep(c, e, k) ==
    LET field == TScript(c, e)[k].field IN
    /\ TScript(c, e)[k].do = "send"
    /\ HScript(c, Heard(c, e, k))[k].do = "data"
    /\ HScript(c, Heard(c, e, k))[k].field = field
    /\ Said(c, e, k) = Block(e[field])
    /\ Heard(c, e, k + 1) = Heard(c, e, k)
    /\ Heard(c, e, k)[field] = e[field] /\ e[field] # 0
    /\ c \notin {"exit", "read"}
    /\ k < Len(TScript(c, e))

Tellable(c, e) ==
    /\ Ends(c, e)
    /\ \A k \in 1..Ins(c, e) : PutStep(c, e, k) \/ SendStep(c, e, k)
    /\ \A p \in 1..Ins(c, e) + 1 : /\ p <= Len(HScript(c, Heard(c, e, p)))
                                   /\ Heard(c, e, p) \in [Values -> 0..MinusOne]
    /\ HScript(c, e)[Ins(c, e) + 1].do = "run"
    /\ Heard(c, e, 1) = Unknown
    /\ Heard(c, e, Ins(c, e) + 1) = e

ReadSteps(c, e) == c = "read" =>
    /\ Ins(c, e) = 2 /\ Len(TScript(c, e)) = 4
    /\ TScript(c, e)[2].do = "put"
    /\ TScript(c, e)[3] = Step("load", "count") /\ TScript(c, e)[4] = Step("get", "retval")

(* Before the outcome is there the target can only wait for it, or find    *)
(* that it has asked for nothing.                                          *)
Expects(c, e) == c # "exit" =>
    LET step == TScript(c, e)[Ins(c, e) + 1] IN
    /\ step.do \in {"get", "load"}
    /\ step.do = "load" /\ e[step.field] = 0 => c = "read"

(* What is known of a call is a number below 2^32 for each value.          *)
LEMMA EnvTypes ==
  ASSUME NEW c, NEW f \in [Values -> 0..MinusOne], NEW t
  PROVE  /\ Heard(c, f, t) \in [Values -> 0..MinusOne]
         /\ Learned(c, f, t) \in [Values -> 0..MinusOne]
         /\ Unknown \in [Values -> 0..MinusOne]
<1>1. MinusOne \in Nat
  BY ConsoleAssumption DEF ConsoleAssumption
<1>2. QED
  BY <1>1 DEF Heard, Learned, Unknown

(* Every step that tells an argument has its counterpart, which knows the  *)
(* size of a block by then.                                                *)
LEMMA TellSteps ==
  ASSUME NEW c \in Calls, NEW a \in Args(c), NEW e, e = Env(c, a), Usual
  PROVE  Tellable(c, e) /\ ReadSteps(c, e) /\ Expects(c, e)
<1> DEFINE n == Ins(c, e)
           T == TScript(c, e)
           H == HScript(c, e)
<1>1. Fitting(c, e) /\ Fits(c, e, T, H, n)
  BY ArgsFit, HalvesFit DEF Shaped
<1>2. Paired(T, H, n) /\ Sized(c, e, T, n) /\ Whole(c, T, n)
  BY <1>1 DEF Fits
<1>3. e \in [Values -> 0..MinusOne]
  BY <1>1 DEF Fitting
<1>4. Ends(c, e)
  BY <1>2 DEF Ends, Paired, Whole
<1>5. \A p \in 1..n + 1 : /\ HScript(c, Heard(c, e, p))[p] = H[p]
                          /\ p <= Len(HScript(c, Heard(c, e, p)))
                          /\ Heard(c, e, p) \in [Values -> 0..MinusOne]
  <2> SUFFICES ASSUME NEW p \in 1..n + 1
               PROVE  /\ HScript(c, Heard(c, e, p))[p] = H[p]
                      /\ p <= Len(HScript(c, Heard(c, e, p)))
                      /\ Heard(c, e, p) \in [Values -> 0..MinusOne]
    OBVIOUS
  <2>1. Heard(c, e, p) \in [Values -> 0..MinusOne]
    BY <1>3, EnvTypes
  <2>2. QED
    BY <2>1, HeardScript
<1>6. ASSUME NEW k \in 1..n, T[k] = Step("put", T[k].field)
      PROVE  PutStep(c, e, k)
  <2>1. Heard(c, e, k + 1) = Learn(Heard(c, e, k), T[k].field, ValueOf(e, T[k].field))
    <3>1. k \in Nat /\ 1..(k + 1) - 1 = (1..k - 1) \cup {k}
      BY <1>4 DEF Ends
    <3>2. \A v \in Values : Heard(c, e, k + 1)[v] =
            IF v = T[k].field THEN e[v] ELSE Heard(c, e, k)[v]
      BY <1>6, <3>1 DEF Heard, Step
    <3>3. QED
      BY <3>2 DEF Heard, Learn, ValueOf
  <2>2. HScript(c, Heard(c, e, k))[k] = H[k] /\ k # 0
    BY <1>4, <1>5 DEF Ends
  <2>3. Tells(T[k], H[k])
    BY <1>2 DEF Paired
  <2>4. T[k].do = "put" /\ H[k].do = "recv" /\ H[k].field = T[k].field
    BY <1>6, <2>3 DEF Tells, Step
  <2>5. Said(c, e, k) = Word(T[k].field, ValueOf(e, T[k].field))
    BY <2>2, <2>4 DEF Said
  <2>6. QED
    BY <2>1, <2>2, <2>4, <2>5 DEF PutStep
<1>7. ASSUME NEW k \in 1..n, T[k] = Step("send", T[k].field)
      PROVE  SendStep(c, e, k)
  <2>1. Heard(c, e, k + 1) = Heard(c, e, k)
    <3>1. k \in Nat /\ 1..(k + 1) - 1 = (1..k - 1) \cup {k}
      BY <1>4 DEF Ends
    <3>2. \A v \in Values : Heard(c, e, k + 1)[v] = Heard(c, e, k)[v]
      BY <1>7, <3>1 DEF Heard, Step
    <3>3. QED
      BY <3>2 DEF Heard
  <2>2. /\ T[k].field \in Values /\ e[T[k].field] # 0
        /\ \E j \in 1..k - 1 : T[j] = Step("put", T[k].field)
    BY <1>2, <1>7 DEF Sized, Step
  <2>3. Heard(c, e, k)[T[k].field] = e[T[k].field]
    BY <2>2 DEF Heard
  <2>4. c # "exit" /\ c # "read"
    <3>1. c = "exit" => k = 1 /\ 1..k - 1 = {}
      BY <1>4 DEF Ends
    <3>2. c = "read" => k \in {1, 2} /\ T[2].do = "put"
      BY <1>2 DEF Whole, Step
    <3>3. k = 1 => 1..k - 1 = {}
      OBVIOUS
    <3>4. QED
      BY <1>7, <2>2, <3>1, <3>2, <3>3 DEF Step
  <2>5. HScript(c, Heard(c, e, k))[k] = H[k] /\ k # 0 /\ k < Len(T)
    BY <1>4, <1>5, <2>4 DEF Ends
  <2>6. Tells(T[k], H[k])
    BY <1>2 DEF Paired
  <2>7. T[k].do = "send" /\ H[k].do = "data" /\ H[k].field = T[k].field
    BY <1>7, <2>6 DEF Tells, Step
  <2>8. Said(c, e, k) = Block(e[T[k].field])
    BY <2>5, <2>7 DEF Said
  <2>9. QED
    BY <2>1, <2>2, <2>3, <2>4, <2>5, <2>7, <2>8 DEF SendStep
<1>8. \A k \in 1..n : PutStep(c, e, k) \/ SendStep(c, e, k)
  BY <1>2, <1>6, <1>7 DEF Paired, Tells
<1>9. Heard(c, e, 1) = Unknown
  BY DEF Heard, Unknown
<1>10. Heard(c, e, n + 1) = e
  <2>1. \A v \in Values : Heard(c, e, n + 1)[v] = e[v]
    <3> SUFFICES ASSUME NEW v \in Values PROVE Heard(c, e, n + 1)[v] = e[v]
      OBVIOUS
    <3>1. (n + 1) - 1 = n
      BY <1>4 DEF Ends
    <3>2. CASE v \in Params(c)
      BY <1>2, <3>1, <3>2 DEF Heard, Whole
    <3>3. CASE v \notin Params(c)
      BY <3>3, ArgsFit DEF Heard
    <3>4. QED
      BY <3>2, <3>3
  <2>2. QED
    BY <1>3, <2>1 DEF Heard
<1>11. Tellable(c, e)
  BY <1>2, <1>4, <1>5, <1>8, <1>9, <1>10 DEF Tellable, Paired
<1>12. ReadSteps(c, e)
  BY <1>2 DEF ReadSteps, Whole, Step
<1>13. Expects(c, e)
  <2> SUFFICES ASSUME c # "exit"
               PROVE  LET step == T[n + 1] IN
                      /\ step.do \in {"get", "load"}
                      /\ step.do = "load" /\ e[step.field] = 0 => c = "read"
    BY DEF Expects
  <2>1. n + 1 \in n + 1..Len(T)
    BY <1>4 DEF Ends
  <2>2. Takes(T[n + 1], H[(n + 1) + 1])
    BY <1>2, <2>1 DEF Paired
  <2>3. T[n + 1].do = "load" /\ e[T[n + 1].field] = 0 => c = "read"
    BY <1>2, <2>1 DEF Sized
  <2>4. QED
    BY <2>2, <2>3 DEF Takes, Step
<1>14. QED
  BY <1>11, <1>12, <1>13


(* A step of the answer that goes with step t of the target's half.        *)
GetStep(c, f, t) ==
    LET field == TScript(c, f)[t].field IN
    /\ TScript(c, Learned(c, f, t))[t].do = "get"
    /\ TScript(c, Learned(c, f, t))[t].field = field
    /\ HScript(c, f)[t + 1].do = "send"
    /\ HScript(c, f)[t + 1].field = field
    /\ Learned(c, f, t + 1) = Learn(Learned(c, f, t), field, ValueOf(f, field))
LoadStep(c, f, t) ==
    LET field == TScript(c, f)[t].field IN
    /\ TScript(c, Learned(c, f, t))[t].do = "load"
    /\ TScript(c, Learned(c, f, t))[t].field = field
    /\ HScript(c, f)[t + 1].do = "block"
    /\ HScript(c, f)[t + 1].field = field
    /\ Learned(c, f, t + 1) = Learned(c, f, t)
    /\ Learned(c, f, t)[field] = f[field]
    /\ f[field] = 0 => c = "read" /\ t = 3

Answerable(c, e, f) ==
    LET n == Ins(c, e)
        last == Len(TScript(c, f))
    IN /\ n \in Nat /\ last \in Nat /\ n < last
       /\ Len(HScript(c, f)) = last + 1
       /\ \A t \in n + 1..last : GetStep(c, f, t) \/ LoadStep(c, f, t)
       /\ \A t \in n + 1..last + 1 :
             /\ t <= Len(TScript(c, Learned(c, f, t))) <=> t <= last
             /\ Learned(c, f, t) \in [Values -> 0..MinusOne]
       /\ Learned(c, f, n + 1) = e
       /\ Answer(c, Learned(c, f, last + 1)) = Answer(c, f)
       /\ c = "read" => /\ n = 2 /\ last = 4
                        /\ LoadStep(c, f, 3) /\ TScript(c, f)[3].field = "count"
                        /\ GetStep(c, f, 4)

(* Every step of an answer has its counterpart, which knows the size of a  *)
(* block by then.                                                          *)
LEMMA AnswerSteps ==
  ASSUME NEW c \in Calls \ {"exit"}, NEW a \in Args(c), NEW e, e = Env(c, a), Usual,
         NEW f, Outcome(c, e, f)
  PROVE  Answerable(c, e, f)
<1> DEFINE n == Ins(c, e)
           T == TScript(c, f)
           H == HScript(c, f)
<1>1. Fitting(c, f) /\ Ins(c, f) = n
  BY OutcomeFits
<1>2. Fits(c, f, T, H, n)
  BY <1>1, HalvesFit DEF Shaped
<1>3. Paired(T, H, n) /\ Sized(c, f, T, n) /\ Whole(c, T, n)
  BY <1>2 DEF Fits
<1>4. f \in [Values -> 0..MinusOne]
  BY <1>1 DEF Fitting
<1>5. n \in Nat /\ Len(T) \in Nat /\ n < Len(T) /\ Len(H) = Len(T) + 1
  BY <1>3 DEF Paired, Whole
<1>6. \A t \in n + 1..Len(T) + 1 :
         /\ t <= Len(TScript(c, Learned(c, f, t))) <=> t <= Len(T)
         /\ t <= Len(T) => TScript(c, Learned(c, f, t))[t] = T[t]
         /\ Learned(c, f, t) \in [Values -> 0..MinusOne]
  <2> SUFFICES ASSUME NEW t \in n + 1..Len(T) + 1
               PROVE  /\ t <= Len(TScript(c, Learned(c, f, t))) <=> t <= Len(T)
                      /\ t <= Len(T) => TScript(c, Learned(c, f, t))[t] = T[t]
                      /\ Learned(c, f, t) \in [Values -> 0..MinusOne]
    OBVIOUS
  <2>1. Learned(c, f, t) \in [Values -> 0..MinusOne]
    BY <1>4, EnvTypes
  <2>2. t \in Ins(c, f) + 1..Len(TScript(c, f)) + 1
    BY <1>1
  <2>3. QED
    BY <1>1, <2>1, <2>2, LearnedScript
<1>7. ASSUME NEW t \in n + 1..Len(T), T[t] = Step("get", T[t].field)
      PROVE  GetStep(c, f, t)
  <2>1. Learned(c, f, t + 1) = Learn(Learned(c, f, t), T[t].field, ValueOf(f, T[t].field))
    <3>1. t \in Nat /\ 1..(t + 1) - 1 = (1..t - 1) \cup {t}
      BY <1>5
    <3>2. \A v \in Values : Learned(c, f, t + 1)[v] =
            IF v = T[t].field THEN f[v] ELSE Learned(c, f, t)[v]
      BY <1>7, <3>1 DEF Learned, Step
    <3>3. QED
      BY <3>2 DEF Learned, Learn, ValueOf
  <2>2. TScript(c, Learned(c, f, t))[t] = T[t]
    BY <1>5, <1>6
  <2>3. Takes(T[t], H[t + 1])
    BY <1>3 DEF Paired
  <2>4. T[t].do = "get" /\ H[t + 1].do = "send" /\ H[t + 1].field = T[t].field
    BY <1>7, <2>3 DEF Takes, Step
  <2>5. QED
    BY <2>1, <2>2, <2>4 DEF GetStep
<1>8. ASSUME NEW t \in n + 1..Len(T), T[t] = Step("load", T[t].field)
      PROVE  LoadStep(c, f, t)
  <2>1. Learned(c, f, t + 1) = Learned(c, f, t)
    <3>1. t \in Nat /\ 1..(t + 1) - 1 = (1..t - 1) \cup {t}
      BY <1>5
    <3>2. \A v \in Values : Learned(c, f, t + 1)[v] = Learned(c, f, t)[v]
      BY <1>8, <3>1 DEF Learned, Step
    <3>3. QED
      BY <3>2 DEF Learned
  <2>2. TScript(c, Learned(c, f, t))[t] = T[t]
    BY <1>5, <1>6
  <2>3. Takes(T[t], H[t + 1])
    BY <1>3 DEF Paired
  <2>4. T[t].do = "load" /\ H[t + 1].do = "block" /\ H[t + 1].field = T[t].field
    BY <1>8, <2>3 DEF Takes, Step
  <2>5. /\ T[t].field \in Values
        /\ \/ T[t].field \in Params(c)
           \/ \E j \in n + 1..t - 1 : T[j] = Step("get", T[t].field)
        /\ f[T[t].field] = 0 => c = "read"
    BY <1>3, <2>4 DEF Sized
  <2>6. Learned(c, f, t)[T[t].field] = f[T[t].field]
    BY <1>5, <2>5 DEF Learned
  <2>7. c = "read" => t = 3
    BY <1>3, <1>5, <2>4 DEF Whole, Step
  <2>8. QED
    BY <2>1, <2>2, <2>4, <2>5, <2>6, <2>7 DEF LoadStep
<1>9. \A t \in n + 1..Len(T) : GetStep(c, f, t) \/ LoadStep(c, f, t)
  BY <1>3, <1>7, <1>8 DEF Paired, Takes
<1>10. Learned(c, f, n + 1) = e
  <2>1. \A j \in 1..n : T[j].do # "get"
    <3> SUFFICES ASSUME NEW j \in 1..n PROVE T[j].do # "get"
      OBVIOUS
    <3>1. Tells(T[j], H[j])
      BY <1>3 DEF Paired
    <3>2. QED
      BY <3>1 DEF Tells, Step
  <2>2. \A v \in Values : Learned(c, f, n + 1)[v] = e[v]
    <3> SUFFICES ASSUME NEW v \in Values PROVE Learned(c, f, n + 1)[v] = e[v]
      OBVIOUS
    <3>1. (n + 1) - 1 = n
      BY <1>5
    <3>2. CASE v \in Params(c)
      BY <3>2 DEF Learned, Outcome
    <3>3. CASE v \notin Params(c)
      BY <2>1, <3>1, <3>3, ArgsFit DEF Learned, Step
    <3>4. QED
      BY <3>2, <3>3
  <2>3. QED
    BY <2>2 DEF Learned, Env
<1>11. Answer(c, Learned(c, f, Len(T) + 1)) = Answer(c, f)
  <2>1. (Len(T) + 1) - 1 = Len(T)
    BY <1>5
  <2>2. c # "cdfs" => Learned(c, f, Len(T) + 1)[AnswerField(c)] = f[AnswerField(c)]
    BY <1>3, <1>5, <2>1 DEF Whole, Learned, AnswerField, Values
  <2>3. QED
    BY <2>2 DEF Answer, AnswerField
<1>12. c = "read" => /\ n = 2 /\ Len(T) = 4
                     /\ LoadStep(c, f, 3) /\ T[3].field = "count"
                     /\ GetStep(c, f, 4)
  BY <1>3, <1>7, <1>8 DEF Whole, Step
<1>13. QED
  BY <1>5, <1>6, <1>9, <1>10, <1>11, <1>12 DEF Answerable

(* A call that gdb's socket leaves without an answer is over for the host. *)
LEMMA SilentEnds ==
  ASSUME NEW a \in Args("gdbpacket"), NEW e, e = Env("gdbpacket", a), Usual,
         NEW f, f["in_size"] = e["in_size"], f["silent"] = 1
  PROVE  Len(HScript("gdbpacket", f)) = Ins("gdbpacket", e) + 1
<1>1. HScript("gdbpacket", f) = HGdbpacket(f)
  BY DEF HScript
<1>2. CASE f["in_size"] = 0
  <2>1. Len(HGdbpacket(f)) = 3
    BY <1>2 DEF HGdbpacket, HRun, Steps
  <2>2. QED
    BY <1>1, <1>2, <2>1 DEF Ins
<1>3. CASE f["in_size"] # 0
  <2>1. Len(HGdbpacket(f)) = 4
    BY <1>3 DEF HGdbpacket, HRun, Steps
  <2>2. QED
    BY <1>1, <1>3, <2>1 DEF Ins
<1>4. QED
  BY <1>2, <1>3

(* exit has no answer.                                                     *)
LEMMA ExitSteps == \A f : Len(HScript("exit", f)) = 2
BY DEF HScript, HExit, HRun

(* Every call is entered as the call it is, and handled as that.           *)
LEMMA NumbersMatch ==
  ASSUME NEW c \in Calls
  PROVE  Entered(c) = c /\ Handler(Number[c]) = c
BY DEF Calls, Number, Handler, Entered, ReqCmd, Dispatch, ProgramNumber, SyscallTable

-----------------------------------------------------------------------------
(***************************************************************************)
(* The invariant.  A call goes through four parts: the target tells it,    *)
(* the host hears it, carries it out, and answers; then the program goes   *)
(* on, and may make the next call while the host still waits for the last  *)
(* echo of the one before.                                                 *)
(***************************************************************************)
(* The latest call, its arguments, how many steps tell them, and whether   *)
(* its answer begins with a block that is left out.                        *)
C == asked[1]
E == Env(asked[1], asked[2])
N == Ins(C, E)
Skips == C = "read" /\ E["count"] = 0

Asked == \E c \in Calls : \E a \in Args(c) : asked = <<c, a>>

(* The target has told q steps of the call.                                *)
Telling(q) ==
    \/ /\ tcall = C /\ ~twait /\ tenv = E
       /\ tpc = q + 1 /\ q < Len(TScript(C, E))
    \/ /\ tcall = C /\ ~twait /\ tenv = E
       /\ Skips /\ q = 2 /\ tpc = 4
    \/ /\ tcall = C /\ twait /\ tenv = E
       /\ tpc = q /\ q > 0 /\ TScript(C, E)[q].do = "send"
    \/ /\ tcall = "exited" /\ ~twait /\ tenv = Unknown /\ tpc = 1
       /\ C = "exit" /\ q = 1

(* The host waits for a call, or, after the last step of one, for the      *)
(* item.                                                                   *)
Free == hcall = "loop" /\ hwait = "none" /\ hpc = 1 /\ henv = Unknown
Closing(item) ==
    /\ hcall \in Calls \ {"exit"}
    /\ henv \in [Values -> 0..MinusOne]
    /\ hpc = Len(HScript(hcall, henv)) /\ hpc \in Nat \ {0}
    /\ \/ hwait = "echo" /\ item = Word(HField, ValueOf(henv, HField))
       \/ hwait = "answer" /\ item = Good

(* The items of steps p to q; and a block among them is the last, and the  *)
(* target is waiting for the answer to it.                                 *)
Items(c, e, p, q) == [i \in 1..q - p + 1 |-> Said(c, e, p + i - 1)]
InTurn(p, q) == \A k \in 1..q : k >= p /\ TScript(C, E)[k].do = "send" => k = q /\ twait

Behind(q) ==
    /\ Telling(q) /\ InTurn(1, q)
    /\ toTarget = <<>>
    /\ \/ Free /\ toHost = Items(C, E, 0, q)
       \/ \E item : Closing(item) /\ toHost = <<item>> \o Items(C, E, 0, q)

(* The host is at step p.                                                  *)
Hearing(p, q) ==
    /\ Telling(q) /\ InTurn(p, q)
    /\ hcall = C /\ hwait = "none" /\ hpc = p /\ henv = Heard(C, E, p)
    /\ toHost = Items(C, E, p, q)
    /\ toTarget = IF twait /\ p = q + 1 THEN <<Good>> ELSE <<>>

(* The host has carried the call out, and answers it.  The target is at    *)
(* the step before the host's, or still waits for the answer to its last   *)
(* block; where there is an empty block either may be past it already.     *)
Late == /\ tcall = C /\ twait /\ tenv = E
        /\ tpc = N /\ N > 0 /\ TScript(C, E)[N].do = "send"
OnTime(t) == /\ tcall = C /\ ~twait /\ tpc = t
             /\ tenv = Learned(C, henv, t)

Answering ==
    /\ done = 1 /\ executed = asked /\ C # "exit"
    /\ result = Answer(C, henv)
    /\ Outcome(C, E, henv)
    /\ hcall = C /\ hpc \in N + 2..Len(HScript(C, henv))

(* The host is about to send an item, has sent it, or has still to read    *)
(* the target's reply to it.                                               *)
Due == /\ hwait = "none"
       /\ toHost = <<>>
       /\ \/ Late /\ hpc = N + 2 /\ toTarget = <<Good>>
          \/ OnTime(hpc - 1) /\ toTarget = <<>>
          \/ Skips /\ hpc = 4 /\ OnTime(4) /\ toTarget = <<>>
          \/ Skips /\ hpc = 5 /\ OnTime(3) /\ toTarget = <<>>

Exchange(item, reply) ==
    LET step == HScript(C, henv)[hpc] IN
    \/ /\ hwait = "echo" /\ step.do = "send"
       /\ item = Word(step.field, ValueOf(henv, step.field)) /\ reply = item
    \/ /\ hwait = "answer" /\ step.do = "block" /\ henv[step.field] # 0
       /\ item = Block(henv[step.field]) /\ reply = Good
Sent == \E item, reply :
    /\ Exchange(item, reply)
    /\ toHost = <<>>
    /\ \/ Late /\ hpc = N + 2 /\ toTarget = <<Good, item>>
       \/ OnTime(hpc - 1) /\ toTarget = <<item>>
       \/ Skips /\ hpc = 5 /\ OnTime(3) /\ toTarget = <<item>>
Taken == \E item, reply :
    /\ Exchange(item, reply)
    /\ hpc < Len(HScript(C, henv))
    /\ OnTime(hpc)
    /\ toHost = <<reply>>
    /\ toTarget = <<>>

(* Between two calls; for ever waiting for an answer of gdb; and after the *)
(* program has ended.                                                      *)
Resting == /\ tcall = "idle" /\ tpc = 1 /\ tenv = Unknown /\ ~twait
           /\ toTarget = <<>>
           /\ \/ Free /\ toHost = <<>>
              \/ \E item : Closing(item) /\ toHost = <<item>>

Stuck == /\ done = 1 /\ C = "gdbpacket"
         /\ Free
         /\ toHost = <<>>
         /\ \/ Late /\ toTarget = <<Good>>
            \/ tcall = C /\ ~twait /\ tenv = E /\ tpc = N + 1 /\ toTarget = <<>>

Over == /\ tcall = "exited" /\ tpc = 1 /\ tenv = Unknown /\ ~twait
        /\ hcall = "gone" /\ hpc = 1 /\ henv = Unknown /\ hwait = "none"
        /\ toHost = <<>> /\ toTarget = <<>>

Plain == /\ gdStatus \in {0, 2} /\ twait \in BOOLEAN
         /\ gdb \in {"none", "unbound", "listening", "connected", "lost", "closed"}

Stage == \/ Resting
         \/ Asked /\ done = 0 /\ \E q \in 0..N : Behind(q)
         \/ Asked /\ done = 0 /\ \E q \in 0..N : \E p \in 1..q + 1 : Hearing(p, q)
         \/ Asked /\ Answering /\ Due
         \/ Asked /\ Answering /\ Sent
         \/ Asked /\ Answering /\ Taken
         \/ Asked /\ Stuck
         \/ Over
IInv == Plain /\ Stage

-----------------------------------------------------------------------------
(* Lines.                                                                  *)
AreItems(line, c, e, p, n) ==
    /\ line \in Seq({Said(c, e, k) : k \in Nat})
    /\ Len(line) = n
    /\ \A i \in 1..n : line[i] = Said(c, e, p + i - 1)

(* The items of some steps are a sequence of as many.                      *)
LEMMA ItemsSeq ==
  ASSUME NEW c, NEW e, NEW p \in Nat, NEW q \in Int, p <= q + 1
  PROVE  AreItems(Items(c, e, p, q), c, e, p, q - p + 1)
<1> DEFINE S == {Said(c, e, k) : k \in Nat}
<1>1. q - p + 1 \in Nat /\ \A i \in 1..q - p + 1 : p + i - 1 \in Nat
  OBVIOUS
<1>2. Items(c, e, p, q) \in [1..q - p + 1 -> S]
  BY <1>1 DEF Items
<1>3. Items(c, e, p, q) \in Seq(S)
  BY <1>1, <1>2, SeqDef
<1>4. Len(Items(c, e, p, q)) = q - p + 1
  BY <1>1, <1>2, <1>3, LenProperties
<1>5. QED
  BY <1>3, <1>4 DEF AreItems, Items

(* There are none before the first step is done.                           *)
LEMMA NoItems ==
  ASSUME NEW c, NEW e, NEW q \in Nat
  PROVE  Items(c, e, q + 1, q) = <<>>
<1>1. q + 1 \in Nat /\ q \in Int /\ q + 1 <= q + 1 /\ q - (q + 1) + 1 = 0
  OBVIOUS
<1>2. AreItems(Items(c, e, q + 1, q), c, e, q + 1, q - (q + 1) + 1)
  BY <1>1, ItemsSeq
<1>3. QED
  BY <1>1, <1>2, EmptySeq DEF AreItems

(* One more step is one more item.                                         *)
LEMMA ItemsAppend ==
  ASSUME NEW c, NEW e, NEW p \in Nat, NEW q \in Nat, p <= q + 1
  PROVE  Append(Items(c, e, p, q), Said(c, e, q + 1)) = Items(c, e, p, q + 1)
<1> DEFINE S == {Said(c, e, k) : k \in Nat}
           L == Items(c, e, p, q)
           M == Items(c, e, p, q + 1)
<1>1. /\ L \in Seq(S) /\ Len(L) = q - p + 1
      /\ \A i \in 1..q - p + 1 : L[i] = Said(c, e, p + i - 1)
  <2>1. q \in Int /\ p <= q + 1
    OBVIOUS
  <2>2. AreItems(L, c, e, p, q - p + 1)
    BY <2>1, ItemsSeq
  <2>3. QED
    BY <2>2 DEF AreItems
<1>2. /\ M \in Seq(S) /\ Len(M) = q - p + 2
      /\ \A i \in 1..q - p + 2 : M[i] = Said(c, e, p + i - 1)
  <2>1. q + 1 \in Int /\ p <= (q + 1) + 1 /\ (q + 1) - p + 1 = q - p + 2
    OBVIOUS
  <2>2. AreItems(M, c, e, p, (q + 1) - p + 1)
    BY <2>1, ItemsSeq
  <2> HIDE DEF S, M
  <2>3. QED
    BY <2>1, <2>2 DEF AreItems, S
<1>3. Said(c, e, q + 1) \in S
  OBVIOUS
<1> HIDE DEF S, L, M
<1>4. /\ Append(L, Said(c, e, q + 1)) \in Seq(S)
      /\ Len(Append(L, Said(c, e, q + 1))) = q - p + 2
      /\ \A i \in 1..q - p + 1 : Append(L, Said(c, e, q + 1))[i] = L[i]
      /\ Append(L, Said(c, e, q + 1))[q - p + 2] = Said(c, e, q + 1)
  BY <1>1, <1>3, AppendProperties
<1>5. \A i \in 1..q - p + 2 : Append(L, Said(c, e, q + 1))[i] = M[i]
  <2> SUFFICES ASSUME NEW i \in 1..q - p + 2
               PROVE  Append(L, Said(c, e, q + 1))[i] = M[i]
    OBVIOUS
  <2>1. CASE i = q - p + 2
    <3>1. p + i - 1 = q + 1
      BY <2>1
    <3>2. QED
      BY <1>2, <1>4, <2>1, <3>1
  <2>2. CASE i # q - p + 2
    BY <1>1, <1>2, <1>4, <2>2
  <2>3. QED
    BY <2>1, <2>2
<1>6. Append(L, Said(c, e, q + 1)) = M
  BY <1>2, <1>4, <1>5, SeqEqual
<1>7. QED
  BY <1>6 DEF L, M

(* The item of the first step is read first.                               *)
LEMMA ItemsHead ==
  ASSUME NEW c, NEW e, NEW p \in Nat, NEW q \in Nat, p <= q
  PROVE  /\ Items(c, e, p, q) # <<>>
         /\ Head(Items(c, e, p, q)) = Said(c, e, p)
         /\ Tail(Items(c, e, p, q)) = Items(c, e, p + 1, q)
<1> DEFINE S == {Said(c, e, k) : k \in Nat}
           L == Items(c, e, p, q)
           M == Items(c, e, p + 1, q)
<1>1. /\ L \in Seq(S) /\ Len(L) = q - p + 1
      /\ \A i \in 1..q - p + 1 : L[i] = Said(c, e, p + i - 1)
  <2>1. q \in Int /\ p <= q + 1
    OBVIOUS
  <2>2. AreItems(L, c, e, p, q - p + 1)
    BY <2>1, ItemsSeq
  <2>3. QED
    BY <2>2 DEF AreItems
<1>2. /\ M \in Seq(S) /\ Len(M) = q - p
      /\ \A i \in 1..q - p : M[i] = Said(c, e, p + i)
  <2>1. p + 1 \in Nat /\ q \in Int /\ p + 1 <= q + 1 /\ q - (p + 1) + 1 = q - p
    OBVIOUS
  <2>2. AreItems(M, c, e, p + 1, q - (p + 1) + 1)
    BY <2>1, ItemsSeq
  <2> HIDE DEF S, M
  <2>3. ASSUME NEW i \in 1..q - p PROVE M[i] = Said(c, e, p + i)
    <3>1. i \in 1..q - (p + 1) + 1 /\ (p + 1) + i - 1 = p + i
      OBVIOUS
    <3>2. M[i] = Said(c, e, (p + 1) + i - 1)
      BY <2>2, <3>1 DEF AreItems
    <3>3. QED
      BY <3>1, <3>2
  <2>4. QED
    BY <2>1, <2>2, <2>3 DEF AreItems, S
<1> HIDE DEF S, L, M
<1>3. L # <<>> /\ L[1] = Said(c, e, p)
  BY <1>1, EmptySeq
<1>4. /\ Tail(L) \in Seq(S) /\ Len(Tail(L)) = q - p
      /\ \A i \in 1..q - p : Tail(L)[i] = L[i + 1]
      /\ Head(L) = L[1]
  BY <1>1, <1>3, HeadTailProperties
<1>5. \A i \in 1..q - p : Tail(L)[i] = M[i]
  <2> SUFFICES ASSUME NEW i \in 1..q - p PROVE Tail(L)[i] = M[i]
    OBVIOUS
  <2>1. i + 1 \in 1..q - p + 1 /\ p + (i + 1) - 1 = p + i
    OBVIOUS
  <2>2. QED
    BY <1>1, <1>2, <1>4, <2>1
<1>6. Tail(L) = M
  BY <1>2, <1>4, <1>5, SeqEqual
<1>7. QED
  BY <1>3, <1>4, <1>6 DEF L, M

-----------------------------------------------------------------------------
(* What holds of the latest call as long as it is that.                    *)
LEMMA Kept ==
  ASSUME asked' = asked
  PROVE  C' = C /\ E' = E /\ N' = N /\ Skips' = Skips /\ Asked' = Asked
BY DEF C, E, N, Skips, Asked

(* The states between calls are not the names of calls.                    *)
LEMMA NotCalls == Calls \cap {"idle", "exited", "loop", "gone"} = {} /\ "exit" \in Calls
BY DEF Calls, Number

(* A call that was made has halves that fit together.                      *)
LEMMA Made ==
  ASSUME Asked, Usual
  PROVE  /\ C \in Calls /\ C # "idle" /\ C # "exited" /\ C # "loop" /\ C # "gone"
         /\ Tellable(C, E) /\ ReadSteps(C, E) /\ Expects(C, E)
         /\ E \in [Values -> 0..MinusOne]
         /\ <<C, [v \in Params(C) |-> E[v]]>> = asked
<1>0. PICK c \in Calls : \E a \in Args(c) : asked = <<c, a>>
  BY DEF Asked
<1>1. PICK a \in Args(c) : asked = <<c, a>>
  BY <1>0
<1>2. C = c /\ E = Env(c, a)
  BY <1>1 DEF C, E
<1>3. Tellable(C, E) /\ ReadSteps(C, E) /\ Expects(C, E)
  BY <1>2, TellSteps
<1>4. Fitting(C, E) /\ [v \in Params(C) |-> E[v]] = a
  BY <1>2, ArgsFit
<1>5. QED
  BY <1>1, <1>2, <1>3, <1>4, NotCalls DEF Fitting

(* And an answer that fits.                                                *)
LEMMA MadeAnswerable ==
  ASSUME Asked, Usual, C # "exit", NEW f, Outcome(C, E, f)
  PROVE  Answerable(C, E, f)
<1>0. PICK c \in Calls : \E a \in Args(c) : asked = <<c, a>>
  BY DEF Asked
<1>1. PICK a \in Args(c) : asked = <<c, a>>
  BY <1>0
<1>2. C = c /\ E = Env(c, a)
  BY <1>1 DEF C, E
<1>3. QED
  BY <1>2, AnswerSteps

(* The target's steps while it tells the call.                             *)
Quiet == UNCHANGED history /\ tcall # "idle" /\ tcall' # "idle"

(* A step that tells an argument leads to the next.                        *)
LEMMA TellsOn ==
  ASSUME Usual, Asked, asked' = asked, NEW k \in 1..N,
         tcall = C, tpc = k, TAdvance(E)
  PROVE  /\ Telling(k)'
         /\ ~twait'
         /\ UNCHANGED answer
         /\ tcall' # "idle"
<1>1. Ends(C, E) /\ C \in Calls
  BY Made DEF Tellable
<1>2. C' = C /\ E' = E
  BY Kept
<1>3. CASE k < Len(TScript(C, E))
  BY <1>1, <1>2, <1>3, Made DEF TAdvance, Telling
<1>4. CASE ~(k < Len(TScript(C, E)))
  <2>1. C = "exit" /\ k = 1
    BY <1>1, <1>4 DEF Ends, N
  <2>2. QED
    BY <1>2, <1>4, <2>1 DEF TAdvance, Telling
<1>5. QED
  BY <1>3, <1>4

(* The target writes a value.                                              *)
LEMMA TellPut ==
  ASSUME Usual, Asked, NEW q \in 0..N, Telling(q), TPut
  PROVE  /\ q + 1 \in 0..N /\ ~twait
         /\ Telling(q + 1)' /\ ~twait'
         /\ PutStep(C, E, q + 1)
         /\ toHost' = Append(toHost, Said(C, E, q + 1))
         /\ UNCHANGED <<hostVars, toTarget>>
         /\ Quiet
<1>1. Tellable(C, E) /\ ReadSteps(C, E) /\ Expects(C, E) /\ C \in Calls
  BY Made
<1>2. Ends(C, E)
  BY <1>1 DEF Tellable
<1>3. tcall \in Calls /\ ~twait /\ TScript(tcall, tenv)[tpc].do = "put"
  BY DEF TPut, TDoing
<1>4. TScript(C, E)[4].do = "get" \/ C # "read"
  BY <1>1 DEF ReadSteps, Step
<1>5. tcall = C /\ tenv = E /\ tpc = q + 1 /\ q < Len(TScript(C, E))
  BY <1>3, <1>4, NotCalls DEF Telling, Skips
<1>6. q # N
  <2>1. q = N => C # "exit" /\ tpc = Ins(C, E) + 1
    BY <1>2, <1>5 DEF Ends, N
  <2>2. q = N => TScript(C, E)[tpc].do \in {"get", "load"}
    BY <1>1, <2>1 DEF Expects
  <2>3. QED
    BY <1>3, <1>5, <2>2
<1>7. N \in Nat /\ N = Ins(C, E)
  BY <1>2 DEF Ends, N
<1>8. q + 1 \in 1..N /\ q + 1 \in 0..N
  BY <1>6, <1>7
<1>9. PutStep(C, E, q + 1)
  BY <1>1, <1>3, <1>5, <1>7, <1>8 DEF Tellable, SendStep
<1>10. toHost' = Append(toHost, Said(C, E, q + 1))
  BY <1>5, <1>9 DEF TPut, TField, PutStep
<1>11. TAdvance(E) /\ UNCHANGED <<hostVars, toTarget, asked, executed, done, result>>
  BY <1>5 DEF TPut
<1> DEFINE next == q + 1
<1>12. next \in 1..N /\ tpc = next
  BY <1>5, <1>8
<1> HIDE DEF next
<1>13. Telling(next)' /\ ~twait' /\ UNCHANGED answer /\ tcall' # "idle"
  BY <1>5, <1>11, <1>12, TellsOn
<1>14. QED
  BY <1>3, <1>5, <1>8, <1>9, <1>10, <1>11, <1>13, Made DEF next, Quiet, history

(* The target writes a block.                                              *)
LEMMA TellSend ==
  ASSUME Usual, Asked, NEW q \in 0..N, Telling(q), TSend
  PROVE  /\ q + 1 \in 0..N /\ ~twait
         /\ Telling(q + 1)' /\ twait'
         /\ toHost' = Append(toHost, Said(C, E, q + 1))
         /\ UNCHANGED <<hostVars, toTarget>>
         /\ Quiet
<1>1. Tellable(C, E) /\ ReadSteps(C, E) /\ Expects(C, E) /\ C \in Calls
  BY Made
<1>2. Ends(C, E)
  BY <1>1 DEF Tellable
<1>3. tcall \in Calls /\ ~twait /\ TScript(tcall, tenv)[tpc].do = "send"
  BY DEF TSend, TDoing
<1>4. TScript(C, E)[4].do = "get" \/ C # "read"
  BY <1>1 DEF ReadSteps, Step
<1>5. tcall = C /\ tenv = E /\ tpc = q + 1 /\ q < Len(TScript(C, E))
  BY <1>3, <1>4, NotCalls DEF Telling, Skips
<1>6. q # N
  <2>1. q = N => C # "exit" /\ tpc = Ins(C, E) + 1
    BY <1>2, <1>5 DEF Ends, N
  <2>2. q = N => TScript(C, E)[tpc].do \in {"get", "load"}
    BY <1>1, <2>1 DEF Expects
  <2>3. QED
    BY <1>3, <1>5, <2>2
<1>7. N \in Nat /\ N = Ins(C, E)
  BY <1>2 DEF Ends, N
<1>8. q + 1 \in 1..N /\ q + 1 \in 0..N /\ q + 1 > 0
  BY <1>6, <1>7
<1>9. SendStep(C, E, q + 1)
  BY <1>1, <1>3, <1>5, <1>7, <1>8 DEF Tellable, PutStep
<1>10. toHost' = Append(toHost, Said(C, E, q + 1))
  BY <1>5, <1>9 DEF TSend, TField, SendStep
<1>11. C' = C /\ E' = E
  BY Kept DEF TSend, history
<1>12. Telling(q + 1)' /\ twait'
  BY <1>3, <1>5, <1>8, <1>11 DEF Telling, TSend
<1>13. QED
  BY <1>3, <1>5, <1>8, <1>10, <1>12, Made DEF TSend, Quiet

(* The target reads the answer to its block.                               *)
LEMMA TellAnswer ==
  ASSUME Usual, Asked, NEW q \in 0..N, Telling(q), TAnswer, toTarget = <<Good>>
  PROVE  /\ q > 0 /\ twait
         /\ Telling(q)' /\ ~twait'
         /\ toTarget' = <<>>
         /\ UNCHANGED <<hostVars, toHost>>
         /\ Quiet
<1>1. twait /\ tcall = C /\ tenv = E /\ tpc = q /\ q > 0
  BY DEF TAnswer, Telling
<1>2. N \in Nat
  BY Made DEF Tellable, Ends, N
<1>3. TAdvance(E) /\ UNCHANGED <<hostVars, toHost, asked, executed, done, result>>
  BY <1>1 DEF TAnswer
<1>4. toTarget' = <<>>
  BY DEF TAnswer
<1>5. Telling(q)' /\ ~twait' /\ UNCHANGED answer /\ tcall' # "idle"
  BY <1>1, <1>2, <1>3, TellsOn
<1>6. QED
  BY <1>1, <1>3, <1>4, <1>5, Made DEF Quiet, history

(* The target skips a block of no bytes before the host has heard the      *)
(* call.                                                                   *)
LEMMA TellLoad ==
  ASSUME Usual, Asked, NEW q \in 0..N, Telling(q), TLoad, toTarget = <<>>
  PROVE  /\ Telling(q)' /\ ~twait /\ ~twait'
         /\ UNCHANGED <<hostVars, toTarget, toHost>>
         /\ Quiet
<1>1. Tellable(C, E) /\ ReadSteps(C, E) /\ Expects(C, E) /\ C \in Calls
  BY Made
<1>2. Ends(C, E)
  BY <1>1 DEF Tellable
<1>3. tcall \in Calls /\ ~twait /\ TScript(tcall, tenv)[tpc].do = "load"
  BY DEF TLoad, TDoing
<1>4. TScript(C, E)[4].do = "get" \/ C # "read"
  BY <1>1 DEF ReadSteps, Step
<1>5. tcall = C /\ tenv = E /\ tpc = q + 1 /\ q < Len(TScript(C, E))
  BY <1>3, <1>4, NotCalls DEF Telling, Skips
<1>6. N \in Nat /\ N = Ins(C, E)
  BY <1>2 DEF Ends, N
<1>7. q = N
  <2>1. q # N => q + 1 \in 1..N
    BY <1>6
  <2>2. q # N => TScript(C, E)[q + 1].do \in {"put", "send"}
    BY <1>1, <1>6, <2>1 DEF Tellable, PutStep, SendStep
  <2>3. QED
    BY <1>3, <1>5, <2>2
<1>8. E[TScript(C, E)[tpc].field] = 0
  BY <1>5 DEF TLoad, TField
<1>9. C = "read"
  <2>1. C # "exit"
    <3>1. Ins(C, E) # Len(TScript(C, E))
      BY <1>5, <1>6, <1>7
    <3>2. C = "exit" => Ins(C, E) = 1 /\ Len(TScript(C, E)) = 1
      BY <1>2 DEF Ends
    <3>3. QED
      BY <3>1, <3>2
  <2>2. QED
    BY <1>1, <1>3, <1>5, <1>6, <1>7, <1>8, <2>1 DEF Expects
<1>10. q = 2 /\ tpc = 3 /\ Len(TScript(C, E)) = 4 /\ Skips
  BY <1>1, <1>5, <1>6, <1>7, <1>8, <1>9 DEF ReadSteps, Skips, Step
<1>11. TAdvance(E) /\ UNCHANGED <<hostVars, toTarget, toHost, asked, executed, done, result>>
  BY <1>5, <1>8 DEF TLoad, TField
<1>12. C' = C /\ E' = E /\ Skips' = Skips
  BY <1>11, Kept
<1>13. twait' = FALSE /\ tpc' = 4 /\ tenv' = E /\ tcall' = C /\ UNCHANGED answer
  BY <1>5, <1>10, <1>11 DEF TAdvance
<1>14. Telling(q)'
  BY <1>10, <1>12, <1>13 DEF Telling
<1>15. QED
  BY <1>3, <1>5, <1>11, <1>13, <1>14, Made DEF Quiet, history


(* A block is the last thing the target tells before it waits.             *)
LEMMA StillInTurn ==
  ASSUME asked' = asked, NEW p \in Nat, NEW q \in Nat, InTurn(p, q), ~twait
  PROVE  /\ InTurn(p, q)'
         /\ TScript(C, E)[q + 1].do # "send" \/ twait' => InTurn(p, q + 1)'
<1>1. C' = C /\ E' = E
  BY Kept
<1>2. \A k \in 1..q : k >= p => TScript(C, E)[k].do # "send"
  <2> SUFFICES ASSUME NEW k \in 1..q, k >= p, TScript(C, E)[k].do = "send" PROVE FALSE
    OBVIOUS
  <2>1. QED
    BY DEF InTurn
<1>3. InTurn(p, q)'
  BY <1>1, <1>2 DEF InTurn
<1>4. ASSUME TScript(C, E)[q + 1].do # "send" \/ twait' PROVE InTurn(p, q + 1)'
  <2> SUFFICES ASSUME NEW k \in 1..q + 1, k >= p, TScript(C, E)[k].do = "send"
               PROVE  k = q + 1 /\ twait'
    BY <1>1 DEF InTurn
  <2>1. k \notin 1..q
    BY <1>2
  <2>2. k = q + 1
    BY <2>1
  <2>3. QED
    BY <1>4, <2>2
<1>5. QED
  BY <1>3, <1>4

(* What is written comes behind the item that has still to be read.        *)
LEMMA AppendBehind ==
  ASSUME NEW S, NEW line \in Seq(S), NEW item, NEW x
  PROVE  Append(<<item>> \o line, x) = <<item>> \o Append(line, x)
<1> DEFINE U == S \cup {item, x}
<1>1. line \in Seq(U) /\ <<item>> \in Seq(U) /\ <<x>> \in Seq(U) /\ item \in U /\ x \in U
  BY SeqMonotonic
<1> HIDE DEF U
<1>2. Append(line, x) = line \o <<x>>
  BY <1>1, AppendIsConcat
<1>3. <<item>> \o line \in Seq(U)
  BY <1>1, ConcatProperties
<1>4. Append(<<item>> \o line, x) = (<<item>> \o line) \o <<x>>
  BY <1>1, <1>3, AppendIsConcat
<1>5. (<<item>> \o line) \o <<x>> = <<item>> \o (line \o <<x>>)
  BY <1>1, ConcatAssociative
<1>6. QED
  BY <1>2, <1>4, <1>5

(* Which is read first.                                                    *)
LEMMA HeadOfLine ==
  ASSUME NEW S, NEW line \in Seq(S), NEW item
  PROVE  /\ <<item>> \o line # <<>>
         /\ Head(<<item>> \o line) = item
         /\ Tail(<<item>> \o line) = line
<1> DEFINE U == S \cup {item}
<1>1. line \in Seq(U) /\ <<item>> \in Seq(U) /\ item \in U
  BY SeqMonotonic
<1> HIDE DEF U
<1>2. QED
  BY <1>1, ConcatProperties, HeadTailProperties, SMT

(* A step of the target while the host is at step p of the call, or has    *)
(* not begun it.                                                           *)
LEMMA TargetTells ==
  ASSUME Usual, Asked, NEW q \in 0..N, NEW p \in 1..q + 1, Telling(q), InTurn(p, q),
         toTarget = IF twait /\ p = q + 1 THEN <<Good>> ELSE <<>>,
         Target
  PROVE  /\ UNCHANGED hostVars /\ Quiet
         /\ \/ /\ q + 1 \in 0..N
               /\ Telling(q + 1)' /\ InTurn(p, q + 1)'
               /\ toHost' = Append(toHost, Said(C, E, q + 1)) /\ toTarget' = <<>>
            \/ /\ Telling(q)' /\ InTurn(p, q)' /\ ~twait'
               /\ toHost' = toHost /\ toTarget' = <<>>
<1>1. q \in Nat /\ p \in Nat
  BY Made DEF Tellable, Ends, N
<1>2. CASE TPut
  <2>1. /\ q + 1 \in 0..N /\ ~twait /\ Telling(q + 1)' /\ PutStep(C, E, q + 1)
        /\ toHost' = Append(toHost, Said(C, E, q + 1))
        /\ UNCHANGED <<hostVars, toTarget>> /\ Quiet
    BY <1>2, TellPut
  <2>2. TScript(C, E)[q + 1].do # "send"
    BY <2>1 DEF PutStep
  <2>3. InTurn(p, q + 1)'
    BY <1>1, <2>1, <2>2, StillInTurn DEF Quiet, history
  <2>4. toTarget' = <<>> /\ UNCHANGED hostVars
    BY <2>1
  <2>5. QED
    BY <2>1, <2>3, <2>4
<1>3. CASE TSend
  <2>1. /\ q + 1 \in 0..N /\ ~twait /\ Telling(q + 1)' /\ twait'
        /\ toHost' = Append(toHost, Said(C, E, q + 1))
        /\ UNCHANGED <<hostVars, toTarget>> /\ Quiet
    BY <1>3, TellSend
  <2>2. InTurn(p, q + 1)'
    BY <1>1, <2>1, StillInTurn DEF Quiet, history
  <2>3. toTarget' = <<>> /\ UNCHANGED hostVars
    BY <2>1
  <2>4. QED
    BY <2>1, <2>2, <2>3
<1>4. CASE TAnswer
  <2>1. twait /\ p = q + 1 /\ toTarget = <<Good>>
    BY <1>4 DEF TAnswer
  <2>2. /\ Telling(q)' /\ ~twait' /\ toTarget' = <<>>
        /\ UNCHANGED <<hostVars, toHost>> /\ Quiet
    BY <1>4, <2>1, TellAnswer
  <2>3. InTurn(p, q)'
    BY <1>1, <2>1 DEF InTurn
  <2>4. UNCHANGED hostVars /\ toHost' = toHost
    BY <2>2
  <2>5. QED
    BY <2>2, <2>3, <2>4
<1>5. CASE TLoad
  <2>1. toTarget = <<>>
    BY <1>5 DEF TLoad, TDoing
  <2>2. /\ Telling(q)' /\ ~twait /\ ~twait'
        /\ UNCHANGED <<hostVars, toTarget, toHost>> /\ Quiet
    BY <1>5, <2>1, TellLoad
  <2>3. InTurn(p, q)'
    BY <1>1, <2>2, StillInTurn DEF Quiet, history
  <2>4. UNCHANGED hostVars /\ toHost' = toHost /\ toTarget' = <<>>
    BY <2>1, <2>2
  <2>5. QED
    BY <2>2, <2>3, <2>4
<1>6. ~TGet
  BY DEF TGet, TDoing
<1>7. QED
  BY <1>2, <1>3, <1>4, <1>5, <1>6 DEF Target

(* The target tells a call while the host has still to end the one before. *)
LEMMA TargetBehind ==
  ASSUME Usual, Asked, NEW q \in 0..N, Behind(q), Target
  PROVE  /\ UNCHANGED hostVars /\ Quiet
         /\ \E r \in 0..N : Behind(r)'
<1>1. q \in Nat /\ 1 \in 1..q + 1
  BY Made DEF Tellable, Ends, N
<1>2. Telling(q) /\ InTurn(1, q) /\ toTarget = <<>>
  BY DEF Behind
<1>3. ~(twait /\ 1 = q + 1)
  BY <1>1, <1>2 DEF Telling
<1>4. toTarget = IF twait /\ 1 = q + 1 THEN <<Good>> ELSE <<>>
  BY <1>2, <1>3
<1>5. /\ UNCHANGED hostVars /\ Quiet
      /\ \/ /\ q + 1 \in 0..N
            /\ Telling(q + 1)' /\ InTurn(1, q + 1)'
            /\ toHost' = Append(toHost, Said(C, E, q + 1)) /\ toTarget' = <<>>
         \/ /\ Telling(q)' /\ InTurn(1, q)' /\ ~twait'
            /\ toHost' = toHost /\ toTarget' = <<>>
  BY <1>1, <1>2, <1>4, TargetTells
<1>6. C' = C /\ E' = E
  BY <1>5, Kept DEF Quiet, history
<1>7. Free' = Free /\ \A item : Closing(item)' = Closing(item)
  BY <1>5 DEF Free, Closing, HField, hostVars
<1>8. ASSUME q + 1 \in 0..N, Telling(q + 1)', InTurn(1, q + 1)',
             toHost' = Append(toHost, Said(C, E, q + 1)), toTarget' = <<>>
      PROVE  Behind(q + 1)'
  <2>1. Append(Items(C, E, 0, q), Said(C, E, q + 1)) = Items(C, E, 0, q + 1)
    BY <1>1, ItemsAppend
  <2>2. CASE Free /\ toHost = Items(C, E, 0, q)
    BY <1>6, <1>7, <1>8, <2>1, <2>2 DEF Behind
  <2>3. CASE \E item : Closing(item) /\ toHost = <<item>> \o Items(C, E, 0, q)
    <3>1. PICK item : Closing(item) /\ toHost = <<item>> \o Items(C, E, 0, q)
      BY <2>3
    <3>2. 0 \in Nat /\ q \in Int /\ 0 <= q + 1
      BY <1>1
    <3>3. AreItems(Items(C, E, 0, q), C, E, 0, q - 0 + 1)
      BY <3>2, ItemsSeq
    <3> DEFINE L == Items(C, E, 0, q)
               S == {Said(C, E, k) : k \in Nat}
               x == Said(C, E, q + 1)
    <3>4. L \in Seq(S)
      BY <3>3 DEF AreItems
    <3> HIDE DEF L, S, x
    <3>5. Append(<<item>> \o L, x) = <<item>> \o Append(L, x)
      BY <3>4, AppendBehind
    <3>6. toHost' = <<item>> \o Items(C, E, 0, q + 1)
      BY <1>8, <2>1, <3>1, <3>5 DEF L, x
    <3>7. QED
      BY <1>6, <1>7, <1>8, <3>1, <3>6 DEF Behind
  <2>4. QED
    BY <2>2, <2>3 DEF Behind
<1>9. ASSUME Telling(q)', InTurn(1, q)', toHost' = toHost, toTarget' = <<>>
      PROVE  Behind(q)'
  <2>1. CASE Free /\ toHost = Items(C, E, 0, q)
    BY <1>6, <1>7, <1>9, <2>1 DEF Behind
  <2>2. CASE \E item : Closing(item) /\ toHost = <<item>> \o Items(C, E, 0, q)
    BY <1>6, <1>7, <1>9, <2>2 DEF Behind
  <2>3. QED
    BY <2>1, <2>2 DEF Behind
<1>10. QED
  BY <1>5, <1>8, <1>9

(* The target tells the rest of a call while the host listens.             *)
LEMMA TargetHeard ==
  ASSUME Usual, Asked, NEW q \in 0..N, NEW p \in 1..q + 1, Hearing(p, q), Target
  PROVE  /\ UNCHANGED hostVars /\ Quiet
         /\ \E r \in 0..N : p \in 1..r + 1 /\ Hearing(p, r)'
<1>1. q \in Nat /\ p \in Nat /\ p <= q + 1 /\ p \in 1..(q + 1) + 1
  BY Made DEF Tellable, Ends, N
<1>2. /\ Telling(q) /\ InTurn(p, q) /\ toHost = Items(C, E, p, q)
      /\ toTarget = IF twait /\ p = q + 1 THEN <<Good>> ELSE <<>>
  BY DEF Hearing
<1>3. /\ UNCHANGED hostVars /\ Quiet
      /\ \/ /\ q + 1 \in 0..N
            /\ Telling(q + 1)' /\ InTurn(p, q + 1)'
            /\ toHost' = Append(toHost, Said(C, E, q + 1)) /\ toTarget' = <<>>
         \/ /\ Telling(q)' /\ InTurn(p, q)' /\ ~twait'
            /\ toHost' = toHost /\ toTarget' = <<>>
  BY <1>2, TargetTells
<1>4. C' = C /\ E' = E
  BY <1>3, Kept DEF Quiet, history
<1>5. hcall' = C /\ hwait' = "none" /\ hpc' = p /\ henv' = Heard(C, E, p)
  BY <1>3 DEF Hearing, hostVars
<1>6. ASSUME q + 1 \in 0..N, Telling(q + 1)', InTurn(p, q + 1)',
             toHost' = Append(toHost, Said(C, E, q + 1)), toTarget' = <<>>
      PROVE  Hearing(p, q + 1)'
  <2>1. toHost' = Items(C, E, p, q + 1)
    BY <1>1, <1>2, <1>6, ItemsAppend
  <2>2. p # (q + 1) + 1
    BY <1>1
  <2>3. QED
    BY <1>4, <1>5, <1>6, <2>1, <2>2 DEF Hearing
<1>7. ASSUME Telling(q)', InTurn(p, q)', ~twait', toHost' = toHost, toTarget' = <<>>
      PROVE  Hearing(p, q)'
  BY <1>2, <1>4, <1>5, <1>7 DEF Hearing
<1>8. QED
  BY <1>1, <1>3, <1>6, <1>7

-----------------------------------------------------------------------------
(* The host's steps while the target tells the call.                       *)
LEMMA TellingKept ==
  ASSUME UNCHANGED targetVars, asked' = asked, NEW p, NEW q
  PROVE  Telling(q)' = Telling(q) /\ InTurn(p, q)' = InTurn(p, q)
<1>1. /\ tcall' = tcall /\ tpc' = tpc /\ tenv' = tenv /\ twait' = twait
      /\ C' = C /\ E' = E /\ Skips' = Skips
  BY Kept DEF targetVars
<1>2. QED
  BY <1>1 DEF Telling, InTurn

(* A program that makes a call does not make another.                      *)
LEMMA TellerBusy ==
  ASSUME Asked, Usual, NEW q, Telling(q)
  PROVE  tcall # "idle"
BY Made DEF Telling

(* The last item of a call sends the host back to its loop.                *)
LEMMA ClosingEnds ==
  ASSUME NEW item, Closing(item), HAdvance(henv)
  PROVE  Free'
<1>1. hpc = Len(HScript(hcall, henv)) /\ hpc \in Nat /\ hcall # "exit"
  BY DEF Closing
<1>2. QED
  BY <1>1 DEF HAdvance, Free

(* The host ends the call before, or begins this one as the call it is.    *)
LEMMA HostBehind ==
  ASSUME Usual, Asked, NEW q \in 0..N, Behind(q), Host
  PROVE  /\ UNCHANGED <<targetVars, history>> /\ tcall # "idle"
         /\ hcall # "gone" /\ hcall' # "gone"
         /\ Behind(q)' \/ Hearing(1, q)'
<1>1. q \in Nat
  BY Made DEF Tellable, Ends, N
<1>2. Telling(q) /\ InTurn(1, q) /\ toTarget = <<>>
  BY DEF Behind
<1>3. tcall # "idle"
  BY <1>2, TellerBusy
<1>4. CASE Free /\ toHost = Items(C, E, 0, q)
  <2>1. hcall = "loop" /\ hwait = "none" /\ hpc = 1 /\ henv = Unknown
    BY <1>4 DEF Free
  <2>2. HCommand
    BY <2>1, NotCalls DEF Host, HRecv, HSend, HEcho, HData, HBlock, HAnswer, HRunIt, HDoing
  <2>3. Head(toHost) = Said(C, E, 0) /\ toHost' = Items(C, E, 0 + 1, q)
    <3>1. 0 \in Nat /\ q \in Nat /\ 0 <= q
      BY <1>1
    <3>2. /\ Head(Items(C, E, 0, q)) = Said(C, E, 0)
          /\ Tail(Items(C, E, 0, q)) = Items(C, E, 0 + 1, q)
      BY <3>1, ItemsHead
    <3>3. QED
      BY <1>4, <2>2, <3>2 DEF HCommand
  <2>4. Handler(Head(toHost)[2]) = C
    BY <2>3, NumbersMatch, Made DEF Said, Command
  <2>5. hcall' = C /\ UNCHANGED <<targetVars, hpc, henv, hwait, toTarget, history>>
    BY <2>2, <2>4 DEF HCommand
  <2>6. asked' = asked /\ UNCHANGED targetVars
    BY <2>5 DEF history
  <2>7. C' = C /\ E' = E /\ Telling(q)' /\ InTurn(1, q)'
    BY <1>2, <2>6, Kept, TellingKept
  <2>8. Heard(C, E, 1) = Unknown
    BY Made DEF Tellable
  <2>9. ~(twait' /\ 1 = q + 1)
    BY <1>1, <1>2, <2>5 DEF Telling, targetVars
  <2>10. hpc' = 1 /\ henv' = Unknown /\ hwait' = "none" /\ toTarget' = <<>>
    BY <1>2, <2>1, <2>5
  <2>11. toHost' = Items(C, E, 1, q)
    BY <2>3
  <2>12. Hearing(1, q)'
    BY <2>5, <2>7, <2>8, <2>9, <2>10, <2>11 DEF Hearing
  <2>13. QED
    BY <1>3, <2>1, <2>5, <2>12, Made
<1>5. CASE \E item : Closing(item) /\ toHost = <<item>> \o Items(C, E, 0, q)
  <2>1. PICK item : Closing(item) /\ toHost = <<item>> \o Items(C, E, 0, q)
    BY <1>5
  <2>2. hwait # "none" /\ hcall # "loop" /\ hcall # "gone"
    BY <2>1, NotCalls DEF Closing
  <2>3. HEcho \/ HAnswer
    BY <2>2 DEF Host, HCommand, HRecv, HSend, HData, HBlock, HRunIt, HDoing
  <2>4. /\ HAdvance(henv) /\ toHost' = Tail(toHost)
        /\ UNCHANGED <<targetVars, toTarget, history>>
    BY <2>3 DEF HEcho, HAnswer
  <2>5. Free'
    BY <2>1, <2>4, ClosingEnds
  <2>6. toHost' = Items(C, E, 0, q)
    <3>1. 0 \in Nat /\ q \in Int /\ 0 <= q + 1
      BY <1>1
    <3>2. AreItems(Items(C, E, 0, q), C, E, 0, q - 0 + 1)
      BY <3>1, ItemsSeq
    <3> DEFINE L == Items(C, E, 0, q)
               S == {Said(C, E, k) : k \in Nat}
    <3>3. L \in Seq(S)
      BY <3>2 DEF AreItems
    <3> HIDE DEF L, S
    <3>4. Tail(<<item>> \o L) = L
      BY <3>3, HeadOfLine
    <3>5. QED
      BY <2>1, <2>4, <3>4 DEF L
  <2>7. asked' = asked /\ UNCHANGED targetVars /\ toTarget' = <<>>
    BY <1>2, <2>4 DEF history
  <2>8. C' = C /\ E' = E /\ Telling(q)' /\ InTurn(1, q)'
    BY <1>2, <2>7, Kept, TellingKept
  <2>9. Behind(q)'
    BY <2>5, <2>6, <2>7, <2>8 DEF Behind
  <2>10. QED
    BY <1>3, <2>2, <2>4, <2>5, <2>9 DEF Free
<1>6. QED
  BY <1>4, <1>5 DEF Behind

(* The host reads a value, as the field it is.                             *)
LEMMA HearPut ==
  ASSUME Usual, Asked, NEW q \in 0..N, NEW p \in 1..q + 1, Hearing(p, q), HRecv
  PROVE  /\ UNCHANGED <<targetVars, history>>
         /\ p + 1 \in 1..q + 1 /\ Hearing(p + 1, q)'
<1>1. Tellable(C, E) /\ Ends(C, E) /\ N = Ins(C, E) /\ N \in Nat /\ q \in Nat /\ p \in Nat
  BY Made DEF Tellable, Ends, N
<1>2. hcall = C /\ hpc = p /\ henv = Heard(C, E, p) /\ toHost = Items(C, E, p, q)
  BY DEF Hearing
<1>3. HScript(C, Heard(C, E, p))[p].do = "recv"
  BY <1>2 DEF HRecv, HDoing
<1>4. p # q + 1
  <2>1. p = q + 1 => toHost = <<>>
    BY <1>1, <1>2, NoItems
  <2>2. QED
    BY <2>1 DEF HRecv
<1>5. p \in 1..N /\ p <= q /\ p + 1 \in 1..q + 1 /\ p + 1 \in 1..N + 1
  BY <1>1, <1>4
<1>6. PutStep(C, E, p)
  BY <1>1, <1>3, <1>5 DEF Tellable, SendStep
<1>7. Head(toHost) = Said(C, E, p) /\ toHost' = Items(C, E, p + 1, q)
  <2>1. p \in Nat /\ q \in Nat /\ p <= q
    BY <1>1, <1>5
  <2>2. /\ Head(Items(C, E, p, q)) = Said(C, E, p)
        /\ Tail(Items(C, E, p, q)) = Items(C, E, p + 1, q)
    BY <2>1, ItemsHead
  <2>3. QED
    BY <1>2, <2>2 DEF HRecv
<1>8. Learn(henv, HField, Head(toHost)[3]) = Heard(C, E, p + 1)
  BY <1>2, <1>6, <1>7 DEF HField, PutStep, Word
<1>9. HAdvance(Heard(C, E, p + 1)) /\ UNCHANGED <<targetVars, toTarget, history>>
  BY <1>8 DEF HRecv
<1>10. p + 1 <= Len(HScript(C, Heard(C, E, p + 1)))
  BY <1>1, <1>5 DEF Tellable
<1>11. /\ hwait' = "none" /\ hpc' = p + 1
       /\ henv' = Heard(C, E, p + 1) /\ hcall' = C
  <2>1. p < Len(HScript(C, Heard(C, E, p + 1)))
    BY <1>1, <1>10
  <2>2. QED
    BY <1>2, <1>9, <2>1 DEF HAdvance
<1>12. asked' = asked /\ UNCHANGED targetVars
  BY <1>9 DEF history
<1>13. Telling(q) /\ InTurn(p, q) /\ toTarget = <<>>
  BY <1>1, <1>5 DEF Hearing
<1>14. C' = C /\ E' = E /\ Telling(q)' /\ InTurn(p, q)'
  BY <1>12, <1>13, Kept, TellingKept
<1>15. InTurn(p + 1, q)'
  BY <1>1, <1>14 DEF InTurn
<1>16. ~(twait' /\ p + 1 = q + 1)
  <2>1. twait => TScript(C, E)[q].do = "send"
    BY <1>13 DEF Telling
  <2>2. TScript(C, E)[p].do = "put"
    BY <1>6 DEF PutStep
  <2>3. p + 1 = q + 1 => p = q
    BY <1>1
  <2>4. QED
    BY <1>12, <2>1, <2>2, <2>3 DEF targetVars
<1>17. toTarget' = <<>>
  BY <1>9, <1>13
<1>18. Hearing(p + 1, q)'
  BY <1>7, <1>11, <1>14, <1>15, <1>16, <1>17 DEF Hearing
<1>19. QED
  BY <1>5, <1>9, <1>18


(* The host reads a block of just the size it expects.                     *)
LEMMA HearData ==
  ASSUME Usual, Asked, NEW q \in 0..N, NEW p \in 1..q + 1, Hearing(p, q), HData
  PROVE  /\ UNCHANGED <<targetVars, history>>
         /\ p + 1 \in 1..q + 1 /\ Hearing(p + 1, q)'
<1>1. Tellable(C, E) /\ Ends(C, E) /\ N = Ins(C, E) /\ N \in Nat /\ q \in Nat /\ p \in Nat
  BY Made DEF Tellable, Ends, N
<1>2. hcall = C /\ hpc = p /\ henv = Heard(C, E, p) /\ toHost = Items(C, E, p, q)
  BY DEF Hearing
<1>3. HScript(C, Heard(C, E, p))[p].do = "data"
  BY <1>2 DEF HData, HDoing
<1>4. p # N + 1
  <2>1. p = N + 1 => HScript(C, Heard(C, E, p))[p].do = "run"
    BY <1>1 DEF Tellable
  <2>2. QED
    BY <1>3, <2>1
<1>5. p \in 1..N /\ p + 1 \in 1..N + 1
  BY <1>1, <1>4
<1>6. SendStep(C, E, p)
  BY <1>1, <1>3, <1>5 DEF Tellable, PutStep
<1>7. henv[HField] # 0
  BY <1>2, <1>6 DEF HField, SendStep
<1>8. p # q + 1
  <2>1. p = q + 1 => toHost = <<>>
    BY <1>1, <1>2, NoItems
  <2>2. QED
    BY <1>7, <2>1 DEF HData
<1>9. p <= q /\ p + 1 \in 1..q + 1 /\ p \in 1..q
  BY <1>1, <1>8
<1>10. toHost' = Items(C, E, p + 1, q)
  <2>1. p \in Nat /\ q \in Nat /\ p <= q
    BY <1>1, <1>9
  <2>2. Tail(Items(C, E, p, q)) = Items(C, E, p + 1, q)
    BY <2>1, ItemsHead
  <2>3. toHost' = Tail(toHost)
    BY <1>7 DEF HData
  <2>4. QED
    BY <1>2, <2>2, <2>3
<1>11. Telling(q) /\ InTurn(p, q) /\ toTarget = <<>>
  BY <1>1, <1>9 DEF Hearing
<1>12. /\ HAdvance(Heard(C, E, p + 1)) /\ toTarget' = <<Good>>
       /\ UNCHANGED <<targetVars, history>>
  BY <1>2, <1>6, <1>7, <1>11 DEF HData, SendStep
<1>13. p + 1 <= Len(HScript(C, Heard(C, E, p + 1)))
  BY <1>1, <1>5 DEF Tellable
<1>14. /\ hwait' = "none" /\ hpc' = p + 1
       /\ henv' = Heard(C, E, p + 1) /\ hcall' = C
  <2>1. p < Len(HScript(C, Heard(C, E, p + 1)))
    BY <1>1, <1>13
  <2>2. QED
    BY <1>2, <1>12, <2>1 DEF HAdvance
<1>15. asked' = asked /\ UNCHANGED targetVars
  BY <1>12 DEF history
<1>16. C' = C /\ E' = E /\ Telling(q)' /\ InTurn(p, q)'
  BY <1>11, <1>15, Kept, TellingKept
<1>17. InTurn(p + 1, q)'
  BY <1>1, <1>16 DEF InTurn
<1>18. twait' /\ p + 1 = q + 1
  <2>1. TScript(C, E)[p].do = "send"
    BY <1>6 DEF SendStep
  <2>2. p = q /\ twait
    BY <1>1, <1>9, <1>11, <2>1 DEF InTurn
  <2>3. QED
    BY <1>15, <2>2 DEF targetVars
<1>19. Hearing(p + 1, q)'
  BY <1>10, <1>12, <1>14, <1>16, <1>17, <1>18 DEF Hearing
<1>20. QED
  BY <1>9, <1>12, <1>19

(* What may come of a packet to gdb.                                       *)
LEMMA GdbOutcome ==
  ASSUME NEW most \in 0..MaxSize, NEW o \in GdbOutcomes(most), Plain
  PROVE  /\ o.gdb \in {"none", "unbound", "listening", "connected", "lost", "closed"}
         /\ o.retval \in 0..most \cup {MinusOne}
         /\ o.silent \in {0, 1}
<1>1. CASE gdb = "none"
  BY <1>1 DEF GdbOutcomes
<1>2. CASE gdb # "none"
  <2>1. PICK socket \in Accepted : o \in GdbReads(socket, most)
    BY <1>2 DEF GdbOutcomes
  <2>2. socket \in {"none", "unbound", "listening", "connected", "lost", "closed"}
    BY <2>1 DEF Accepted, Plain
  <2>3. MaxSize \in Nat
    BY ConsoleAssumption DEF ConsoleAssumption
  <2>4. QED
    BY <2>1, <2>2, <2>3 DEF GdbReads
<1>3. QED
  BY <1>1, <1>2

(* What the target may be doing when it has told the whole call.           *)
AllTold == /\ tcall = C /\ tenv = E
           /\ \/ Late /\ toTarget = <<Good>>
              \/ ~twait /\ tpc = N + 1 /\ toTarget = <<>>
              \/ Skips /\ ~twait /\ tpc = 4 /\ toTarget = <<>>

(* When the host carries a call out the target has told all of it.         *)
LEMMA ToldAll ==
  ASSUME Usual, Asked, Hearing(N + 1, N), C # "exit"
  PROVE  AllTold
<1>1. Telling(N) /\ toTarget = IF twait THEN <<Good>> ELSE <<>>
  BY DEF Hearing
<1>2. QED
  BY <1>1 DEF AllTold, Telling, Late

(* What the host has found it answers with.                                *)
LEMMA RunsAnswer ==
  ASSUME Usual, Asked, C # "exit", AllTold, UNCHANGED <<targetVars, toTarget>>,
         asked' = asked, hcall = C, hpc = N + 1, toHost' = <<>>,
         NEW f, Outcome(C, E, f), HAdvance(f),
         result' = Answer(C, f), done' = 1, executed' = asked
  PROVE  Answering' /\ Due'
<1>1. Answerable(C, E, f)
  BY MadeAnswerable
<1>2. C' = C /\ E' = E /\ N' = N /\ Skips' = Skips
  BY Kept
<1>3. N \in Nat /\ N = Ins(C, E) /\ N + 1 < Len(HScript(C, f)) /\ Learned(C, f, N + 1) = E
  BY <1>1 DEF Answerable, N
<1>4. hpc' = N + 2 /\ henv' = f /\ hcall' = C /\ hwait' = "none"
  BY <1>3 DEF HAdvance
<1>5. Answering'
  BY <1>2, <1>3, <1>4 DEF Answering
<1>6. /\ tcall' = tcall /\ tpc' = tpc /\ tenv' = tenv /\ twait' = twait
      /\ toTarget' = toTarget
  BY DEF targetVars
<1>7. CASE Late /\ toTarget = <<Good>>
  <2>1. Late'
    BY <1>2, <1>6, <1>7 DEF Late
  <2>2. QED
    BY <1>2, <1>4, <1>5, <1>6, <1>7, <2>1 DEF Due
<1>8. CASE ~twait /\ tpc = N + 1 /\ toTarget = <<>>
  <2>1. hpc' - 1 = N + 1
    BY <1>3, <1>4
  <2>2. OnTime(hpc - 1)'
    BY <1>2, <1>3, <1>4, <1>6, <1>8, <2>1 DEF AllTold, OnTime
  <2>3. QED
    BY <1>4, <1>5, <1>6, <1>8, <2>2 DEF Due
<1>9. CASE Skips /\ ~twait /\ tpc = 4 /\ toTarget = <<>>
  <2>1. N = 2 /\ LoadStep(C, f, 3)
    BY <1>1, <1>9 DEF Answerable, Skips, N
  <2>2. Learned(C, f, 4) = E
    <3>1. N + 1 = 3 /\ 3 + 1 = 4
      BY <2>1
    <3>2. QED
      BY <1>3, <2>1, <3>1 DEF LoadStep
  <2>3. OnTime(4)' /\ hpc' = 4
    BY <1>2, <1>4, <1>6, <1>9, <2>1, <2>2 DEF AllTold, OnTime
  <2>4. QED
    BY <1>2, <1>4, <1>5, <1>6, <1>9, <2>3 DEF Due
<1>10. QED
  BY <1>7, <1>8, <1>9 DEF AllTold


(* The host carries out the call that was made, with its arguments, for    *)
(* the first time.                                                         *)
LEMMA HearRun ==
  ASSUME Usual, Asked, done = 0, NEW q \in 0..N, NEW p \in 1..q + 1, Hearing(p, q),
         HRunIt, Plain
  PROVE  /\ UNCHANGED <<targetVars, asked, answer>> /\ Plain'
         /\ executed' = asked /\ done' = 1 /\ result' \in 0..MinusOne
         /\ \/ C = "exit" /\ Over'
            \/ C # "exit" /\ Stuck'
            \/ C # "exit" /\ Answering' /\ Due'
<1>1. Tellable(C, E) /\ Ends(C, E) /\ N = Ins(C, E) /\ N \in Nat /\ q \in Nat /\ p \in Nat
  BY Made DEF Tellable, Ends, N
<1>2. /\ hcall = C /\ hpc = p /\ henv = Heard(C, E, p) /\ toHost = Items(C, E, p, q)
      /\ HScript(hcall, henv)[hpc].do = "run"
  BY DEF Hearing, HRunIt, HDoing
<1>3. p \notin 1..N
  BY <1>1, <1>2 DEF Tellable, PutStep, SendStep
<1>4. p = N + 1 /\ q = N
  BY <1>1, <1>3
<1>5. Hearing(N + 1, N)
  BY <1>4
<1>6. henv = E
  BY <1>1, <1>2, <1>4 DEF Tellable
<1>7. toHost = <<>>
  BY <1>1, <1>2, <1>4, NoItems
<1>8. executed' = asked
  BY <1>2, <1>6, Made DEF HRunIt
<1>9. done' = 1 /\ UNCHANGED <<targetVars, toHost, toTarget, asked, answer>>
  BY DEF HRunIt
<1>10. toHost' = <<>> /\ UNCHANGED <<targetVars, toTarget>> /\ asked' = asked
       /\ hpc = N + 1 /\ UNCHANGED <<targetVars, asked, answer>>
  BY <1>2, <1>4, <1>7, <1>9
<1>11. MinusOne \in Nat /\ MaxSize \in Nat /\ MinusOne > MaxSize /\ 1 <= MinusOne
  BY ConsoleAssumption DEF ConsoleAssumption
<1>12. E \in [Values -> 0..MinusOne] /\ E["silent"] = 0
  <2>1. PICK c \in Calls : \E a \in Args(c) : asked = <<c, a>>
    BY DEF Asked
  <2>2. PICK a \in Args(c) : asked = <<c, a>>
    BY <2>1
  <2>3. QED
    BY <2>1, <2>2, ArgsFit DEF C, E, Fitting
<1>13. gdStatus' = gdStatus /\ twait' = twait
  BY <1>9 DEF targetVars
<1>14. ASSUME C # "exit", NEW f, Outcome(C, E, f), HAdvance(f), result' = Answer(C, f)
       PROVE  Answering' /\ Due'
  <2>1. AllTold
    BY <1>5, <1>14, ToldAll
  <2>2. QED
    BY <1>2, <1>8, <1>9, <1>10, <1>14, <2>1, RunsAnswer
<1>15. CASE C = "exit"
  <2>1. HAdvance(henv) /\ result' = Answer(hcall, henv) /\ gdb' = Cleanup
    BY <1>2, <1>15 DEF HRunIt
  <2>2. N = 1 /\ Len(HScript("exit", henv)) = 2
    BY <1>1, <1>15, ExitSteps DEF Ends
  <2>3. hcall' = "gone" /\ hpc' = 1 /\ henv' = Unknown /\ hwait' = "none"
    <3>1. hcall = "exit"
      BY <1>2, <1>15
    <3>2. hpc = Len(HScript(hcall, henv)) /\ hpc \in Nat
      BY <1>2, <1>4, <2>2, <3>1
    <3>3. QED
      BY <2>1, <3>1, <3>2 DEF HAdvance
  <2>4. tcall = "exited" /\ ~twait /\ tenv = Unknown /\ tpc = 1
    <3>1. Len(TScript(C, E)) = 1 /\ C # "read"
      BY <1>1, <1>15 DEF Ends
    <3>2. PutStep(C, E, 1) \/ SendStep(C, E, 1)
      BY <1>1, <2>2 DEF Tellable
    <3>3. TScript(C, E)[1].do # "send"
      BY <1>15, <3>2 DEF PutStep, SendStep
    <3>4. Telling(1)
      BY <1>5, <2>2 DEF Hearing
    <3>5. QED
      BY <3>1, <3>3, <3>4 DEF Telling, Skips
  <2>5. toTarget = <<>>
    BY <1>5, <2>4 DEF Hearing
  <2>6. Over'
    BY <1>7, <1>9, <2>3, <2>4, <2>5 DEF Over, targetVars
  <2>7. result' = E["retval"]
    BY <1>2, <1>6, <1>15, <2>1 DEF Answer
  <2>8. result' \in 0..MinusOne
    BY <1>12, <2>7 DEF Values
  <2>9. Plain'
    BY <1>13, <2>1 DEF Plain, Cleanup
  <2>10. QED
    BY <1>8, <1>9, <1>15, <2>6, <2>8, <2>9
<1>16. CASE C = "gdbpacket"
  <2>1. PICK o \in GdbOutcomes(E["out_size"]) :
          /\ gdb' = o.gdb
          /\ HAdvance([E EXCEPT !["retval"] = o.retval, !["silent"] = o.silent])
          /\ result' = o.retval
    BY <1>2, <1>6, <1>16 DEF HRunIt
  <2>2. E["out_size"] \in 0..MaxSize
    <3>1. PICK c \in Calls : \E a \in Args(c) : asked = <<c, a>>
      BY DEF Asked
    <3>2. PICK a \in Args(c) : asked = <<c, a>>
      BY <3>1
    <3>3. Fitting(C, E)
      BY <3>1, <3>2, ArgsFit DEF C, E
    <3>4. QED
      BY <1>11, <1>16, <3>3 DEF Fitting, Params, Least
  <2>3. /\ o.gdb \in {"none", "unbound", "listening", "connected", "lost", "closed"}
        /\ o.retval \in 0..E["out_size"] \cup {MinusOne}
        /\ o.silent \in {0, 1}
    BY <2>1, <2>2, GdbOutcome
  <2>4. Plain' /\ result' \in 0..MinusOne
    BY <1>11, <1>13, <2>1, <2>2, <2>3 DEF Plain
  <2> DEFINE f == [E EXCEPT !["retval"] = o.retval, !["silent"] = o.silent]
  <2>5. /\ f["retval"] = o.retval /\ f["silent"] = o.silent
        /\ f["in_size"] = E["in_size"] /\ f["out_size"] = E["out_size"]
        /\ f \in [Values -> 0..MinusOne]
    BY <1>11, <1>12, <2>2, <2>3 DEF Values
  <2>6. HAdvance(f) /\ result' = Answer(C, f)
    BY <1>16, <2>1, <2>5 DEF Answer
  <2> HIDE DEF f
  <2>7. CASE o.silent = 0
    <3>1. Outcome(C, E, f)
      BY <1>16, <2>3, <2>5, <2>7 DEF Outcome, Params
    <3>2. QED
      BY <1>8, <1>9, <1>14, <1>16, <2>4, <2>6, <3>1
  <2>8. CASE o.silent = 1
    <3>1. Len(HScript(C, f)) = N + 1
      <4>1. PICK c \in Calls : \E a \in Args(c) : asked = <<c, a>>
        BY DEF Asked
      <4>2. PICK a \in Args(c) : asked = <<c, a>>
        BY <4>1
      <4>3. a \in Args("gdbpacket") /\ E = Env("gdbpacket", a)
        BY <1>16, <4>1, <4>2 DEF C, E
      <4>4. Len(HScript("gdbpacket", f)) = Ins("gdbpacket", E) + 1
        BY <2>5, <2>8, <4>3, SilentEnds
      <4>5. QED
        BY <1>1, <1>16, <4>4
    <3>2. Free'
      BY <1>1, <1>2, <1>4, <1>16, <2>6, <3>1 DEF HAdvance, Free
    <3>3. AllTold
      BY <1>5, <1>16, ToldAll
    <3>4. ~Skips
      BY <1>16 DEF Skips
    <3>5. C' = C /\ E' = E /\ N' = N
      BY <1>10, Kept
    <3>6. /\ tcall' = tcall /\ tpc' = tpc /\ tenv' = tenv /\ twait' = twait
          /\ toTarget' = toTarget
      BY <1>9 DEF targetVars
    <3>7. Late' = Late
      BY <3>5, <3>6 DEF Late
    <3>8. Stuck'
      BY <1>9, <1>10, <1>16, <3>2, <3>3, <3>4, <3>5, <3>6, <3>7 DEF Stuck, AllTold
    <3>9. QED
      BY <1>8, <1>9, <1>16, <2>4, <3>8
  <2>9. QED
    BY <2>3, <2>7, <2>8
<1>17. CASE C = "readdir"
  <2>1. PICK found \in 0..1 : \E namelen \in 1..MaxSize :
          /\ HAdvance([E EXCEPT !["found"] = found, !["namelen"] = namelen])
          /\ result' = found
          /\ UNCHANGED gdb
    BY <1>2, <1>6, <1>17 DEF HRunIt
  <2>2. PICK namelen \in 1..MaxSize :
          /\ HAdvance([E EXCEPT !["found"] = found, !["namelen"] = namelen])
          /\ result' = found
          /\ UNCHANGED gdb
    BY <2>1
  <2> DEFINE f == [E EXCEPT !["found"] = found, !["namelen"] = namelen]
  <2>3. /\ f["found"] = found /\ f["namelen"] = namelen /\ f["silent"] = 0
        /\ f \in [Values -> 0..MinusOne]
    BY <1>11, <1>12 DEF Values
  <2>4. HAdvance(f) /\ result' = Answer(C, f)
    BY <1>17, <2>2, <2>3 DEF Answer
  <2> HIDE DEF f
  <2>5. Outcome(C, E, f)
    BY <1>17, <2>3 DEF Outcome, Params
  <2>6. Plain' /\ result' \in 0..MinusOne
    BY <1>11, <1>13, <2>2 DEF Plain
  <2>7. QED
    BY <1>8, <1>9, <1>14, <1>17, <2>4, <2>5, <2>6
<1>18. CASE C = "cdfs"
  <2>1. HAdvance(E) /\ result' = Answer(C, E) /\ UNCHANGED gdb
    BY <1>2, <1>6, <1>18 DEF HRunIt
  <2>2. Outcome(C, E, E)
    BY <1>12, <1>18 DEF Outcome
  <2>3. Plain' /\ result' \in 0..MinusOne
    BY <1>11, <1>13, <1>18, <2>1 DEF Plain, Answer
  <2>4. QED
    BY <1>8, <1>9, <1>14, <1>18, <2>1, <2>2, <2>3
<1>19. CASE C \notin {"gdbpacket", "readdir", "cdfs", "exit"}
  <2>1. PICK retval \in {0, 1, MinusOne} :
          /\ HAdvance([E EXCEPT !["retval"] = retval])
          /\ result' = retval
          /\ UNCHANGED gdb
    BY <1>2, <1>6, <1>19 DEF HRunIt
  <2> DEFINE f == [E EXCEPT !["retval"] = retval]
  <2>2. /\ f["retval"] = retval /\ f["silent"] = 0
        /\ f \in [Values -> 0..MinusOne]
        /\ \A v \in Params(C) : f[v] = E[v]
    BY <1>11, <1>12, <1>19 DEF Values, Params
  <2>3. HAdvance(f) /\ result' = Answer(C, f)
    BY <1>19, <2>1, <2>2 DEF Answer
  <2> HIDE DEF f
  <2>4. Outcome(C, E, f)
    BY <1>19, <2>2 DEF Outcome
  <2>5. Plain' /\ result' \in 0..MinusOne
    BY <1>11, <1>13, <2>1 DEF Plain
  <2>6. QED
    BY <1>8, <1>9, <1>14, <1>19, <2>3, <2>4, <2>5
<1>20. QED
  BY <1>15, <1>16, <1>17, <1>18, <1>19

-----------------------------------------------------------------------------
(* The steps while the host answers.                                       *)
Last == Len(TScript(C, henv))  \* the target's last step

(* Where the host is in its answer.                                        *)
LEMMA AnswerIs ==
  ASSUME Usual, Asked, Answering
  PROVE  /\ Answerable(C, E, henv)
         /\ N = Ins(C, E) /\ N \in Nat /\ Last \in Nat /\ N < Last
         /\ Len(HScript(C, henv)) = Last + 1
         /\ hpc \in Nat /\ hpc - 1 \in N + 1..Last /\ (hpc - 1) + 1 = hpc
         /\ \A t \in N + 1..Last : GetStep(C, henv, t) \/ LoadStep(C, henv, t)
         /\ GetStep(C, henv, hpc - 1) \/ LoadStep(C, henv, hpc - 1)
<1>1. Answerable(C, E, henv) /\ hpc \in N + 2..Len(HScript(C, henv))
  BY MadeAnswerable DEF Answering
<1>2. /\ N = Ins(C, E) /\ N \in Nat /\ Last \in Nat /\ N < Last
      /\ Len(HScript(C, henv)) = Last + 1
      /\ \A t \in N + 1..Last : GetStep(C, henv, t) \/ LoadStep(C, henv, t)
  BY <1>1 DEF Answerable, N, Last
<1>3. hpc \in Nat /\ hpc - 1 \in N + 1..Last /\ (hpc - 1) + 1 = hpc
  BY <1>1, <1>2
<1> DEFINE before == hpc - 1
<1>4. GetStep(C, henv, before) \/ LoadStep(C, henv, before)
  <2>1. before \in N + 1..Last
    BY <1>3
  <2> HIDE DEF before
  <2>2. QED
    BY <1>2, <2>1
<1>5. QED
  BY <1>1, <1>2, <1>3, <1>4

(* The answer of read: a block, which may be empty, and a number.          *)
LEMMA AnswerOfRead ==
  ASSUME Usual, Asked, Answering, C = "read"
  PROVE  /\ N = 2 /\ Last = 4
         /\ LoadStep(C, henv, 3) /\ GetStep(C, henv, 4)
         /\ TScript(C, henv)[3].field = "count" /\ henv["count"] = E["count"]
<1>1. Answerable(C, E, henv)
  BY AnswerIs
<1>2. henv["count"] = E["count"]
  BY DEF Answering, Outcome, Params
<1>3. QED
  BY <1>1, <1>2 DEF Answerable, N, Last

(* A step of the target leaves the host where it is.                       *)
LEMMA AnsweringKept ==
  ASSUME UNCHANGED <<hostVars, asked, executed, done, result>>
  PROVE  /\ Answering' = Answering /\ C' = C /\ E' = E /\ N' = N /\ Skips' = Skips
         /\ hcall' = hcall /\ hpc' = hpc /\ henv' = henv /\ hwait' = hwait /\ gdb' = gdb
         /\ Last' = Last
<1>1. /\ C' = C /\ E' = E /\ N' = N /\ Skips' = Skips
      /\ hcall' = hcall /\ hpc' = hpc /\ henv' = henv /\ hwait' = hwait /\ gdb' = gdb
  BY Kept DEF hostVars
<1>2. QED
  BY <1>1 DEF Answering, Last

(* The target's step t is done.                                            *)
LEMMA TakesOn ==
  ASSUME Usual, Asked, Answering, UNCHANGED <<hostVars, asked, executed, done, result>>,
         tcall = C, NEW t \in N + 1..Last, tpc = t,
         TAdvance(Learned(C, henv, t + 1))
  PROVE  /\ t < Last => OnTime(t + 1)' /\ answer' = answer /\ tcall' # "idle"
         /\ t = Last => /\ tcall' = "idle" /\ tpc' = 1 /\ tenv' = Unknown /\ ~twait'
                        /\ answer' = result
         /\ gdStatus' \in {gdStatus, 2}
<1>1. Answerable(C, E, henv) /\ N = Ins(C, E) /\ N \in Nat /\ Last \in Nat /\ C # "exit"
  BY AnswerIs DEF Answering
<1>2. C' = C /\ henv' = henv
  BY AnsweringKept
<1>3. t \in Nat /\ t + 1 \in N + 1..Last + 1
  BY <1>1
<1>4. t + 1 <= Len(TScript(C, Learned(C, henv, t + 1))) <=> t + 1 <= Last
  BY <1>1, <1>3 DEF Answerable, Last
<1>5. t < Len(TScript(C, Learned(C, henv, t + 1))) <=> t < Last
  BY <1>1, <1>3, <1>4
<1>6. ASSUME t < Last PROVE OnTime(t + 1)' /\ answer' = answer /\ tcall' # "idle"
  <2>1. /\ twait' = FALSE /\ tpc' = t + 1 /\ tenv' = Learned(C, henv, t + 1)
        /\ tcall' = C /\ answer' = answer
    BY <1>5, <1>6 DEF TAdvance
  <2>2. QED
    BY <1>2, <2>1, Made DEF OnTime
<1>7. ASSUME t = Last
      PROVE  /\ tcall' = "idle" /\ tpc' = 1 /\ tenv' = Unknown /\ ~twait'
             /\ answer' = result
  <2>1. ~(t < Len(TScript(C, Learned(C, henv, t + 1))))
    BY <1>1, <1>5, <1>7
  <2>2. /\ tcall' = "idle" /\ tpc' = 1 /\ tenv' = Unknown /\ ~twait'
        /\ answer' = Answer(C, Learned(C, henv, t + 1))
    BY <1>1, <2>1 DEF TAdvance
  <2>3. Answer(C, Learned(C, henv, Last + 1)) = Answer(C, henv)
    BY <1>1 DEF Answerable, Last
  <2>4. QED
    BY <1>7, <2>2, <2>3 DEF Answering
<1>8. gdStatus' \in {gdStatus, 2}
  BY DEF TAdvance
<1>9. QED
  BY <1>6, <1>7, <1>8

(* The target can only read a value where the host writes one.             *)
LEMMA TakesGet ==
  ASSUME Usual, Asked, Answering, NEW t \in N + 1..Last, OnTime(t),
         GetStep(C, henv, t), Target
  PROVE  /\ TGet
         /\ Head(toTarget) = Word(TScript(C, henv)[t].field,
                                  ValueOf(henv, TScript(C, henv)[t].field)) =>
              TAdvance(Learned(C, henv, t + 1))
<1>1. tcall = C /\ ~twait /\ tpc = t /\ tenv = Learned(C, henv, t)
  BY DEF OnTime
<1>2. TScript(tcall, tenv)[tpc].do = "get" /\ TField = TScript(C, henv)[t].field
  BY <1>1 DEF GetStep, TField
<1>3. TGet
  BY <1>1, <1>2 DEF Target, TPut, TSend, TAnswer, TLoad, TDoing
<1>4. ASSUME Head(toTarget) = Word(TField, ValueOf(henv, TField))
      PROVE  TAdvance(Learned(C, henv, t + 1))
  BY <1>1, <1>2, <1>3, <1>4 DEF TGet, Word, GetStep
<1>5. QED
  BY <1>2, <1>3, <1>4

(* The target can only read a block where the host writes one.             *)
LEMMA TakesLoad ==
  ASSUME Usual, Asked, Answering, NEW t \in N + 1..Last, OnTime(t),
         LoadStep(C, henv, t), Target
  PROVE  /\ TLoad
         /\ tenv[TField] = henv[TScript(C, henv)[t].field]
         /\ TAdvance(Learned(C, henv, t + 1))
<1>1. tcall = C /\ ~twait /\ tpc = t /\ tenv = Learned(C, henv, t)
  BY DEF OnTime
<1>2. TScript(tcall, tenv)[tpc].do = "load" /\ TField = TScript(C, henv)[t].field
  BY <1>1 DEF LoadStep, TField
<1>3. TLoad
  BY <1>1, <1>2 DEF Target, TPut, TSend, TAnswer, TGet, TDoing
<1>4. QED
  BY <1>1, <1>2, <1>3 DEF TLoad, LoadStep

(* The last answer to a block of the call's arguments comes late.          *)
LEMMA TakesLate ==
  ASSUME Usual, Asked, Answering, Late, hpc = N + 2, Target
  PROVE  /\ toTarget' = Tail(toTarget)
         /\ UNCHANGED <<hostVars, toHost, gdStatus, history>>
         /\ tcall' # "idle"
         /\ OnTime(hpc - 1)'
<1>1. tcall = C /\ twait /\ tenv = E /\ tpc = N
  BY DEF Late
<1>2. TAnswer
  BY <1>1 DEF Target, TPut, TSend, TGet, TLoad, TDoing
<1>3. TAdvance(E) /\ toTarget' = Tail(toTarget)
      /\ UNCHANGED <<hostVars, toHost, asked, executed, done, result>>
  BY <1>1, <1>2 DEF TAnswer
<1>4. N < Len(TScript(C, E)) /\ N \in Nat
  BY Made DEF Tellable, Ends, N, Answering
<1>5. /\ twait' = FALSE /\ tpc' = N + 1 /\ tenv' = E
      /\ UNCHANGED <<tcall, gdStatus, answer>>
  BY <1>1, <1>3, <1>4 DEF TAdvance
<1>6. C' = C /\ henv' = henv /\ hpc' - 1 = N + 1
  BY <1>3, <1>4, AnsweringKept
<1>7. Learned(C, henv, N + 1) = E
  BY AnswerIs DEF Answerable
<1>8. OnTime(hpc - 1)'
  BY <1>1, <1>5, <1>6, <1>7 DEF OnTime
<1>9. QED
  BY <1>1, <1>3, <1>5, <1>8, Made DEF history


(* What no step of the target changes.                                     *)
LEMMA TargetFrame ==
  ASSUME Target, Plain
  PROVE  /\ UNCHANGED <<hostVars, asked, executed, done, result>>
         /\ Plain'
         /\ tcall # "idle"
<1>1. /\ UNCHANGED <<hostVars, asked, executed, done, result>>
      /\ gdStatus' \in {gdStatus, 2} /\ twait' \in BOOLEAN
      /\ tcall \in Calls
  BY DEF Target, TPut, TGet, TSend, TAnswer, TLoad, TAdvance, TDoing, history
<1>2. gdb' = gdb
  BY <1>1 DEF hostVars
<1>3. QED
  BY <1>1, <1>2, NotCalls DEF Plain

(* The target takes the item and replies to it.                            *)
LEMMA TakesItem ==
  ASSUME Usual, Asked, Answering, UNCHANGED <<hostVars, asked, executed, done, result>>,
         NEW item, NEW reply, Exchange(item, reply), OnTime(hpc - 1),
         TAdvance(Learned(C, henv, hpc)), toHost' = <<reply>>, toTarget' = <<>>
  PROVE  \/ Taken' /\ answer' = answer /\ tcall' # "idle"
         \/ Resting' /\ answer' = result
<1>0. PICK t \in N + 1..Last : t = hpc - 1
  BY AnswerIs
<1>1. /\ N = Ins(C, E) /\ N \in Nat /\ Last \in Nat /\ Len(HScript(C, henv)) = Last + 1
      /\ hpc \in Nat /\ t \in N + 1..Last /\ t + 1 = hpc
  BY <1>0, AnswerIs
<1>2. /\ C' = C /\ hcall' = hcall /\ hpc' = hpc /\ henv' = henv /\ hwait' = hwait
      /\ Last' = Last
  BY AnsweringKept
<1>3. tcall = C /\ tpc = t
  BY <1>0 DEF OnTime
<1>4. Exchange(item, reply)'
  BY <1>2 DEF Exchange
<1>5. /\ t < Last => OnTime(t + 1)' /\ answer' = answer /\ tcall' # "idle"
      /\ t = Last => /\ tcall' = "idle" /\ tpc' = 1 /\ tenv' = Unknown /\ ~twait'
                     /\ answer' = result
  <2>1. TAdvance(Learned(C, henv, t + 1))
    BY <1>1
  <2>2. QED
    BY <1>1, <1>3, <2>1, TakesOn
<1>6. CASE t < Last
  <2>1. OnTime(hpc)'
    <3>1. OnTime(t + 1)'
      BY <1>5, <1>6
    <3>2. tpc' = t + 1 /\ tenv' = Learned(C', henv', t + 1) /\ tcall' = C' /\ ~twait'
      BY <3>1 DEF OnTime
    <3>3. tpc' = hpc' /\ tenv' = Learned(C', henv', hpc')
      BY <1>1, <1>2, <3>2
    <3>4. QED
      BY <3>2, <3>3 DEF OnTime
  <2>2. hpc' < Len(HScript(C, henv))'
    BY <1>1, <1>2, <1>6
  <2>3. QED
    BY <1>4, <1>5, <1>6, <2>1, <2>2 DEF Taken
<1>7. CASE t = Last
  <2>1. hpc = Len(HScript(C, henv)) /\ hpc # 0
    BY <1>1, <1>7
  <2>2. C \in Calls \ {"exit"} /\ henv \in [Values -> 0..MinusOne] /\ hcall = C
    BY Made DEF Answering, Outcome
  <2>3. Closing(reply)'
    BY <1>1, <1>2, <2>1, <2>2 DEF Closing, Exchange, HField
  <2>4. QED
    BY <1>5, <1>7, <2>3 DEF Resting
<1>8. QED
  BY <1>1, <1>6, <1>7


(* With nothing on the line, the target can only skip an empty block.      *)
LEMMA TargetWaits ==
  ASSUME Usual, Asked, Answering, NEW t \in N + 1..Last, OnTime(t), toTarget = <<>>, Target,
         UNCHANGED <<hostVars, asked, executed, done, result>>
  PROVE  /\ Skips /\ t = 3
         /\ toTarget' = <<>> /\ toHost' = toHost
         /\ OnTime(4)' /\ answer' = answer /\ tcall' # "idle"
<1>1. GetStep(C, henv, t) \/ LoadStep(C, henv, t)
  BY AnswerIs
<1>2. ~GetStep(C, henv, t)
  <2>1. GetStep(C, henv, t) => TGet
    BY TakesGet
  <2>2. QED
    BY <2>1 DEF TGet
<1>3. /\ TLoad /\ tenv[TField] = henv[TScript(C, henv)[t].field]
      /\ TAdvance(Learned(C, henv, t + 1)) /\ LoadStep(C, henv, t)
  BY <1>1, <1>2, TakesLoad
<1>4. tenv[TField] = 0 /\ toTarget' = <<>> /\ toHost' = toHost
  BY <1>3 DEF TLoad
<1>5. C = "read" /\ t = 3
  BY <1>3, <1>4 DEF LoadStep
<1>6. Skips /\ Last = 4
  BY <1>3, <1>4, <1>5, AnswerOfRead DEF Skips
<1>7. tcall = C /\ tpc = t
  BY DEF OnTime
<1>8. OnTime(t + 1)' /\ answer' = answer /\ tcall' # "idle"
  BY <1>3, <1>5, <1>6, <1>7, TakesOn
<1>9. OnTime(4)'
  BY <1>5, <1>8 DEF OnTime
<1>10. QED
  BY <1>4, <1>5, <1>6, <1>8, <1>9

(* The target's steps while the host has still to write.                   *)
LEMMA TargetDue ==
  ASSUME Usual, Asked, Answering, Due, Target, Plain
  PROVE  Answering' /\ Due' /\ answer' = answer /\ tcall' # "idle"
<1>1. UNCHANGED <<hostVars, asked, executed, done, result>>
  BY TargetFrame
<1>2. /\ Answering' /\ C' = C /\ henv' = henv /\ hpc' = hpc /\ hwait' = "none" /\ Skips' = Skips
  BY <1>1, AnsweringKept DEF Due
<1>3. toHost = <<>>
  BY DEF Due
<1>4. PICK t \in N + 1..Last : t = hpc - 1
  BY AnswerIs
<1>5. CASE Late /\ hpc = N + 2 /\ toTarget = <<Good>>
  <2>1. /\ toTarget' = Tail(toTarget) /\ UNCHANGED <<hostVars, toHost, gdStatus, history>>
        /\ tcall' # "idle" /\ OnTime(hpc - 1)'
    BY <1>5, TakesLate
  <2>2. toTarget' = <<>> /\ toHost' = <<>> /\ answer' = answer
    BY <1>3, <1>5, <2>1 DEF history
  <2>3. QED
    BY <1>2, <2>1, <2>2 DEF Due
<1>6. CASE OnTime(hpc - 1) /\ toTarget = <<>>
  <2>1. OnTime(t)
    BY <1>4, <1>6
  <2>2. /\ Skips /\ t = 3 /\ toTarget' = <<>> /\ toHost' = toHost
        /\ OnTime(4)' /\ answer' = answer /\ tcall' # "idle"
    BY <1>1, <1>6, <2>1, TargetWaits
  <2>3. hpc = 4
    BY <1>4, <2>2, AnswerIs
  <2>4. QED
    BY <1>2, <1>3, <2>2, <2>3 DEF Due
<1>7. CASE Skips /\ hpc = 4 /\ OnTime(4) /\ toTarget = <<>>
  <2>1. N = 2 /\ Last = 4
    BY <1>7, AnswerOfRead DEF Skips
  <2>2. 4 \in N + 1..Last
    BY <2>1
  <2>3. FALSE
    BY <1>1, <1>7, <2>2, TargetWaits
  <2>4. QED
    BY <2>3
<1>8. CASE Skips /\ hpc = 5 /\ OnTime(3) /\ toTarget = <<>>
  <2>1. N = 2 /\ Last = 4
    BY <1>8, AnswerOfRead DEF Skips
  <2>2. 3 \in N + 1..Last
    BY <2>1
  <2>3. /\ toTarget' = <<>> /\ toHost' = toHost
        /\ OnTime(4)' /\ answer' = answer /\ tcall' # "idle"
    BY <1>1, <1>8, <2>2, TargetWaits
  <2>4. OnTime(hpc - 1)'
    <3>1. hpc' - 1 = 4
      BY <1>2, <1>8
    <3>2. QED
      BY <2>3, <3>1 DEF OnTime
  <2>5. QED
    BY <1>2, <1>3, <2>3, <2>4 DEF Due
<1>9. QED
  BY <1>5, <1>6, <1>7, <1>8 DEF Due

(* The target's steps when the host has written; the last one returns the  *)
(* result.                                                                 *)
LEMMA TargetSent ==
  ASSUME Usual, Asked, Answering, Sent, Target, Plain
  PROVE  \/ Answering' /\ (Sent \/ Taken)' /\ answer' = answer /\ tcall' # "idle"
         \/ Resting' /\ answer' = result
<1>1. UNCHANGED <<hostVars, asked, executed, done, result>>
  BY TargetFrame
<1>2. /\ Answering' /\ C' = C /\ N' = N /\ Skips' = Skips
      /\ henv' = henv /\ hpc' = hpc /\ hwait' = hwait
  BY <1>1, AnsweringKept
<1>3. PICK item, reply :
         /\ Exchange(item, reply)
         /\ toHost = <<>>
         /\ \/ Late /\ hpc = N + 2 /\ toTarget = <<Good, item>>
            \/ OnTime(hpc - 1) /\ toTarget = <<item>>
            \/ Skips /\ hpc = 5 /\ OnTime(3) /\ toTarget = <<item>>
  BY DEF Sent
<1>4. Exchange(item, reply)'
  BY <1>2, <1>3 DEF Exchange
<1>5. PICK t \in N + 1..Last : t = hpc - 1
  BY AnswerIs
<1>6. hpc = t + 1 /\ hpc \in Nat
  BY <1>5, AnswerIs
<1>7. CASE Late /\ hpc = N + 2 /\ toTarget = <<Good, item>>
  <2>1. /\ toTarget' = Tail(toTarget) /\ UNCHANGED <<hostVars, toHost, gdStatus, history>>
        /\ tcall' # "idle" /\ OnTime(hpc - 1)'
    BY <1>7, TakesLate
  <2>2. toTarget' = <<item>> /\ toHost' = <<>> /\ answer' = answer
    BY <1>3, <1>7, <2>1 DEF history
  <2>3. QED
    BY <1>2, <1>4, <2>1, <2>2 DEF Sent
<1>8. CASE OnTime(hpc - 1) /\ toTarget = <<item>>
  <2>1. OnTime(t) /\ Head(toTarget) = item /\ Tail(toTarget) = <<>>
    BY <1>5, <1>8
  <2>2. CASE GetStep(C, henv, t)
    <3>1. item = Word(TScript(C, henv)[t].field, ValueOf(henv, TScript(C, henv)[t].field))
          /\ reply = item
      BY <1>3, <1>6, <2>2 DEF Exchange, GetStep
    <3>2. TGet /\ TAdvance(Learned(C, henv, t + 1))
      BY <2>1, <2>2, <3>1, TakesGet
    <3>3. toTarget' = <<>> /\ toHost' = <<reply>>
      BY <1>3, <2>1, <3>1, <3>2 DEF TGet
    <3>4. TAdvance(Learned(C, henv, hpc))
      BY <1>6, <3>2
    <3>5. QED
      BY <1>1, <1>2, <1>3, <1>8, <3>3, <3>4, TakesItem
  <2>3. CASE LoadStep(C, henv, t)
    <3>1. /\ TLoad /\ tenv[TField] = henv[TScript(C, henv)[t].field]
          /\ TAdvance(Learned(C, henv, t + 1))
      BY <2>1, <2>3, TakesLoad
    <3>2. henv[TScript(C, henv)[t].field] # 0 /\ reply = Good
      BY <1>3, <1>6, <2>3 DEF Exchange, LoadStep
    <3>3. toTarget' = <<>> /\ toHost' = <<reply>>
      <4>1. toTarget' = Tail(toTarget) /\ toHost' = Append(toHost, Good)
        BY <3>1, <3>2 DEF TLoad
      <4>2. QED
        BY <1>3, <2>1, <3>2, <4>1
    <3>4. TAdvance(Learned(C, henv, hpc))
      BY <1>6, <3>1
    <3>5. QED
      BY <1>1, <1>2, <1>3, <1>8, <3>3, <3>4, TakesItem
  <2>4. QED
    BY <2>2, <2>3, AnswerIs
<1>9. CASE Skips /\ hpc = 5 /\ OnTime(3) /\ toTarget = <<item>>
  <2>1. /\ N = 2 /\ Last = 4 /\ LoadStep(C, henv, 3)
        /\ TScript(C, henv)[3].field = "count" /\ henv["count"] = 0
    BY <1>9, AnswerOfRead DEF Skips
  <2>2. 3 \in N + 1..Last
    BY <2>1
  <2>3. /\ TLoad /\ tenv[TField] = henv[TScript(C, henv)[3].field]
        /\ TAdvance(Learned(C, henv, 3 + 1))
    BY <1>9, <2>1, <2>2, TakesLoad
  <2>4. toTarget' = <<item>> /\ toHost' = <<>>
    BY <1>3, <1>9, <2>1, <2>3 DEF TLoad
  <2>5. tcall = C /\ tpc = 3
    BY <1>9 DEF OnTime
  <2>6. OnTime(3 + 1)' /\ answer' = answer /\ tcall' # "idle"
    BY <1>1, <2>1, <2>2, <2>3, <2>5, TakesOn
  <2>7. OnTime(hpc - 1)'
    <3>1. hpc' - 1 = 3 + 1
      BY <1>2, <1>9
    <3>2. QED
      BY <2>6, <3>1 DEF OnTime
  <2>8. QED
    BY <1>2, <1>4, <2>4, <2>6, <2>7 DEF Sent
<1>10. QED
  BY <1>3, <1>7, <1>8, <1>9

(* The target waits as long as the host has not read its reply.            *)
LEMMA TargetTaken ==
  ASSUME Usual, Asked, Answering, Taken, Plain
  PROVE  ~Target
<1> SUFFICES ASSUME Target PROVE FALSE
  OBVIOUS
<1>1. UNCHANGED <<hostVars, asked, executed, done, result>>
  BY TargetFrame
<1>2. OnTime(hpc) /\ toTarget = <<>> /\ hpc < Len(HScript(C, henv))
  BY DEF Taken
<1>3. N \in Nat /\ Last \in Nat /\ Len(HScript(C, henv)) = Last + 1 /\ hpc - 1 \in N + 1..Last
      /\ hpc \in Nat
  BY AnswerIs
<1>4. PICK t \in N + 1..Last : t = hpc
  BY <1>2, <1>3
<1>5. Skips /\ t = 3
  BY <1>1, <1>2, <1>4, TargetWaits
<1>6. N = 2
  BY <1>5, AnswerOfRead DEF Skips
<1>7. QED
  BY <1>3, <1>4, <1>5, <1>6


(* The late answer and the first item of the call's.                       *)
LEMMA AppendTwo ==
  ASSUME NEW x, NEW y
  PROVE  Append(<<x>>, y) = <<x, y>>
<1> DEFINE S == {x, y}
<1>1. <<x>> \in Seq(S) /\ y \in S /\ <<x, y>> \in Seq(S)
  OBVIOUS
<1> HIDE DEF S
<1>2. /\ Append(<<x>>, y) \in Seq(S) /\ Len(Append(<<x>>, y)) = 2
      /\ Append(<<x>>, y)[1] = x /\ Append(<<x>>, y)[2] = y
  BY <1>1, AppendProperties
<1>3. Len(<<x, y>>) = 2 /\ <<x, y>>[1] = x /\ <<x, y>>[2] = y
  OBVIOUS
<1>4. \A i \in 1..2 : Append(<<x>>, y)[i] = <<x, y>>[i]
  BY <1>2, <1>3
<1>5. QED
  BY <1>1, <1>2, <1>3, <1>4, SeqEqual

(* The host's steps while it answers.                                      *)
LEMMA HostFrame ==
  ASSUME Host, Plain, ~HRunIt
  PROVE  /\ UNCHANGED <<targetVars, history>>
         /\ Plain'
<1>1. UNCHANGED <<targetVars, history>> /\ UNCHANGED gdb
  BY DEF Host, HCommand, HRecv, HSend, HEcho, HData, HBlock, HAnswer
<1>2. QED
  BY <1>1 DEF Plain, targetVars

(* The host goes on to its next step, with the target where it was.        *)
LEMMA GoesOn ==
  ASSUME Usual, Asked, Answering, UNCHANGED <<targetVars, history>>,
         HAdvance(henv), hpc < Len(HScript(C, henv))
  PROVE  /\ Answering' /\ hpc' = hpc + 1 /\ hwait' = "none"
         /\ C' = C /\ henv' = henv /\ Skips' = Skips
         /\ \A t : OnTime(t)' <=> OnTime(t)
<1>1. /\ hcall = C /\ hpc \in N + 2..Len(HScript(C, henv)) /\ N \in Nat
      /\ Len(HScript(C, henv)) \in Nat
  BY AnswerIs DEF Answering
<1>2. /\ hwait' = "none" /\ hpc' = hpc + 1 /\ henv' = henv /\ hcall' = hcall
  BY <1>1 DEF HAdvance
<1>3. C' = C /\ E' = E /\ N' = N /\ Skips' = Skips
  BY Kept DEF history
<1>4. hpc + 1 \in N + 2..Len(HScript(C, henv))
  BY <1>1
<1>5. Answering'
  BY <1>1, <1>2, <1>3, <1>4 DEF Answering, history
<1>6. \A t : OnTime(t)' <=> OnTime(t)
  BY <1>2, <1>3 DEF OnTime, targetVars
<1>7. QED
  BY <1>2, <1>3, <1>5, <1>6

(* The host writes, or skips an empty block.                               *)
LEMMA HostDue ==
  ASSUME Usual, Asked, Answering, Due, Host, ~HRunIt
  PROVE  Answering' /\ (Due \/ Sent)'
<1>1. UNCHANGED <<targetVars, history>>
  BY DEF Host, HCommand, HRecv, HSend, HEcho, HData, HBlock, HAnswer
<1>2. hcall = C /\ C \in Calls /\ C # "loop" /\ hwait = "none" /\ hpc \in Nat
  BY Made, AnswerIs DEF Answering, Due
<1>3. PICK t \in N + 1..Last : t = hpc - 1
  BY AnswerIs
<1>4. hpc = t + 1
  BY <1>2, <1>3
<1>5. GetStep(C, henv, t) \/ LoadStep(C, henv, t)
  BY AnswerIs
<1>6. HScript(hcall, henv)[hpc].do \in {"send", "block"}
  BY <1>2, <1>4, <1>5 DEF GetStep, LoadStep
<1>7. HSend \/ HBlock
  BY <1>2, <1>6 DEF Host, HCommand, HRecv, HEcho, HData, HAnswer, HDoing
<1>8. HField = HScript(C, henv)[hpc].field
  BY <1>2 DEF HField
<1>9. /\ C' = C /\ E' = E /\ N' = N /\ Skips' = Skips
      /\ tcall' = tcall /\ tpc' = tpc /\ tenv' = tenv /\ twait' = twait
  BY <1>1, Kept DEF history, targetVars
<1>10. ASSUME NEW item, NEW reply, hwait' # "none", UNCHANGED <<hcall, hpc, henv, toHost>>,
              toTarget' = Append(toTarget, item), Exchange(item, reply)',
              ~(Skips /\ hpc = 4 /\ OnTime(4))
       PROVE  Answering' /\ Sent'
  <2>1. Answering'
    BY <1>1, <1>9, <1>10 DEF Answering, history
  <2>2. Late' = Late /\ \A u : OnTime(u)' <=> OnTime(u)
    BY <1>9, <1>10 DEF Late, OnTime
  <2>3. toHost' = <<>>
    BY <1>10 DEF Due
  <2>4. CASE Late /\ hpc = N + 2 /\ toTarget = <<Good>>
    <3>1. toTarget' = <<Good, item>>
      BY <1>10, <2>4, AppendTwo
    <3>2. QED
      BY <1>9, <1>10, <2>1, <2>2, <2>3, <2>4, <3>1 DEF Sent
  <2>5. CASE OnTime(hpc - 1) /\ toTarget = <<>>
    <3>1. toTarget' = <<item>>
      BY <1>10, <2>5
    <3>2. OnTime(hpc - 1)'
      BY <1>9, <1>10, <2>5 DEF OnTime
    <3>3. QED
      BY <1>9, <1>10, <2>1, <2>3, <3>1, <3>2 DEF Sent
  <2>6. CASE Skips /\ hpc = 5 /\ OnTime(3) /\ toTarget = <<>>
    <3>1. toTarget' = <<item>>
      BY <1>10, <2>6
    <3>2. OnTime(3)'
      BY <1>9, <1>10, <2>6 DEF OnTime
    <3>3. QED
      BY <1>9, <1>10, <2>1, <2>3, <2>6, <3>1, <3>2 DEF Sent
  <2>7. QED
    BY <1>10, <2>4, <2>5, <2>6 DEF Due
<1>11. CASE HSend
  <2>1. HScript(C, henv)[hpc].do = "send"
    BY <1>2, <1>11 DEF HSend, HDoing
  <2>2. ~(Skips /\ hpc = 4 /\ OnTime(4))
    <3>1. Skips /\ hpc = 4 => LoadStep(C, henv, 3)
      BY AnswerOfRead DEF Skips
    <3>2. Skips /\ hpc = 4 => HScript(C, henv)[hpc].do = "block"
      BY <3>1 DEF LoadStep
    <3>3. QED
      BY <2>1, <3>2
  <2> DEFINE item == Word(HField, ValueOf(henv, HField))
  <2>3. PICK sent : sent = item
    OBVIOUS
  <2>4. /\ hwait' = "echo" /\ UNCHANGED <<hcall, hpc, henv, toHost>>
        /\ toTarget' = Append(toTarget, sent)
    BY <1>11, <2>3 DEF HSend
  <2>5. Exchange(sent, sent)'
    BY <1>8, <1>9, <2>1, <2>3, <2>4 DEF Exchange
  <2>6. QED
    BY <1>10, <2>2, <2>4, <2>5
<1>12. CASE HBlock /\ henv[HField] # 0
  <2>1. HScript(C, henv)[hpc].do = "block"
    BY <1>2, <1>12 DEF HBlock, HDoing
  <2>2. ~(Skips /\ hpc = 4 /\ OnTime(4))
    <3>1. Skips /\ hpc = 4 => /\ LoadStep(C, henv, 3) /\ TScript(C, henv)[3].field = "count"
                              /\ henv["count"] = 0
      BY AnswerOfRead DEF Skips
    <3>2. Skips /\ hpc = 4 => henv[HField] = 0
      BY <1>8, <3>1 DEF LoadStep
    <3>3. QED
      BY <1>12, <3>2
  <2>3. PICK sent : sent = Block(henv[HField])
    OBVIOUS
  <2>4. /\ hwait' = "answer" /\ UNCHANGED <<hcall, hpc, henv, toHost>>
        /\ toTarget' = Append(toTarget, sent)
    BY <1>12, <2>3 DEF HBlock
  <2>5. Exchange(sent, Good)'
    BY <1>8, <1>9, <1>12, <2>1, <2>3, <2>4 DEF Exchange
  <2>6. QED
    BY <1>10, <2>2, <2>4, <2>5
<1>13. CASE HBlock /\ henv[HField] = 0
  <2>1. HScript(C, henv)[hpc].do = "block"
    BY <1>2, <1>13 DEF HBlock, HDoing
  <2>2. LoadStep(C, henv, t)
    BY <1>4, <1>5, <2>1 DEF GetStep
  <2>3. C = "read" /\ t = 3
    <3>1. henv[TScript(C, henv)[t].field] = 0
      BY <1>4, <1>8, <1>13, <2>2 DEF LoadStep
    <3>2. QED
      BY <2>2, <3>1 DEF LoadStep
  <2>4. /\ N = 2 /\ Last = 4 /\ hpc = 4 /\ Len(HScript(C, henv)) = 5
        /\ TScript(C, henv)[3].field = "count" /\ henv["count"] = E["count"]
    BY <1>4, <2>3, AnswerOfRead, AnswerIs
  <2>5. Skips
    BY <1>4, <1>8, <1>13, <2>2, <2>3, <2>4 DEF LoadStep, Skips
  <2>6. HAdvance(henv) /\ toTarget' = toTarget /\ toHost' = toHost
    BY <1>13 DEF HBlock
  <2>7. hpc < Len(HScript(C, henv))
    BY <2>4
  <2>8. /\ Answering' /\ hpc' = hpc + 1 /\ hwait' = "none"
        /\ C' = C /\ henv' = henv /\ Skips' = Skips
        /\ \A u : OnTime(u)' <=> OnTime(u)
    BY <1>1, <2>6, <2>7, GoesOn
  <2>9. hpc' = 5 /\ toHost' = <<>>
    BY <2>4, <2>6, <2>8 DEF Due
  <2>10. ~Late
    <3>1. Late => TScript(C, E)[2].do = "send"
      BY <2>4 DEF Late
    <3>2. TScript(C, E)[2].do = "put"
      BY <2>3, Made DEF ReadSteps
    <3>3. QED
      BY <3>1, <3>2
  <2>11. CASE OnTime(hpc - 1) /\ toTarget = <<>>
    <3>1. OnTime(3)
      BY <2>4, <2>11 DEF OnTime
    <3>2. OnTime(3)'
      BY <2>8, <3>1
    <3>3. QED
      BY <2>5, <2>6, <2>8, <2>9, <2>11, <3>2 DEF Due
  <2>12. CASE Skips /\ hpc = 4 /\ OnTime(4) /\ toTarget = <<>>
    <3>1. OnTime(4)'
      BY <2>8, <2>12
    <3>2. OnTime(hpc - 1)'
      <4>1. hpc' - 1 = 4
        BY <2>9
      <4>2. QED
        BY <3>1, <4>1 DEF OnTime
    <3>3. QED
      BY <2>6, <2>8, <2>9, <2>12, <3>2 DEF Due
  <2>13. QED
    BY <2>4, <2>10, <2>11, <2>12 DEF Due
<1>14. QED
  BY <1>7, <1>11, <1>12, <1>13

(* The host waits for a reply.                                             *)
LEMMA HostSent ==
  ASSUME Usual, Asked, Answering, Sent
  PROVE  ~Host
<1> SUFFICES ASSUME Host PROVE FALSE
  OBVIOUS
<1>1. /\ hcall = C /\ C \in Calls /\ C # "loop"
      /\ hwait # "none" /\ toHost = <<>>
  BY Made DEF Answering, Sent, Exchange
<1>2. QED
  BY <1>1 DEF Host, HCommand, HRecv, HSend, HEcho, HData, HBlock, HAnswer, HRunIt, HDoing

(* The host reads the reply and goes on.                                   *)
LEMMA HostTaken ==
  ASSUME Usual, Asked, Answering, Taken, Host
  PROVE  Answering' /\ Due' /\ ~HRunIt
<1>1. PICK item, reply : /\ Exchange(item, reply) /\ hpc < Len(HScript(C, henv))
                         /\ OnTime(hpc) /\ toHost = <<reply>> /\ toTarget = <<>>
  BY DEF Taken
<1>2. hcall = C /\ C # "loop" /\ hwait # "none"
  BY <1>1, Made DEF Answering, Exchange
<1>3. HEcho \/ HAnswer
  BY <1>2 DEF Host, HCommand, HRecv, HSend, HData, HBlock, HRunIt, HDoing
<1>4. /\ HAdvance(henv) /\ toHost' = Tail(toHost) /\ toTarget' = toTarget
      /\ UNCHANGED <<targetVars, history>>
  BY <1>3 DEF HEcho, HAnswer
<1>5. /\ Answering' /\ hpc' = hpc + 1 /\ hwait' = "none"
      /\ C' = C /\ henv' = henv /\ Skips' = Skips
      /\ \A t : OnTime(t)' <=> OnTime(t)
  BY <1>1, <1>4, GoesOn
<1>6. PICK t : t = hpc
  OBVIOUS
<1>7. OnTime(hpc - 1)'
  <2>1. hpc' - 1 = t
    BY <1>5, <1>6, AnswerIs
  <2>2. OnTime(t)'
    BY <1>1, <1>5, <1>6
  <2>3. QED
    BY <2>1, <2>2 DEF OnTime
<1>8. toHost' = <<>> /\ toTarget' = <<>>
  BY <1>1, <1>4
<1>9. QED
  BY <1>2, <1>5, <1>7, <1>8 DEF Due, HRunIt, HDoing

-----------------------------------------------------------------------------
(* The steps between calls, and after them.                                *)
LEMMA ClosingHost ==
  ASSUME NEW item, Closing(item), Host
  PROVE  /\ HAdvance(henv) /\ Free'
         /\ toHost # <<>> /\ toHost' = Tail(toHost) /\ toTarget' = toTarget
         /\ UNCHANGED <<targetVars, gdb, history>> /\ ~HRunIt
<1>1. hwait # "none" /\ hcall # "loop"
  BY NotCalls DEF Closing
<1>2. HEcho \/ HAnswer
  BY <1>1 DEF Host, HCommand, HRecv, HSend, HData, HBlock, HRunIt, HDoing
<1>3. /\ HAdvance(henv) /\ toHost # <<>> /\ toHost' = Tail(toHost) /\ toTarget' = toTarget
      /\ UNCHANGED <<targetVars, gdb, history>>
  BY <1>2 DEF HEcho, HAnswer
<1>4. Free'
  BY <1>3, ClosingEnds
<1>5. QED
  BY <1>1, <1>3, <1>4 DEF HRunIt, HDoing

(* A host in its loop does nothing without a call.                         *)
LEMMA FreeHost ==
  ASSUME Free, toHost = <<>>
  PROVE  ~Host
BY NotCalls
   DEF Free, Host, HCommand, HRecv, HSend, HEcho, HData, HBlock, HAnswer, HRunIt, HDoing

(* The host reads the last reply after the call has returned.              *)
LEMMA RestingHost ==
  ASSUME Resting, Host, Plain
  PROVE  /\ Resting' /\ Plain' /\ UNCHANGED <<targetVars, history>> /\ ~HRunIt
         /\ hcall # "gone" /\ hcall' # "gone"
<1>1. PICK item : Closing(item) /\ toHost = <<item>>
  BY FreeHost DEF Resting
<1>2. /\ Free' /\ toHost' = Tail(toHost) /\ toTarget' = toTarget
      /\ UNCHANGED <<targetVars, gdb, history>> /\ ~HRunIt
  BY <1>1, ClosingHost
<1>3. toHost' = <<>>
  BY <1>1, <1>2
<1>4. /\ tcall' = tcall /\ tpc' = tpc /\ tenv' = tenv /\ twait' = twait /\ gdStatus' = gdStatus
  BY <1>2 DEF targetVars
<1>5. Resting'
  BY <1>2, <1>3, <1>4 DEF Resting
<1>6. hcall # "gone" /\ hcall' # "gone"
  BY <1>1, <1>2, NotCalls DEF Closing, Free
<1>7. QED
  BY <1>2, <1>4, <1>5, <1>6 DEF Plain

(* Between calls the target is silent.                                     *)
LEMMA RestingTarget ==
  ASSUME Resting \/ Over
  PROVE  ~Target
BY NotCalls DEF Resting, Over, Target, TPut, TGet, TSend, TAnswer, TLoad, TDoing

(* Every call has a step.                                                  *)
LEMMA SomeSteps ==
  ASSUME NEW c, NEW e, Ends(c, e)
  PROVE  Ins(c, e) \in Nat /\ 0 < Len(TScript(c, e))
<1>1. CASE c = "exit"
  BY <1>1 DEF Ends
<1>2. CASE c # "exit"
  BY <1>2 DEF Ends
<1>3. QED
  BY <1>1, <1>2

(* A call is entered through the tables as the call it is.                 *)
LEMMA CallAsked ==
  ASSUME Usual, TCall, Resting, Plain
  PROVE  /\ Asked' /\ done' = 0 /\ (\E q \in 0..N : Behind(q))' /\ Plain'
         /\ tcall' # "idle" /\ hcall # "gone" /\ hcall' # "gone"
<1>1. PICK c \in Calls : \E a \in Args(c) :
         /\ tcall' = Entered(c)
         /\ tenv' = [v \in Values |-> IF v \in Params(c) THEN a[v] ELSE 0]
         /\ asked' = <<c, a>>
         /\ toHost' = Append(toHost, Command(Number[Entered(c)]))
  BY DEF TCall
<1>2. PICK a \in Args(c) :
         /\ tcall' = Entered(c)
         /\ tenv' = [v \in Values |-> IF v \in Params(c) THEN a[v] ELSE 0]
         /\ asked' = <<c, a>>
         /\ toHost' = Append(toHost, Command(Number[Entered(c)]))
  BY <1>1
<1>3. C' = c /\ E' = Env(c, a) /\ Asked'
  BY <1>2 DEF C, E, Asked
<1>4. Entered(c) = c
  BY NumbersMatch
<1>5. Tellable(c, Env(c, a))
  BY TellSteps
<1>6. N' = Ins(c, Env(c, a)) /\ N' \in Nat /\ 0 < Len(TScript(c, Env(c, a)))
  <2>1. N' = Ins(c, Env(c, a))
    BY <1>3 DEF N
  <2>2. Ends(c, Env(c, a))
    BY <1>5 DEF Tellable
  <2>3. Ins(c, Env(c, a)) \in Nat /\ 0 < Len(TScript(c, Env(c, a)))
    BY <2>2, SomeSteps
  <2>4. QED
    BY <2>1, <2>3
<1>7. /\ tcall' = c /\ tenv' = Env(c, a) /\ tpc' = 1 /\ ~twait' /\ twait' = twait
      /\ toTarget' = <<>> /\ done' = 0 /\ gdStatus' = gdStatus /\ UNCHANGED hostVars
      /\ toHost' = Append(toHost, Command(Number[c]))
  BY <1>2, <1>4 DEF TCall, Resting, Env
<1>8. Telling(0)'
  BY <1>3, <1>6, <1>7 DEF Telling
<1>9. InTurn(1, 0)'
  BY DEF InTurn
<1>10. Items(c, Env(c, a), 0, 0) = <<Command(Number[c])>>
  <2>1. Items(c, Env(c, a), 0, 0) = [i \in 1..1 |-> Said(c, Env(c, a), 0 + i - 1)]
    BY DEF Items
  <2>2. \A i \in 1..1 : 0 + i - 1 = 0
    OBVIOUS
  <2>3. Said(c, Env(c, a), 0) = Command(Number[c])
    BY DEF Said
  <2>4. [i \in 1..1 |-> Said(c, Env(c, a), 0 + i - 1)] = [i \in 1..1 |-> Command(Number[c])]
    BY <2>2, <2>3
  <2>5. QED
    BY <2>1, <2>4
<1>11. hcall' = hcall /\ hpc' = hpc /\ henv' = henv /\ hwait' = hwait /\ gdb' = gdb
  BY <1>7 DEF hostVars
<1>12. Behind(0)' /\ hcall # "gone"
  <2>1. CASE Free /\ toHost = <<>>
    <3>1. Free' /\ hcall # "gone"
      BY <1>11, <2>1 DEF Free
    <3>2. toHost' = Items(C', E', 0, 0)
      BY <1>3, <1>7, <1>10, <2>1
    <3>3. QED
      BY <1>7, <1>8, <1>9, <3>1, <3>2 DEF Behind
  <2>2. CASE \E item : Closing(item) /\ toHost = <<item>>
    <3>1. PICK item : Closing(item) /\ toHost = <<item>>
      BY <2>2
    <3>2. Closing(item)' /\ hcall # "gone"
      BY <1>11, <3>1, NotCalls DEF Closing, HField
    <3>3. toHost' = <<item>> \o Items(C', E', 0, 0)
      <4> DEFINE x == Command(Number[c])
      <4> HIDE DEF x
      <4>1. Append(<<item>>, x) = <<item>> \o <<x>>
        OBVIOUS
      <4>2. QED
        BY <1>3, <1>7, <1>10, <3>1, <4>1 DEF x
    <3>4. QED
      BY <1>7, <1>8, <1>9, <3>2, <3>3 DEF Behind
  <2>3. QED
    BY <2>1, <2>2 DEF Resting
<1>13. (\E q \in 0..N : Behind(q))'
  <2>1. 0 \in 0..N'
    BY <1>6
  <2>2. QED
    BY <1>12, <2>1
<1>14. tcall' # "idle"
  BY <1>7, NotCalls
<1>15. QED
  BY <1>3, <1>7, <1>11, <1>12, <1>13, <1>14 DEF Plain

(* A target whose packet gdb did not answer waits for ever.                *)
LEMMA StuckTarget ==
  ASSUME Usual, Asked, Stuck, Target, Plain
  PROVE  Stuck' /\ Asked' /\ UNCHANGED <<hostVars, history>> /\ tcall # "idle" /\ tcall' # "idle"
<1>1. UNCHANGED <<hostVars, asked, executed, done, result>> /\ tcall # "idle"
  BY TargetFrame
<1>2. C' = C /\ E' = E /\ N' = N /\ Asked'
  BY <1>1, Kept
<1>3. Ends(C, E) /\ Expects(C, E) /\ N = Ins(C, E) /\ N \in Nat /\ C = "gdbpacket"
  BY Made DEF Tellable, Ends, N, Stuck
<1>4. N < Len(TScript(C, E))
  BY <1>3 DEF Ends
<1>5. Free'
  BY <1>1 DEF Stuck, Free, hostVars
<1>6. CASE Late /\ toTarget = <<Good>>
  <2>1. tcall = C /\ twait /\ tenv = E /\ tpc = N
    BY <1>6 DEF Late
  <2>2. TAnswer
    BY <2>1 DEF Target, TPut, TSend, TGet, TLoad, TDoing
  <2>3. TAdvance(E) /\ toTarget' = Tail(toTarget) /\ toHost' = toHost
    BY <2>1, <2>2 DEF TAnswer
  <2>4. twait' = FALSE /\ tpc' = N + 1 /\ tenv' = E /\ tcall' = C /\ answer' = answer
    BY <1>4, <2>1, <2>3 DEF TAdvance
  <2>5. toTarget' = <<>> /\ toHost' = <<>>
    BY <1>6, <2>3 DEF Stuck
  <2>6. Stuck'
    BY <1>1, <1>2, <1>3, <1>5, <2>4, <2>5 DEF Stuck
  <2>7. QED
    BY <1>1, <1>2, <2>4, <2>6, Made DEF history
<1>7. CASE tcall = C /\ ~twait /\ tenv = E /\ tpc = N + 1 /\ toTarget = <<>>
  <2>1. /\ TScript(C, E)[N + 1].do \in {"get", "load"}
        /\ TScript(C, E)[N + 1].do = "load" => E[TScript(C, E)[N + 1].field] # 0
    BY <1>3 DEF Expects
  <2>2. FALSE
    BY <1>7, <2>1 DEF Target, TPut, TSend, TAnswer, TGet, TLoad, TDoing, TField
  <2>3. QED
    BY <2>2
<1>8. QED
  BY <1>6, <1>7 DEF Stuck

(* A host that is gone does nothing.                                       *)
LEMMA OverHost ==
  ASSUME Over
  PROVE  ~Host
BY NotCalls
   DEF Over, Host, HCommand, HRecv, HSend, HEcho, HData, HBlock, HAnswer, HRunIt, HDoing

(* A new session begins between calls.                                     *)
LEMMA RestartRests ==
  ASSUME Over, Restart, Plain
  PROVE  Resting' /\ Plain' /\ UNCHANGED history
<1>1. gdb' \in {"none", "unbound", "listening"}
  BY DEF Restart, OpenGdbSocket
<1>2. QED
  BY <1>1 DEF Over, Restart, Resting, Free, Plain

-----------------------------------------------------------------------------
(* What a step is to a reader of Rpc.                                      *)
LEMMA Unnoticed ==
  ASSUME UNCHANGED history, hcall' = "gone" <=> hcall = "gone",
         tcall' = "idle" <=> tcall = "idle"
  PROVE  UNCHANGED R!vars
BY DEF history, Phase, R!vars

(* The steps of Rpc, one by one.                                           *)
LEMMA Called ==
  ASSUME TCall, Asked', done' = 0, tcall' # "idle", hcall # "gone", hcall' # "gone"
  PROVE  R!Call
<1>1. Phase = "idle" /\ Phase' = "called"
  BY DEF TCall, Phase
<1>2. /\ \E c \in Calls : \E a \in Args(c) : asked' = <<c, a>>
      /\ executed' = <<"none", <<>>>> /\ result' = 0 /\ answer' = 0
  BY DEF TCall
<1>3. QED
  BY <1>1, <1>2 DEF R!Call, R!Nothing

LEMMA Executed ==
  ASSUME done = 0, done' = 1, tcall # "idle", tcall' = tcall, hcall # "gone",
         hcall' = "gone" <=> C = "exit",
         executed' = asked, result' \in 0..MinusOne, UNCHANGED <<asked, answer>>
  PROVE  R!Execute
<1>1. Phase = "called"
  BY DEF Phase
<1>2. Phase' = IF asked[1] = "exit" THEN "over" ELSE "executed"
  BY DEF Phase, C
<1>3. QED
  BY <1>1, <1>2 DEF R!Execute

LEMMA Returned ==
  ASSUME done = 1, tcall # "idle", tcall' = "idle", hcall # "gone", hcall' = hcall,
         answer' = result, UNCHANGED <<asked, executed, result>>
  PROVE  R!Return
<1>1. Phase = "executed" /\ Phase' = "idle"
  BY DEF Phase
<1>2. QED
  BY <1>1 DEF R!Return

LEMMA Restarted ==
  ASSUME Restart
  PROVE  R!Restart
<1>1. Phase = "over" /\ Phase' = "idle"
  BY DEF Restart, Phase
<1>2. QED
  BY <1>1 DEF Restart, history, R!Restart


(* Every step keeps the invariant, and is a step of Rpc or none.           *)
Carried == IInv' /\ [R!Next]_(R!vars)

(* A step during a call that Rpc does not see.                             *)
LEMMA Stays ==
  ASSUME IInv', UNCHANGED history, tcall # "idle", tcall' # "idle",
         hcall' = "gone" <=> hcall = "gone"
  PROVE  Carried
BY Unnoticed DEF Carried

(* Every step of the target.                                               *)
LEMMA StepTarget ==
  ASSUME Usual, IInv, Target
  PROVE  Carried
<1>1. UNCHANGED <<hostVars, asked, executed, done, result>> /\ Plain' /\ tcall # "idle"
  BY TargetFrame DEF IInv
<1>2. hcall' = hcall /\ done' = done /\ asked' = asked
  BY <1>1 DEF hostVars
<1>3. Asked' = Asked /\ N' = N
  BY <1>2, Kept
<1>4. CASE Asked /\ done = 0 /\ \E q \in 0..N : Behind(q)
  <2>1. PICK q \in 0..N : Behind(q)
    BY <1>4
  <2>2. Quiet /\ \E r \in 0..N : Behind(r)'
    BY <1>4, <2>1, TargetBehind
  <2>3. (\E r \in 0..N : Behind(r))'
    BY <1>3, <2>2
  <2>4. IInv'
    BY <1>1, <1>2, <1>3, <1>4, <2>3 DEF IInv, Stage
  <2>5. QED
    BY <1>2, <2>2, <2>4, Stays DEF Quiet
<1>5. CASE Asked /\ done = 0 /\ \E q \in 0..N : \E p \in 1..q + 1 : Hearing(p, q)
  <2>1. PICK q \in 0..N : \E p \in 1..q + 1 : Hearing(p, q)
    BY <1>5
  <2>2. PICK p \in 1..q + 1 : Hearing(p, q)
    BY <2>1
  <2>3. Quiet /\ \E r \in 0..N : p \in 1..r + 1 /\ Hearing(p, r)'
    BY <1>5, <2>2, TargetHeard
  <2>4. (\E r \in 0..N : \E s \in 1..r + 1 : Hearing(s, r))'
    BY <1>3, <2>3
  <2>5. IInv'
    BY <1>1, <1>2, <1>3, <1>5, <2>4 DEF IInv, Stage
  <2>6. QED
    BY <1>2, <2>3, <2>5, Stays DEF Quiet
<1>6. CASE Asked /\ Answering /\ Due
  <2>1. Answering' /\ Due' /\ answer' = answer /\ tcall' # "idle"
    BY <1>6, TargetDue DEF IInv
  <2>2. IInv'
    BY <1>1, <1>3, <1>6, <2>1 DEF IInv, Stage
  <2>3. UNCHANGED history
    BY <1>1, <2>1 DEF history
  <2>4. QED
    BY <1>1, <1>2, <2>1, <2>2, <2>3, Stays
<1>7. CASE Asked /\ Answering /\ Sent
  <2>1. \/ Answering' /\ (Sent \/ Taken)' /\ answer' = answer /\ tcall' # "idle"
        \/ Resting' /\ answer' = result
    BY <1>7, TargetSent DEF IInv
  <2>2. CASE Answering' /\ (Sent \/ Taken)' /\ answer' = answer /\ tcall' # "idle"
    <3>1. IInv'
      BY <1>1, <1>3, <1>7, <2>2 DEF IInv, Stage
    <3>2. UNCHANGED history
      BY <1>1, <2>2 DEF history
    <3>3. QED
      BY <1>1, <1>2, <2>2, <3>1, <3>2, Stays
  <2>3. CASE Resting' /\ answer' = result
    <3>1. IInv'
      BY <1>1, <2>3 DEF IInv, Stage
    <3>2. done = 1 /\ hcall # "gone" /\ tcall' = "idle"
      BY <1>7, <2>3, Made DEF Answering, Resting
    <3>3. R!Return
      BY <1>1, <1>2, <2>3, <3>2, Returned
    <3>4. QED
      BY <3>1, <3>3 DEF Carried, R!Next
  <2>4. QED
    BY <2>1, <2>2, <2>3
<1>8. CASE Asked /\ Answering /\ Taken
  BY <1>8, TargetTaken DEF IInv
<1>9. CASE Asked /\ Stuck
  <2>1. Stuck' /\ Asked' /\ UNCHANGED <<hostVars, history>> /\ tcall # "idle" /\ tcall' # "idle"
    BY <1>9, StuckTarget DEF IInv
  <2>2. IInv' /\ UNCHANGED history
    BY <1>1, <2>1 DEF IInv, Stage
  <2>3. QED
    BY <1>2, <2>1, <2>2, Stays
<1>10. CASE Resting \/ Over
  BY <1>10, RestingTarget
<1>11. QED
  BY <1>4, <1>5, <1>6, <1>7, <1>8, <1>9, <1>10 DEF IInv, Stage

(* While a call is answered, it is under way on both sides and not carried *)
(* out again.                                                              *)
LEMMA AnsweringBusy ==
  ASSUME Usual, Asked, Answering, Due \/ Sent \/ Taken
  PROVE  tcall # "idle" /\ hcall # "gone" /\ ~HRunIt
<1>1. tcall = C /\ hcall = C
  BY DEF Answering, Due, Sent, Taken, Late, OnTime
<1>2. GetStep(C, henv, hpc - 1) \/ LoadStep(C, henv, hpc - 1)
  BY AnswerIs
<1>3. (hpc - 1) + 1 = hpc
  BY AnswerIs
<1>4. HScript(hcall, henv)[hpc].do # "run"
  <2>1. HScript(C, henv)[(hpc - 1) + 1].do \in {"send", "block"}
    BY <1>2 DEF GetStep, LoadStep
  <2>2. QED
    BY <1>1, <1>3, <2>1
<1>5. QED
  BY <1>1, <1>4, Made DEF HRunIt, HDoing

(* Every step of the host.                                                 *)
LEMMA StepHost ==
  ASSUME Usual, IInv, Host
  PROVE  Carried
<1>1. Plain
  BY DEF IInv
<1>2. ASSUME ~HRunIt
      PROVE  /\ Plain' /\ UNCHANGED history /\ tcall' = tcall /\ done' = done
             /\ Asked' = Asked /\ N' = N
  <2>1. UNCHANGED <<targetVars, history>> /\ Plain'
    BY <1>1, <1>2, HostFrame
  <2>2. asked' = asked /\ done' = done /\ tcall' = tcall /\ UNCHANGED history
    BY <2>1 DEF history, targetVars
  <2>3. QED
    BY <2>1, <2>2, Kept
<1>3. CASE Asked /\ done = 0 /\ \E q \in 0..N : Behind(q)
  <2>1. PICK q \in 0..N : Behind(q)
    BY <1>3
  <2>2. /\ UNCHANGED <<targetVars, history>> /\ tcall # "idle"
        /\ hcall # "gone" /\ hcall' # "gone"
        /\ Behind(q)' \/ Hearing(1, q)'
    BY <1>3, <2>1, HostBehind
  <2>3. ~HRunIt
    <3>1. UNCHANGED history
      BY <2>2
    <3>2. done' = done
      BY <3>1 DEF history
    <3>3. QED
      BY <1>3, <3>2 DEF HRunIt
  <2>4. /\ Plain' /\ UNCHANGED history /\ tcall' = tcall /\ done' = done
        /\ Asked' = Asked /\ N' = N
    BY <1>2, <2>3
  <2>5. q \in Nat /\ 1 \in 1..q + 1
    BY <1>3, Made DEF Tellable, Ends, N
  <2>6. (\E r \in 0..N : Behind(r))' \/ (\E r \in 0..N : \E s \in 1..r + 1 : Hearing(s, r))'
    BY <2>2, <2>4, <2>5
  <2>7. IInv'
    BY <1>3, <2>4, <2>6 DEF IInv, Stage
  <2>8. QED
    BY <2>2, <2>4, <2>7, Stays
<1>4. CASE Asked /\ done = 0 /\ \E q \in 0..N : \E p \in 1..q + 1 : Hearing(p, q)
  <2>1. PICK q \in 0..N : \E p \in 1..q + 1 : Hearing(p, q)
    BY <1>4
  <2>2. PICK p \in 1..q + 1 : Hearing(p, q)
    BY <2>1
  <2>3. hcall = C /\ hwait = "none" /\ Telling(q)
    BY <2>2 DEF Hearing
  <2>4. tcall # "idle" /\ hcall # "gone" /\ hcall # "loop"
    BY <1>4, <2>3, Made, TellerBusy
  <2>5. HScript(C, Heard(C, E, p))[p].do \in {"recv", "data", "run"}
    <3>1. Tellable(C, E) /\ N = Ins(C, E) /\ N \in Nat
      BY <1>4, Made DEF Tellable, Ends, N
    <3>2. p \in 1..N \/ p = N + 1
      BY <3>1
    <3>3. CASE p \in 1..N
      <4>1. PutStep(C, E, p) \/ SendStep(C, E, p)
        BY <3>1, <3>3 DEF Tellable
      <4>2. QED
        BY <4>1 DEF PutStep, SendStep
    <3>4. CASE p = N + 1
      BY <3>1, <3>4 DEF Tellable
    <3>5. QED
      BY <3>2, <3>3, <3>4
  <2>6. HRecv \/ HData \/ HRunIt
    <3>1. HScript(hcall, henv)[hpc].do \in {"recv", "data", "run"}
      BY <2>2, <2>5 DEF Hearing
    <3>2. QED
      BY <2>3, <2>4, <3>1 DEF Host, HCommand, HSend, HEcho, HBlock, HAnswer, HDoing
  <2>7. CASE HRecv \/ HData
    <3>1. UNCHANGED <<targetVars, history>> /\ p + 1 \in 1..q + 1 /\ Hearing(p + 1, q)'
      BY <1>4, <2>2, <2>7, HearPut, HearData
    <3>2. ~HRunIt
      <4>1. UNCHANGED history
        BY <3>1
      <4>2. done' = done
        BY <4>1 DEF history
      <4>3. QED
        BY <1>4, <4>2 DEF HRunIt
    <3>3. /\ Plain' /\ UNCHANGED history /\ tcall' = tcall /\ done' = done
          /\ Asked' = Asked /\ N' = N
      BY <1>2, <3>2
    <3>4. (\E r \in 0..N : \E s \in 1..r + 1 : Hearing(s, r))'
      BY <3>1, <3>3
    <3>5. IInv'
      BY <1>4, <3>3, <3>4 DEF IInv, Stage
    <3>6. hcall' # "gone"
      <4>1. hcall' = C' /\ C' = C
        BY <3>1, <3>3, Kept DEF Hearing, history
      <4>2. QED
        BY <1>4, <4>1, Made
    <3>7. QED
      BY <2>4, <3>3, <3>5, <3>6, Stays
  <2>8. CASE HRunIt
    <3>1. /\ UNCHANGED <<targetVars, asked, answer>> /\ Plain'
          /\ executed' = asked /\ done' = 1 /\ result' \in 0..MinusOne
          /\ \/ C = "exit" /\ Over'
             \/ C # "exit" /\ Stuck'
             \/ C # "exit" /\ Answering' /\ Due'
      BY <1>1, <1>4, <2>2, <2>8, HearRun
    <3>2. asked' = asked /\ answer' = answer /\ tcall' = tcall
      BY <3>1 DEF targetVars
    <3>3. Asked' = Asked /\ C' = C
      BY <3>2, Kept
    <3>4. hcall' = "gone" <=> C = "exit"
      BY <1>4, <3>1, <3>3, Made DEF Over, Stuck, Free, Answering
    <3>5. IInv'
      BY <1>4, <3>1, <3>3 DEF IInv, Stage
    <3>6. R!Execute
      BY <1>4, <2>4, <3>1, <3>2, <3>4, Executed
    <3>7. QED
      BY <3>5, <3>6 DEF Carried, R!Next
  <2>9. QED
    BY <2>6, <2>7, <2>8
<1>5. ASSUME Asked, Answering, Due \/ Sent \/ Taken, Answering', (Due \/ Sent)'
      PROVE  Carried
  <2>1. tcall # "idle" /\ hcall # "gone" /\ ~HRunIt
    BY <1>5, AnsweringBusy
  <2>2. /\ Plain' /\ UNCHANGED history /\ tcall' = tcall /\ Asked' = Asked
    BY <1>2, <2>1
  <2>3. IInv'
    BY <1>5, <2>2 DEF IInv, Stage
  <2>4. hcall' # "gone"
    <3>1. hcall' = C' /\ C' = C
      BY <1>5, <2>2, Kept DEF Answering, history
    <3>2. QED
      BY <1>5, <3>1, Made
  <2>5. QED
    BY <2>1, <2>2, <2>3, <2>4, Stays
<1>6. CASE Asked /\ Answering /\ Due
  BY <1>5, <1>6, AnsweringBusy, HostDue
<1>7. CASE Asked /\ Answering /\ Sent
  BY <1>7, HostSent
<1>8. CASE Asked /\ Answering /\ Taken
  BY <1>5, <1>8, HostTaken
<1>9. CASE Resting
  <2>1. /\ Resting' /\ Plain' /\ UNCHANGED <<targetVars, history>>
        /\ hcall # "gone" /\ hcall' # "gone"
    BY <1>1, <1>9, RestingHost
  <2>2. UNCHANGED history /\ tcall' = tcall
    BY <2>1 DEF targetVars
  <2>3. IInv'
    BY <2>1 DEF IInv, Stage
  <2>4. QED
    BY <2>1, <2>2, <2>3, Unnoticed DEF Carried
<1>10. CASE Asked /\ Stuck
  BY <1>10, FreeHost DEF Stuck
<1>11. CASE Over
  BY <1>11, OverHost
<1>12. QED
  BY <1>3, <1>4, <1>6, <1>7, <1>8, <1>9, <1>10, <1>11 DEF IInv, Stage

(* Only between calls is the program free to call.                         *)
LEMMA IdleRests ==
  ASSUME Usual, IInv, tcall = "idle"
  PROVE  Resting
<1>1. \A q : Asked /\ (Behind(q) \/ \E p : Hearing(p, q)) => FALSE
  BY TellerBusy DEF Behind, Hearing
<1>2. Asked /\ Answering /\ (Due \/ Sent \/ Taken) => FALSE
  BY AnsweringBusy
<1>3. Asked /\ Stuck => FALSE
  BY Made DEF Stuck, Late
<1>4. QED
  BY <1>1, <1>2, <1>3 DEF IInv, Stage, Over

(* And only after exit is the host gone.                                   *)
LEMMA GoneOver ==
  ASSUME Usual, IInv, hcall = "gone"
  PROVE  Over
<1>1. \A q : Behind(q) => FALSE
  BY NotCalls DEF Behind, Free, Closing
<1>2. \A q, p : Asked /\ Hearing(p, q) => FALSE
  BY Made DEF Hearing
<1>3. Asked /\ Answering => FALSE
  BY Made DEF Answering
<1>4. ~Stuck /\ ~Resting
  BY NotCalls DEF Stuck, Resting, Free, Closing
<1>5. QED
  BY <1>1, <1>2, <1>3, <1>4 DEF IInv, Stage

(* The program's own steps, and a new session.                             *)
LEMMA StepOther ==
  ASSUME Usual, IInv, TCall \/ TLocal \/ Restart
  PROVE  Carried
<1>1. Plain
  BY DEF IInv
<1>2. CASE TCall
  <2>1. Resting
    BY <1>2, IdleRests DEF TCall
  <2>2. /\ Asked' /\ done' = 0 /\ (\E q \in 0..N : Behind(q))' /\ Plain'
        /\ tcall' # "idle" /\ hcall # "gone" /\ hcall' # "gone"
    BY <1>1, <1>2, <2>1, CallAsked
  <2>3. IInv'
    BY <2>2 DEF IInv, Stage
  <2>4. R!Call
    BY <1>2, <2>2, Called
  <2>5. QED
    BY <2>3, <2>4 DEF Carried, R!Next
<1>3. CASE TLocal
  <2>1. Resting
    BY <1>3, IdleRests DEF TLocal
  <2>2. /\ UNCHANGED <<tcall, tpc, tenv, twait, hostVars, toHost, toTarget, history>>
        /\ gdStatus' \in {0, 2}
    BY <1>3 DEF TLocal
  <2>3. /\ UNCHANGED <<tcall, tpc, tenv, twait, hcall, hpc, henv, hwait, gdb, toHost, toTarget>>
        /\ UNCHANGED history
    BY <2>2 DEF hostVars
  <2>4. Resting' /\ Plain'
    BY <1>1, <2>1, <2>2, <2>3 DEF Resting, Free, Closing, HField, Plain
  <2>5. IInv'
    BY <2>4 DEF IInv, Stage
  <2>6. QED
    BY <2>3, <2>5, Unnoticed DEF Carried
<1>4. CASE Restart
  <2>1. Over
    BY <1>4, GoneOver DEF Restart
  <2>2. Resting' /\ Plain'
    BY <1>1, <1>4, <2>1, RestartRests
  <2>3. IInv'
    BY <2>2 DEF IInv, Stage
  <2>4. R!Restart
    BY <1>4, Restarted
  <2>5. QED
    BY <2>3, <2>4 DEF Carried, R!Next
<1>5. QED
  BY <1>2, <1>3, <1>4

(* Every step there is.                                                    *)
LEMMA StepKeeps ==
  ASSUME Usual, IInv, [Next]_vars
  PROVE  Carried
<1>1. CASE TCall \/ TLocal \/ Restart
  BY <1>1, StepOther
<1>2. CASE Target
  BY <1>2, StepTarget
<1>3. CASE Host
  BY <1>3, StepHost
<1>4. CASE UNCHANGED vars
  <2>1. /\ UNCHANGED <<targetVars, hostVars, history>>
        /\ UNCHANGED <<tcall, tpc, tenv, twait, gdStatus, hcall, hpc, henv, hwait, gdb,
                       toHost, toTarget, asked, executed, done, result, answer>>
    BY <1>4 DEF vars, targetVars, hostVars, history
  <2>2. /\ C' = C /\ E' = E /\ N' = N /\ Skips' = Skips /\ Asked' = Asked
    BY <2>1, Kept
  <2>3. Plain' = Plain /\ Free' = Free /\ Late' = Late /\ Answering' = Answering
        /\ Over' = Over /\ \A item : Closing(item)' = Closing(item)
    BY <2>1, <2>2 DEF Plain, Free, Late, Answering, Over, Closing, HField
  <2>4. \A t : OnTime(t)' = OnTime(t)
    BY <2>1, <2>2 DEF OnTime
  <2>5. Resting' = Resting /\ Stuck' = Stuck
    BY <2>1, <2>2, <2>3 DEF Resting, Stuck
  <2>6. \A q : Telling(q)' = Telling(q)
    BY <2>1, <2>2 DEF Telling
  <2>7. \A p, q : InTurn(p, q)' = InTurn(p, q)
    BY <2>1, <2>2 DEF InTurn
  <2>8. \A q : Behind(q)' = Behind(q)
    BY <2>1, <2>2, <2>3, <2>6, <2>7 DEF Behind
  <2>9. \A p, q : Hearing(p, q)' = Hearing(p, q)
    BY <2>1, <2>2, <2>6, <2>7 DEF Hearing
  <2>10. Due' = Due /\ Sent' = Sent /\ Taken' = Taken
    BY <2>1, <2>2, <2>3, <2>4 DEF Due, Sent, Taken, Exchange, OnTime
  <2>11. IInv'
    BY <2>1, <2>2, <2>3, <2>5, <2>8, <2>9, <2>10 DEF IInv, Stage
  <2>12. QED
    BY <2>1, <2>11, Unnoticed DEF Carried
<1>5. QED
  BY <1>1, <1>2, <1>3, <1>4 DEF Next

-----------------------------------------------------------------------------
(* What the invariant says of the types, state by state.                   *)
THalf == /\ tcall \in Calls \cup {"idle", "exited"}
         /\ tcall \in Calls => tpc \in 1..Len(TScript(tcall, tenv))
         /\ tenv \in [Values -> 0..MinusOne]
HHalf == /\ hcall \in Calls \cup {"loop", "gone"}
         /\ hcall \in Calls => hpc \in 1..Len(HScript(hcall, henv))
         /\ henv \in [Values -> 0..MinusOne]
         /\ hwait \in {"none", "echo", "answer"}
Kinds == {"command", "word", "block", "good"}
OfKind(line, kinds) == \A i \in DOMAIN line : Kind(line[i]) \in kinds

(* While the call is told, the target is at a step it has.                 *)
LEMMA TellingTyped ==
  ASSUME Usual, Asked, NEW q \in 0..N, Telling(q)
  PROVE  THalf
<1>1. /\ Tellable(C, E) /\ Ends(C, E) /\ ReadSteps(C, E) /\ N = Ins(C, E) /\ N \in Nat
      /\ C \in Calls /\ E \in [Values -> 0..MinusOne] /\ Unknown \in [Values -> 0..MinusOne]
  BY Made, EnvTypes DEF Tellable, Ends, N
<1>2. Len(TScript(C, E)) \in Nat /\ q \in Nat
  BY <1>1 DEF Ends
<1>3. CASE tcall = C /\ ~twait /\ tenv = E /\ tpc = q + 1 /\ q < Len(TScript(C, E))
  BY <1>1, <1>2, <1>3 DEF THalf
<1>4. CASE tcall = C /\ ~twait /\ tenv = E /\ Skips /\ q = 2 /\ tpc = 4
  BY <1>1, <1>4 DEF THalf, Skips, ReadSteps
<1>5. CASE tcall = C /\ twait /\ tenv = E /\ tpc = q /\ q > 0 /\ TScript(C, E)[q].do = "send"
  <2>1. q \in 1..Ins(C, E)
    BY <1>1, <1>2, <1>5
  <2>2. PutStep(C, E, q) \/ SendStep(C, E, q)
    BY <1>1, <2>1 DEF Tellable
  <2>3. q < Len(TScript(C, E))
    BY <1>5, <2>2 DEF PutStep, SendStep
  <2>4. tpc \in 1..Len(TScript(C, E))
    BY <1>2, <1>5, <2>3
  <2>5. QED
    BY <1>1, <1>5, <2>4 DEF THalf
<1>6. CASE tcall = "exited" /\ ~twait /\ tenv = Unknown /\ tpc = 1 /\ C = "exit" /\ q = 1
  BY <1>1, <1>6, NotCalls DEF THalf
<1>7. QED
  BY <1>3, <1>4, <1>5, <1>6 DEF Telling

(* While it is answered, too.                                              *)
LEMMA OnTimeTyped ==
  ASSUME Usual, Asked, Answering, NEW t \in N + 1..Last, OnTime(t)
  PROVE  THalf
<1>1. Answerable(C, E, henv) /\ N = Ins(C, E) /\ N \in Nat /\ Last \in Nat
  BY AnswerIs
<1>2. t \in N + 1..Last + 1 /\ t <= Last /\ t \in Nat /\ t > 0
  BY <1>1
<1>3. t <= Len(TScript(C, Learned(C, henv, t)))
  BY <1>1, <1>2 DEF Answerable, Last
<1>4. t \in 1..Len(TScript(C, Learned(C, henv, t)))
  BY <1>2, <1>3
<1>5. Learned(C, henv, t) \in [Values -> 0..MinusOne]
  BY EnvTypes DEF Answering, Outcome
<1>6. QED
  BY <1>4, <1>5, Made DEF OnTime, THalf

(* And when it has still to read the answer to its last block.             *)
LEMMA LateTyped ==
  ASSUME Usual, Asked, Late
  PROVE  THalf
<1>1. N \in Nat /\ Telling(N)
  BY Made DEF Tellable, Ends, N, Late, Telling
<1>2. QED
  BY <1>1, TellingTyped

(* At the end of a call, the host is at a step it has.                     *)
LEMMA ClosingTyped ==
  ASSUME NEW item, Closing(item)
  PROVE  HHalf /\ Kind(item) \in Kinds
<1>1. hcall \in Calls /\ hpc \in 1..Len(HScript(hcall, henv)) /\ henv \in [Values -> 0..MinusOne]
  BY DEF Closing
<1>2. hwait \in {"echo", "answer"} /\ Kind(item) \in Kinds
  BY DEF Closing, Kind, Word, Good, Kinds
<1>3. QED
  BY <1>1, <1>2 DEF HHalf

(* A host in its loop is at no step.                                       *)
LEMMA FreeTyped == Free => HHalf
<1>1. Unknown \in [Values -> 0..MinusOne]
  BY ConsoleAssumption DEF ConsoleAssumption, Unknown
<1>2. QED
  BY <1>1, NotCalls DEF Free, HHalf

(* What a step tells is of one of the kinds.                               *)
LEMMA SaidKind == \A c, e, k : Kind(Said(c, e, k)) \in Kinds
BY DEF Said, Kind, Command, Word, Block, Kinds

(* And so is what some steps tell, with the last item of an earlier call   *)
(* before it.                                                              *)
LEMMA ItemsOfKind ==
  ASSUME NEW c, NEW e, NEW p \in Nat, NEW q \in Int, p <= q + 1
  PROVE  /\ OfKind(Items(c, e, p, q), Kinds)
         /\ \A item : Kind(item) \in Kinds => OfKind(<<item>> \o Items(c, e, p, q), Kinds)
<1> DEFINE S == {Said(c, e, k) : k \in Nat}
           L == Items(c, e, p, q)
<1>1. L \in Seq(S) /\ \A x \in S : Kind(x) \in Kinds
  <2>1. AreItems(L, c, e, p, q - p + 1)
    BY ItemsSeq
  <2>2. QED
    BY <2>1, SaidKind DEF AreItems
<1> HIDE DEF S, L
<1>2. OfKind(L, Kinds)
  BY <1>1 DEF OfKind
<1>3. ASSUME NEW item, Kind(item) \in Kinds PROVE OfKind(<<item>> \o L, Kinds)
  <2> DEFINE U == S \cup {item}
  <2>1. L \in Seq(U) /\ <<item>> \in Seq(U) /\ \A x \in U : Kind(x) \in Kinds
    BY <1>1, <1>3, SeqMonotonic
  <2> HIDE DEF U
  <2>2. <<item>> \o L \in Seq(U)
    BY <2>1, ConcatProperties
  <2>3. QED
    BY <2>1, <2>2 DEF OfKind
<1>4. QED
  BY <1>2, <1>3 DEF L

(* Lines of up to two items.                                               *)
LEMMA FewOfKind ==
  /\ \A kinds : OfKind(<<>>, kinds)
  /\ \A kinds : \A x : Kind(x) \in kinds => OfKind(<<x>>, kinds)
  /\ \A kinds : \A x, y : Kind(x) \in kinds /\ Kind(y) \in kinds => OfKind(<<x, y>>, kinds)
BY DEF OfKind

(* Everything on the lines is of a kind somebody reads.                    *)
Lines == OfKind(toHost, Kinds) /\ OfKind(toTarget, {"word", "block", "good"})

(* Where the target may be while the host answers.                         *)
Along == \/ Late
         \/ OnTime(hpc - 1)
         \/ Skips /\ (OnTime(3) \/ OnTime(4))
         \/ OnTime(hpc) /\ hpc < Len(HScript(C, henv))

(* The types, part of a call by part.                                      *)
LEMMA Typed ==
  ASSUME Usual, IInv
  PROVE  THalf /\ HHalf /\ Lines
<1>1. Unknown \in [Values -> 0..MinusOne]
  BY ConsoleAssumption DEF ConsoleAssumption, Unknown
<1>2. Kind(Good) \in Kinds \cap {"word", "block", "good"}
  BY DEF Kind, Good, Kinds
<1>3. CASE Asked /\ done = 0 /\ \E q \in 0..N : Behind(q)
  <2>1. PICK q \in 0..N : Behind(q)
    BY <1>3
  <2>2. q \in Int /\ 0 \in Nat /\ 0 <= q + 1
    BY <1>3, Made DEF Tellable, Ends, N
  <2>3. THalf
    BY <1>3, <2>1, TellingTyped DEF Behind
  <2>4. OfKind(toTarget, {"word", "block", "good"})
    BY <2>1, FewOfKind DEF Behind
  <2>5. /\ OfKind(Items(C, E, 0, q), Kinds)
        /\ \A item : Kind(item) \in Kinds => OfKind(<<item>> \o Items(C, E, 0, q), Kinds)
    BY <2>2, ItemsOfKind
  <2>6. CASE Free /\ toHost = Items(C, E, 0, q)
    BY <2>3, <2>4, <2>5, <2>6, FreeTyped DEF Lines
  <2>7. CASE \E item : Closing(item) /\ toHost = <<item>> \o Items(C, E, 0, q)
    <3>1. PICK item : Closing(item) /\ toHost = <<item>> \o Items(C, E, 0, q)
      BY <2>7
    <3>2. HHalf /\ Kind(item) \in Kinds
      BY <3>1, ClosingTyped
    <3>3. QED
      BY <2>3, <2>4, <2>5, <3>1, <3>2 DEF Lines
  <2>8. QED
    BY <2>1, <2>6, <2>7 DEF Behind
<1>4. CASE Asked /\ done = 0 /\ \E q \in 0..N : \E p \in 1..q + 1 : Hearing(p, q)
  <2>1. PICK q \in 0..N : \E p \in 1..q + 1 : Hearing(p, q)
    BY <1>4
  <2>2. PICK p \in 1..q + 1 : Hearing(p, q)
    BY <2>1
  <2>3. /\ q \in Nat /\ p \in Nat /\ p <= q + 1 /\ p \in 1..Ins(C, E) + 1 /\ Tellable(C, E)
        /\ C \in Calls
    BY <1>4, Made DEF Tellable, Ends, N
  <2>4. THalf
    BY <1>4, <2>2, TellingTyped DEF Hearing
  <2>5. /\ OfKind(toTarget, {"word", "block", "good"})
    BY <1>2, <2>2, FewOfKind DEF Hearing
  <2>6. OfKind(Items(C, E, p, q), Kinds)
    BY <2>3, ItemsOfKind
  <2>7. /\ p <= Len(HScript(C, Heard(C, E, p)))
        /\ Heard(C, E, p) \in [Values -> 0..MinusOne]
    BY <2>3 DEF Tellable
  <2>8. p \in 1..Len(HScript(C, Heard(C, E, p)))
    BY <2>3, <2>7
  <2>9. HHalf
    BY <2>2, <2>3, <2>7, <2>8 DEF Hearing, HHalf
  <2>10. QED
    BY <2>2, <2>4, <2>5, <2>6, <2>9 DEF Hearing, Lines
<1>5. ASSUME Asked, Answering, hwait \in {"none", "echo", "answer"} PROVE HHalf
  <2>1. hcall = C /\ hpc \in 1..Len(HScript(C, henv)) /\ C \in Calls
    BY <1>5, Made, AnswerIs DEF Answering
  <2>2. henv \in [Values -> 0..MinusOne]
    BY <1>5 DEF Answering, Outcome
  <2>3. QED
    BY <1>5, <2>1, <2>2 DEF HHalf
<1>6. ASSUME Asked, Answering, Along
      PROVE  THalf
  <2>1. CASE Late
    BY <1>6, <2>1, LateTyped
  <2>2. CASE OnTime(hpc - 1)
    <3>1. PICK t \in N + 1..Last : t = hpc - 1
      BY <1>6, AnswerIs
    <3>2. QED
      BY <1>6, <2>2, <3>1, OnTimeTyped
  <2>3. CASE Skips /\ (OnTime(3) \/ OnTime(4))
    <3>1. N = 2 /\ Last = 4
      BY <1>6, <2>3, AnswerOfRead DEF Skips
    <3>2. 3 \in N + 1..Last /\ 4 \in N + 1..Last
      BY <3>1
    <3>3. QED
      BY <1>6, <2>3, <3>2, OnTimeTyped
  <2>4. CASE OnTime(hpc) /\ hpc < Len(HScript(C, henv))
    <3>1. PICK t \in N + 1..Last : t = hpc
      BY <1>6, <2>4, AnswerIs
    <3>2. QED
      BY <1>6, <2>4, <3>1, OnTimeTyped
  <2>5. QED
    BY <1>6, <2>1, <2>2, <2>3, <2>4 DEF Along
<1>7. CASE Asked /\ Answering /\ Due
  <2>1. hwait \in {"none", "echo", "answer"} /\ Along
    BY <1>7 DEF Due, Along, OnTime
  <2>2. THalf /\ HHalf
    BY <1>5, <1>6, <1>7, <2>1
  <2>3. Lines
    BY <1>2, <1>7, FewOfKind DEF Due, Lines
  <2>4. QED
    BY <2>2, <2>3
<1>8. ASSUME NEW item, NEW reply, Exchange(item, reply)
      PROVE  /\ hwait \in {"none", "echo", "answer"}
             /\ Kind(item) \in {"word", "block", "good"} /\ Kind(reply) \in Kinds
  BY <1>8 DEF Exchange, Word, Block, Good, Kind, Kinds
<1>9. CASE Asked /\ Answering /\ Sent
  <2>1. PICK item, reply :
          /\ Exchange(item, reply)
          /\ toHost = <<>>
          /\ \/ Late /\ hpc = N + 2 /\ toTarget = <<Good, item>>
             \/ OnTime(hpc - 1) /\ toTarget = <<item>>
             \/ Skips /\ hpc = 5 /\ OnTime(3) /\ toTarget = <<item>>
    BY <1>9 DEF Sent
  <2>2. hwait \in {"none", "echo", "answer"} /\ Kind(item) \in {"word", "block", "good"}
    BY <1>8, <2>1
  <2>3. THalf /\ HHalf
    <3>1. Along
      BY <2>1 DEF Along, OnTime
    <3>2. QED
      BY <1>5, <1>6, <1>9, <2>2, <3>1
  <2>4. Lines
    BY <1>2, <2>1, <2>2, FewOfKind DEF Lines
  <2>5. QED
    BY <2>3, <2>4
<1>10. CASE Asked /\ Answering /\ Taken
  <2>1. PICK item, reply :
          /\ Exchange(item, reply)
          /\ hpc < Len(HScript(C, henv)) /\ OnTime(hpc)
          /\ toHost = <<reply>> /\ toTarget = <<>>
    BY <1>10 DEF Taken
  <2>2. hwait \in {"none", "echo", "answer"} /\ Kind(reply) \in Kinds
    BY <1>8, <2>1
  <2>3. THalf /\ HHalf
    <3>1. Along
      BY <2>1 DEF Along, OnTime
    <3>2. QED
      BY <1>5, <1>6, <1>10, <2>2, <3>1
  <2>4. Lines
    BY <2>1, <2>2, FewOfKind DEF Lines
  <2>5. QED
    BY <2>3, <2>4
<1>11. CASE Resting
  <2>1. THalf
    BY <1>1, <1>11, NotCalls DEF Resting, THalf
  <2>2. CASE Free /\ toHost = <<>>
    BY <1>11, <2>1, <2>2, FreeTyped, FewOfKind DEF Resting, Lines
  <2>3. CASE \E item : Closing(item) /\ toHost = <<item>>
    <3>1. PICK item : Closing(item) /\ toHost = <<item>>
      BY <2>3
    <3>2. HHalf /\ Kind(item) \in Kinds
      BY <3>1, ClosingTyped
    <3>3. OfKind(toHost, Kinds) /\ OfKind(toTarget, {"word", "block", "good"})
      BY <1>11, <3>1, <3>2, FewOfKind DEF Resting
    <3>4. QED
      BY <2>1, <3>2, <3>3 DEF Lines
  <2>4. QED
    BY <1>11, <2>2, <2>3 DEF Resting
<1>12. CASE Asked /\ Stuck
  <2>1. HHalf /\ Lines
    BY <1>2, <1>12, FreeTyped, FewOfKind DEF Stuck, Lines
  <2>2. CASE Late
    BY <1>12, <2>1, <2>2, LateTyped
  <2>3. CASE tcall = C /\ ~twait /\ tenv = E /\ tpc = N + 1
    <3>1. N \in 0..N /\ N < Len(TScript(C, E))
      BY <1>12, Made DEF Stuck, Tellable, Ends, N
    <3>2. Telling(N)
      BY <2>3, <3>1 DEF Telling
    <3>3. QED
      BY <1>12, <2>1, <3>1, <3>2, TellingTyped
  <2>4. QED
    BY <1>12, <2>2, <2>3 DEF Stuck
<1>13. CASE Over
  BY <1>1, <1>13, NotCalls, FewOfKind DEF Over, THalf, HHalf, Lines
<1>14. QED
  BY <1>3, <1>4, <1>7, <1>9, <1>10, <1>11, <1>12, <1>13 DEF IInv, Stage

-----------------------------------------------------------------------------
(* What the invariant says of the next item on each line.                  *)
HostReads == toHost # <<>> => HReads
TargetReads == toTarget # <<>> => TReads

(* At the end of a call the host finds the reply it waits for.             *)
LEMMA ClosingReads ==
  ASSUME NEW item, Closing(item), Head(toHost) = item
  PROVE  HReads
<1>1. hcall \in Calls /\ hwait # "none"
  BY DEF Closing
<1>2. CASE hwait = "echo"
  BY <1>1, <1>2, NotCalls DEF Closing, HReads, HDoing
<1>3. CASE hwait = "answer"
  BY <1>1, <1>3, NotCalls DEF Closing, HReads, HDoing
<1>4. QED
  BY <1>2, <1>3 DEF Closing

(* The target finds the answer it waits for.                               *)
LEMMA LateReads ==
  ASSUME Usual, Asked, tcall = C, twait, Head(toTarget) = Good
  PROVE  TReads
BY Made DEF TReads, TDoing

(* While the host is behind.                                               *)
LEMMA BehindReads ==
  ASSUME Usual, Asked, NEW q \in 0..N, Behind(q)
  PROVE  HostReads /\ TargetReads
<1>1. 0 \in Nat /\ q \in Nat /\ q \in Int /\ 0 <= q /\ 0 <= q + 1
  BY Made DEF Tellable, Ends, N
<1>2. TargetReads
  BY DEF Behind, TargetReads
<1>3. CASE Free /\ toHost = Items(C, E, 0, q)
  <2>1. Head(toHost) = Said(C, E, 0)
    BY <1>1, <1>3, ItemsHead
  <2>2. Kind(Head(toHost)) = "command"
    BY <2>1 DEF Said, Command, Kind
  <2>3. HReads
    BY <1>3, <2>2, NotCalls DEF Free, HReads, HDoing
  <2>4. QED
    BY <1>2, <2>3 DEF HostReads
<1>4. CASE \E item : Closing(item) /\ toHost = <<item>> \o Items(C, E, 0, q)
  <2>1. PICK item : Closing(item) /\ toHost = <<item>> \o Items(C, E, 0, q)
    BY <1>4
  <2>2. AreItems(Items(C, E, 0, q), C, E, 0, q - 0 + 1)
    BY <1>1, ItemsSeq
  <2> DEFINE L == Items(C, E, 0, q)
             S == {Said(C, E, k) : k \in Nat}
  <2>3. L \in Seq(S)
    BY <2>2 DEF AreItems
  <2> HIDE DEF L, S
  <2>4. Head(<<item>> \o L) = item
    BY <2>3, HeadOfLine
  <2>5. HReads
    BY <2>1, <2>4, ClosingReads DEF L
  <2>6. QED
    BY <1>2, <2>5 DEF HostReads
<1>5. QED
  BY <1>3, <1>4 DEF Behind

(* While it listens.                                                       *)
LEMMA HearingReads ==
  ASSUME Usual, Asked, NEW q \in 0..N, NEW p \in 1..q + 1, Hearing(p, q)
  PROVE  HostReads /\ TargetReads
<1>1. /\ Tellable(C, E) /\ N = Ins(C, E) /\ N \in Nat /\ q \in Nat /\ p \in Nat
      /\ C \in Calls /\ C # "loop" /\ C # "gone"
  BY Made DEF Tellable, Ends, N
<1>2. ASSUME toHost # <<>> PROVE HReads
  <2>1. toHost = Items(C, E, p, q)
    BY DEF Hearing
  <2>2. p # q + 1
    BY <1>1, <1>2, <2>1, NoItems
  <2>3. p <= q /\ p \in 1..Ins(C, E)
    BY <1>1, <2>2
  <2>4. Head(toHost) = Said(C, E, p)
    BY <1>1, <2>1, <2>3, ItemsHead
  <2>5. hcall = C /\ hwait = "none" /\ hpc = p /\ henv = Heard(C, E, p)
    BY DEF Hearing
  <2>6. CASE PutStep(C, E, p)
    <3>1. HScript(hcall, henv)[hpc].do = "recv" /\ Head(toHost) = Word(HField, ValueOf(E, HField))
      BY <2>4, <2>5, <2>6 DEF PutStep, HField
    <3>2. QED
      BY <1>1, <2>5, <3>1 DEF HReads, HDoing, Word, Kind
  <2>7. CASE SendStep(C, E, p)
    <3>1. HScript(hcall, henv)[hpc].do = "data" /\ Head(toHost) = Block(henv[HField])
      BY <2>4, <2>5, <2>7 DEF SendStep, HField
    <3>2. QED
      BY <1>1, <2>5, <3>1 DEF HReads, HDoing
  <2>8. QED
    BY <1>1, <2>3, <2>6, <2>7 DEF Tellable
<1>3. ASSUME toTarget # <<>> PROVE TReads
  <2>1. twait /\ Head(toTarget) = Good
    BY <1>3 DEF Hearing
  <2>2. tcall = C
    BY <2>1 DEF Hearing, Telling
  <2>3. QED
    BY <2>1, <2>2, LateReads
<1>4. QED
  BY <1>2, <1>3 DEF HostReads, TargetReads

(* When it has written a part of the answer.                               *)
LEMMA SentReads ==
  ASSUME Usual, Asked, Answering, Sent
  PROVE  HostReads /\ TargetReads
<1>1. PICK item, reply :
        /\ Exchange(item, reply)
        /\ toHost = <<>>
        /\ \/ Late /\ hpc = N + 2 /\ toTarget = <<Good, item>>
           \/ OnTime(hpc - 1) /\ toTarget = <<item>>
           \/ Skips /\ hpc = 5 /\ OnTime(3) /\ toTarget = <<item>>
  BY DEF Sent
<1>2. HostReads
  BY <1>1 DEF HostReads
<1>3. PICK t \in N + 1..Last : t = hpc - 1
  BY AnswerIs
<1>4. hpc = t + 1 /\ C \in Calls
  BY <1>3, AnswerIs, Made
<1>5. CASE Late /\ toTarget = <<Good, item>>
  <2>1. Head(toTarget) = Good
    BY <1>5
  <2>2. TReads
    BY <1>5, <2>1, LateReads DEF Late
  <2>3. QED
    BY <1>2, <2>2 DEF TargetReads
<1>6. CASE OnTime(hpc - 1) /\ toTarget = <<item>>
  <2>1. tcall = C /\ ~twait /\ tpc = t /\ tenv = Learned(C, henv, t) /\ Head(toTarget) = item
    BY <1>3, <1>6 DEF OnTime
  <2>2. CASE GetStep(C, henv, t)
    <3>1. /\ TScript(tcall, tenv)[tpc].do = "get" /\ TField = TScript(C, henv)[t].field
          /\ item = Word(TField, ValueOf(henv, TField))
      BY <1>1, <1>4, <2>1, <2>2 DEF GetStep, TField, Exchange
    <3>2. TReads
      BY <1>4, <2>1, <3>1 DEF TReads, TDoing, Word, Kind
    <3>3. QED
      BY <1>2, <3>2 DEF TargetReads
  <2>3. CASE LoadStep(C, henv, t)
    <3>1. /\ TScript(tcall, tenv)[tpc].do = "load"
          /\ item = Block(tenv[TField])
      BY <1>1, <1>4, <2>1, <2>3 DEF LoadStep, TField, Exchange
    <3>2. TReads
      BY <1>4, <2>1, <3>1 DEF TReads, TDoing
    <3>3. QED
      BY <1>2, <3>2 DEF TargetReads
  <2>4. QED
    BY <2>2, <2>3, AnswerIs
<1>7. CASE Skips /\ OnTime(3) /\ toTarget = <<item>>
  <2>1. LoadStep(C, henv, 3) /\ TScript(C, henv)[3].field = "count" /\ henv["count"] = 0
    BY <1>7, AnswerOfRead DEF Skips
  <2>2. tcall = C /\ ~twait /\ tpc = 3 /\ tenv = Learned(C, henv, 3)
    BY <1>7 DEF OnTime
  <2>3. TScript(tcall, tenv)[tpc].do = "load" /\ tenv[TField] = 0
    BY <2>1, <2>2 DEF LoadStep, TField
  <2>4. TReads
    BY <1>4, <2>2, <2>3 DEF TReads, TDoing
  <2>5. QED
    BY <1>2, <2>4 DEF TargetReads
<1>8. QED
  BY <1>1, <1>5, <1>6, <1>7

(* When the target has read it.                                            *)
LEMMA TakenReads ==
  ASSUME Usual, Asked, Answering, Taken
  PROVE  HostReads /\ TargetReads
<1>1. PICK item, reply : Exchange(item, reply) /\ toHost = <<reply>> /\ toTarget = <<>>
  BY DEF Taken
<1>2. hcall = C /\ C \in Calls /\ C # "loop" /\ C # "gone"
  BY Made DEF Answering
<1>3. Head(toHost) = reply
  BY <1>1
<1>4. CASE hwait = "echo"
  <2>1. Head(toHost) = Word(HField, ValueOf(henv, HField))
    BY <1>1, <1>2, <1>3, <1>4 DEF Exchange, HField
  <2>2. QED
    BY <1>1, <1>2, <1>4, <2>1 DEF HReads, HDoing, HostReads, TargetReads
<1>5. CASE hwait = "answer"
  <2>1. Head(toHost) = Good
    BY <1>1, <1>3, <1>5 DEF Exchange
  <2>2. QED
    BY <1>1, <1>2, <1>5, <2>1 DEF HReads, HDoing, HostReads, TargetReads
<1>6. QED
  BY <1>1, <1>4, <1>5 DEF Exchange

(* The next item is the one its reader will take it for.                   *)
LEMMA Agreed ==
  ASSUME Usual, IInv
  PROVE  HalvesAgree
<1>1. CASE Asked /\ done = 0 /\ \E q \in 0..N : Behind(q)
  BY <1>1, BehindReads DEF HalvesAgree, HostReads, TargetReads
<1>2. CASE Asked /\ done = 0 /\ \E q \in 0..N : \E p \in 1..q + 1 : Hearing(p, q)
  BY <1>2, HearingReads DEF HalvesAgree, HostReads, TargetReads
<1>3. CASE Asked /\ Answering /\ Due
  <2>1. toHost = <<>>
    BY <1>3 DEF Due
  <2>2. toTarget # <<>> => tcall = C /\ twait /\ Head(toTarget) = Good
    BY <1>3 DEF Due, Late
  <2>3. QED
    BY <1>3, <2>1, <2>2, LateReads DEF HalvesAgree
<1>4. CASE Asked /\ Answering /\ Sent
  BY <1>4, SentReads DEF HalvesAgree, HostReads, TargetReads
<1>5. CASE Asked /\ Answering /\ Taken
  BY <1>5, TakenReads DEF HalvesAgree, HostReads, TargetReads
<1>6. CASE Resting
  <2>1. toTarget = <<>>
    BY <1>6 DEF Resting
  <2>2. ASSUME toHost # <<>> PROVE HReads
    <3>1. PICK item : Closing(item) /\ toHost = <<item>>
      BY <1>6, <2>2 DEF Resting
    <3>2. Head(toHost) = item
      BY <3>1
    <3>3. QED
      BY <3>1, <3>2, ClosingReads
  <2>3. QED
    BY <2>1, <2>2 DEF HalvesAgree
<1>7. CASE Asked /\ Stuck
  <2>1. toHost = <<>>
    BY <1>7 DEF Stuck
  <2>2. toTarget # <<>> => tcall = C /\ twait /\ Head(toTarget) = Good
    BY <1>7 DEF Stuck, Late
  <2>3. QED
    BY <1>7, <2>1, <2>2, LateReads DEF HalvesAgree
<1>8. CASE Over
  BY <1>8 DEF Over, HalvesAgree
<1>9. QED
  BY <1>1, <1>2, <1>3, <1>4, <1>5, <1>6, <1>7, <1>8 DEF IInv, Stage
-----------------------------------------------------------------------------
(* The first state, here and in Rpc.                                       *)
LEMMA Starts ==
  ASSUME Init
  PROVE  IInv /\ R!Init
<1>1. IInv
  BY DEF Init, IInv, Plain, Stage, Resting, Free, OpenGdbSocket
<1>2. R!Init
  BY DEF Init, Phase, R!Init, R!Nothing
<1>3. QED
  BY <1>1, <1>2

(* The types of Console, from those of its parts.                          *)
LEMMA TypesHold ==
  ASSUME Usual, IInv
  PROVE  TypeOK
<1>1. THalf /\ HHalf /\ Lines /\ Plain
  BY Typed DEF IInv
<1>2. QED
  BY <1>1 DEF TypeOK, THalf, HHalf, Lines, OfKind, Kinds, Plain

(* The two halves of every call are always in one of the parts of it: the  *)
(* host has still to hear the call, hears it, answers it, or rests; and    *)
(* what is on either line is what the steps between the two halves have    *)
(* written.                                                                *)
THEOREM Invariant == Usual => (Spec => []IInv)
<1> SUFFICES ASSUME Usual PROVE Spec => []IInv
  OBVIOUS
<1>1. Init => IInv
  BY Starts
<1>2. IInv /\ [Next]_vars => IInv'
  BY StepKeeps DEF Carried
<1>3. QED
  BY <1>1, <1>2, PTL DEF Spec

(* The types of both halves' variables and of the lines: no half runs      *)
(* beyond the end of its script (target-src/dcload/syscalls.c,             *)
(* cdfs_syscalls.c, host-src/tool/syscalls.c), and no value exceeds an     *)
(* unsigned int.                                                           *)
THEOREM TypeCorrect == Usual => (Spec => []TypeOK)
<1> SUFFICES ASSUME Usual PROVE Spec => []TypeOK
  OBVIOUS
<1>1. Spec => []IInv
  BY Invariant
<1>2. IInv => TypeOK
  BY TypesHold
<1>3. QED
  BY <1>1, <1>2, PTL

(* The handlers of host-src/tool/syscalls.c read what the functions of     *)
(* target-src/dcload/syscalls.c write, field by field and in blocks of the *)
(* sizes announced, and the other way round.                               *)
THEOREM HalvesInStep == Usual => (Spec => []HalvesAgree)
<1> SUFFICES ASSUME Usual PROVE Spec => []HalvesAgree
  OBVIOUS
<1>1. Spec => []IInv
  BY Invariant
<1>2. IInv => HalvesAgree
  BY Agreed
<1>3. QED
  BY <1>1, <1>2, PTL

(* Whatever a program calls, dc-tool carries it out just once, with the    *)
(* arguments of the program, and what it returns to the program is what    *)
(* came of it: Console implements Rpc.                                     *)
THEOREM ConsoleImplementsRpc == Usual => (Spec => RpcSpec)
<1> SUFFICES ASSUME Usual PROVE Spec => RpcSpec
  OBVIOUS
<1>1. Spec => []IInv
  BY Invariant
<1>2. Init => R!Init
  BY Starts
<1>3. IInv /\ [Next]_vars => [R!Next]_(R!vars)
  BY StepKeeps DEF Carried
<1>4. QED
  BY <1>1, <1>2, <1>3, PTL DEF Spec, RpcSpec, R!Spec
=============================================================================
