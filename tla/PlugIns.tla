------------------------------ MODULE PlugIns ------------------------------
(***************************************************************************)
(* The devices of a context: DistCntxt makes a device of a plug-in when an *)
(* attribute first needs it, and one Device per open string; objects then  *)
(* read and write through the Devices; the destructor of the context       *)
(* closes the descriptors and then the devices.  What the calls of the     *)
(* plug-ins do is in PlugInOps.                                            *)
(***************************************************************************)
EXTENDS PlugInOps

CONSTANTS
  Configs,    \* configurations: which devices there are, see Device
  Attr,       \* the attributes that are asked for
  MaxElems,   \* attributes in one call of readv or writev
  MaxFiles    \* open files of a process

Kinds == {"cpu", "pmc", "xtpm", "rapl", "apm", "pg", "pid", "dummy"}

(* A configuration: per plug-in the init string of its device and the open *)
(* strings of its descriptors.                                             *)
Strings == Seq({"0", "1", "pkg", "dram"})
Device == [init : Strings, opens : SUBSET Strings]

ASSUME PlugInsAssumption ==
  /\ \A c \in Configs : DOMAIN c \subseteq Kinds /\ \A k \in DOMAIN c : c[k] \in Device
  /\ MaxFiles \in Nat /\ MaxElems \in Nat

VARIABLES
  cfg,        \* the configuration of the process
  proc,       \* "runs", "aborted", "stuck" in a call that does not end, or "ended"
  dev,        \* m_devMap: the devices of the plug-ins
  hnd,        \* m_deviceMap: per device and open string, the descriptor
  tok,        \* what is left of the last string strtok() has cut up
  files,      \* open file descriptors of the process
  call,       \* the call of a Device that is under way, or NoCall
  last        \* the last call that has returned

vars == <<cfg, proc, dev, hnd, tok, files, call, last>>

NoCall == [k |-> "none"]
Down   == NoData
Closed == NoData

Init ==
  /\ cfg \in Configs
  /\ proc = "runs"
  /\ dev = [k \in DOMAIN cfg |-> Down]
  /\ hnd = [k \in DOMAIN cfg |-> [o \in cfg[k].opens |-> Closed]]
  /\ tok = <<>>
  /\ files = 0
  /\ call = NoCall
  /\ last = NoCall

Free == proc = "runs" /\ call = NoCall

-----------------------------------------------------------------------------
InitOf(k, s) ==
  CASE k = "cpu" -> CpuInit(s, tok)  [] k = "pmc" -> PmcInit(s, tok)
    [] k = "xtpm" -> XtpmInit(s, tok) [] k = "rapl" -> RaplInit(s, tok)
    [] k = "apm" -> ApmInit(s, tok)  [] k = "pg" -> PgInit(s, tok)
    [] k = "pid" -> PidInit(s, tok)  [] k = "dummy" -> DummyInit(s, tok)

OpenOf(k, s) ==
  CASE k = "cpu" -> CpuOpen(dev[k], s, tok)  [] k = "pmc" -> PmcOpen(dev[k], s, tok)
    [] k = "xtpm" -> XtpmOpen(dev[k], s, tok) [] k = "rapl" -> RaplOpen(dev[k], s, tok)
    [] k = "apm" -> ApmOpen(dev[k], s, tok)  [] k = "pg" -> PgOpen(dev[k], s, tok)
    [] k = "pid" -> PidOpen(dev[k], s, tok)  [] k = "dummy" -> DummyOpen(dev[k], s, tok)

Element(k, op, h, a) ==
  CASE k = "cpu" -> CpuElement(op, h, a)  [] k = "pmc" -> PmcElement(op, h, a)
    [] k = "xtpm" -> XtpmElement(op, h, a) [] k = "rapl" -> RaplElement(op, h, a)
    [] k = "apm" -> ApmElement(op, h, a)  [] k = "pg" -> PgElement(op, h, a)
    [] k = "pid" -> PidElement(op, h, a)  [] k = "dummy" -> DummyElement(op, h, a)

(* A call that returns NULL fails the assert of whoever made it.           *)
Fate(r) == IF ~r.ends THEN "stuck" ELSE IF r.ok THEN "runs" ELSE "aborted"

(* An attribute needs a device that is not there yet: the plug-ins are     *)
(* loaded, which they may be already, and the device's init is called.     *)
InitDevice(k) ==
  /\ Free /\ dev[k] = Down
  /\ \E r \in InitOf(k, cfg[k].init) :
       /\ files + r.fd <= MaxFiles
       /\ proc' = Fate(r)
       /\ dev' = IF r.ok THEN [dev EXCEPT ![k] = r.data] ELSE dev
       /\ tok' = r.rest
       /\ files' = files + r.fd
  /\ UNCHANGED <<cfg, hnd, call, last>>

(* The Device of an open string is made once and then shared by all the    *)
(* attributes and objects that name the string.                            *)
NewDevice(k, o) ==
  /\ Free /\ dev[k] # Down /\ hnd[k][o] = Closed
  /\ \E r \in OpenOf(k, o) :
       /\ proc' = Fate(r)
       /\ hnd' = IF r.ok THEN [hnd EXCEPT ![k][o] = r.data] ELSE hnd
       /\ tok' = r.rest
  /\ UNCHANGED <<cfg, dev, files, call, last>>

(* Device::getValue, getValues, setValue and setValues.                    *)
Begin(k, o, op, as) ==
  /\ Free /\ hnd[k][o] # Closed
  /\ call' = [k |-> k, o |-> o, op |-> op, todo |-> as, got |-> <<>>]
  /\ UNCHANGED <<cfg, proc, dev, hnd, tok, files, last>>

(* One attribute of a call.  After the last one the call returns.  A       *)
(* process that has no descriptor left cannot open files: the call fails.  *)
Step ==
  /\ proc = "runs" /\ call # NoCall
  /\ LET k == call.k  a == Head(call.todo)  h == hnd[k][call.o] IN
     \E r \in Element(k, call.op, h, a) :
       /\ files + r.fd <= MaxFiles
       /\ files = MaxFiles /\ k \in {"cpu", "pmc", "xtpm", "apm"} => r.val.attr = "none"
       /\ files' = files + r.fd
       /\ hnd' = [hnd EXCEPT ![k][call.o] = r.h]
       /\ proc' = IF r.ends THEN "runs" ELSE "stuck"
       /\ LET now == [call EXCEPT !.todo = Tail(@),
                                  !.got = Append(@, [attr |-> a, st |-> r.st, val |-> r.val])]
              done == r.ends /\ now.todo = <<>>
          IN /\ call' = IF done THEN NoCall ELSE now
             /\ last' = IF done THEN now ELSE last
  /\ UNCHANGED <<cfg, dev, tok>>

(* Device::startLog, stopLog, getSamples: only the dummy has the calls.    *)
Log(k, o) ==
  /\ Free /\ hnd[k][o] # Closed
  /\ last' = [k |-> k, o |-> o, op |-> "log", todo |-> <<>>,
              got |-> <<[attr |-> "power", st |-> IF k = "dummy" THEN 0 ELSE -1, val |-> Untouched]>>]
  /\ UNCHANGED <<cfg, proc, dev, hnd, tok, files, call>>

(* What final gives back: the file that init has opened.                   *)
FinalFiles(k) == IF k = "rapl" THEN 1 ELSE 0

(* ~DistCntxt: every Device is closed, and then every device.              *)
CloseAll ==
  /\ Free
  /\ proc' = "ended"
  /\ hnd' = [k \in DOMAIN cfg |-> [o \in cfg[k].opens |-> Closed]]
  /\ files' = files - Cardinality({k \in DOMAIN cfg : dev[k] # Down /\ FinalFiles(k) = 1})
  /\ dev' = [k \in DOMAIN cfg |-> Down]
  /\ UNCHANGED <<cfg, tok, call, last>>

Elems == UNION {[1..n -> Attr] : n \in 1..MaxElems}

Next ==
  \/ \E k \in DOMAIN cfg : InitDevice(k)
  \/ \E k \in DOMAIN cfg : \E o \in cfg[k].opens :
       \/ NewDevice(k, o)
       \/ \E op \in {"read", "write"}, as \in Elems : Begin(k, o, op, as)
       \/ Log(k, o)
  \/ Step
  \/ CloseAll

Spec == Init /\ [][Next]_vars

-----------------------------------------------------------------------------
TypeOK ==
  /\ cfg \in Configs
  /\ proc \in {"runs", "aborted", "stuck", "ended"}
  /\ DOMAIN dev = DOMAIN cfg /\ DOMAIN hnd = DOMAIN cfg
  /\ \A k \in DOMAIN cfg : DOMAIN hnd[k] = cfg[k].opens
  /\ tok \in Strings
  /\ files \in 0..MaxFiles
  /\ call = NoCall \/ Len(call.todo) + Len(call.got) \in 1..MaxElems

(* The sensor the configuration names: the node of an xtpm, the first      *)
(* token of the open string or all of it for the others.                   *)
Sensor(k, o) ==
  IF k = "xtpm" THEN <<"node">> ELSE IF k \in {"cpu", "pmc", "pid"} THEN <<o[1]>> ELSE o

Answered == IF last = NoCall \/ last.op # "read" THEN {} ELSE {last.got[i] : i \in DOMAIN last.got}

Own(k, o, g) ==
  \/ g.val \in {Untouched, Zero, Junk}
  \/ g.val = Reading(Sensor(k, o), g.attr)
  \/ k \in {"rapl", "apm", "pg"}

(* No attribute of a call is given the value of another attribute or of    *)
(* another sensor, whichever of the others fail (the readv of each         *)
(* plug-in).  Three plug-ins do not keep to it: pgdev takes energy and     *)
(* power from node 0, rapldev has a layer that is not the one of its open  *)
(* string, apmdev reads the first node.                                    *)
OwnSensor == \A g \in Answered : Own(last.k, last.o, g)

(* The attributes that the read of each plug-in has a case for; the dummy  *)
(* has a place in its table for each.                                      *)
Known(k) ==
  CASE k = "cpu" -> {"pstate", "cstate", "sstate", "freq", "temp"}
    [] k \in {"pmc", "xtpm"} -> {"energy", "power", "max"}
    [] k = "pid" -> {"voltage", "current", "power"}
    [] k = "pg" -> {"energy", "power", "freq", "temp"}
    [] k = "rapl" -> {"energy"}
    [] k = "apm" -> {"power"}
    [] k = "dummy" -> Attr

(* Those of them that are answered with status 0 whether or not there is a *)
(* reading: cpudev answers three with a constant zero; pgdev prints the    *)
(* failures of its library and returns 0 with the buffer as it was, or     *)
(* with what was on the stack; apmdev returns 0 when the average is        *)
(* negative or no node was found; the dummy returns what malloc() gave it  *)
(* until the attribute is set, but for the two that open fills.            *)
Mute(k) ==
  CASE k = "cpu" -> {"pstate", "cstate", "temp"}
    [] k \in {"pg", "apm"} -> Known(k)
    [] k = "dummy" -> Attr \ {"power", "energy"}
    [] OTHER -> {}

Tells(g) == g.st = 0 <=> g.val.attr = g.attr

Honest(k, g) ==
  /\ g.st # 0 => g.val = Untouched
  /\ g.attr \in Known(k) \ Mute(k) => Tells(g)

(* With any status but 0 the buffer was not touched (the status[i] of each *)
(* readv; the result of readv itself is always 0).  And the status is 0    *)
(* exactly when the buffer holds a reading of the attribute, for the       *)
(* attributes the plug-in has a case for, but for those of Mute: all of    *)
(* pgdev and apmdev, the three zeros of cpudev, and what open does not     *)
(* fill in the dummy.  Whose reading it is, OwnSensor says.                *)
StatusTells == \A g \in Answered : Honest(last.k, g)

(* The same without the exceptions: whatever goes wrong in a plug-in's     *)
(* read is told by the status (distObject.cc:93-94: "errors will be        *)
(* flagged in the status structure").                                      *)
AllTell == \A g \in Answered : g.attr \in Known(last.k) => Tells(g)

(* Between calls a process holds the files of its devices and no others,   *)
(* and none when the context is gone, but for the two plug-ins that leave  *)
(* files open, cpudev in every read and apmdev when a read fails.          *)
FilesHeld ==
  proc \in {"runs", "ended"} /\ call = NoCall /\ DOMAIN cfg \cap {"cpu", "apm"} = {}
    => files = Cardinality({k \in DOMAIN cfg : dev[k] # Down /\ FinalFiles(k) = 1})

-----------------------------------------------------------------------------
(* The inductive invariant.  A descriptor is of the sensor that its open   *)
(* string names, and stays so through every call.                          *)
Right(k, o, h) ==
  CASE k \in {"cpu", "pmc", "pid"} -> h = [sensor |-> Sensor(k, o)] /\ o # <<>>
    [] k = "xtpm" -> \E g \in Generation : h = [sensor |-> Sensor(k, o), gen |-> g]
    [] k = "dummy" -> /\ h.sensor = o /\ DOMAIN h = {"sensor", "filled"}
                      /\ {"power", "energy"} \subseteq h.filled
    [] k = "rapl" -> h.layer \in {"pkg", "pp0", "pp1"}
    [] k = "apm" -> h.core = "0"
    [] k = "pg" -> h = [sensor |-> o] /\ Len(o) >= 2

(* What an attribute is answered.                                          *)
Tokens == {"0", "1", "pkg", "dram", "pp0", "pp1", "node", "untouched", "zero", "junk"}
Value  == [src : Seq(Tokens), attr : Attr \union {"none"}]
Answer == [attr : Attr, st : {0, -1}, val : Value]

(* Until a call does not end, what it has answered so far is right.        *)
CallOK(c, runs) ==
  /\ DOMAIN c = {"k", "o", "op", "todo", "got"}
  /\ c.k \in DOMAIN cfg /\ c.o \in cfg[c.k].opens /\ c.op \in {"read", "write"}
  /\ Right(c.k, c.o, hnd[c.k][c.o])
  /\ c.todo \in Seq(Attr) /\ c.got \in Seq(Answer)
  /\ runs => /\ c.todo # <<>>
             /\ c.op = "read" => \A i \in DOMAIN c.got : Own(c.k, c.o, c.got[i])
                                                         /\ Honest(c.k, c.got[i])

(* The inductive invariant: besides the properties, that descriptors are   *)
(* those of their open strings, what has been read so far, and whose the   *)
(* open files are.                                                         *)
PlugInsIInv ==
  /\ cfg \in Configs /\ files \in Nat
  /\ DOMAIN dev = DOMAIN cfg /\ DOMAIN hnd = DOMAIN cfg
  /\ \A k \in DOMAIN cfg : DOMAIN hnd[k] = cfg[k].opens
  /\ "apm" \in DOMAIN cfg => dev["apm"] = Down \/ dev["apm"].core = "0"
  /\ \A k \in DOMAIN cfg : \A o \in cfg[k].opens : hnd[k][o] = Closed \/ Right(k, o, hnd[k][o])
  /\ call = NoCall \/ CallOK(call, proc = "runs")
  /\ LET held == Cardinality({k \in DOMAIN cfg : dev[k] # Down /\ FinalFiles(k) = 1})
     IN files >= held /\ (DOMAIN cfg \cap {"cpu", "apm"} = {} => files = held)
  /\ OwnSensor /\ StatusTells
=============================================================================
