----------------------------- MODULE PlugInOps -----------------------------
(***************************************************************************)
(* What one call of a plug-in does.  A plug-in is a shared library with a  *)
(* table of operations (plugin_devops_t): init makes a device, open makes  *)
(* a descriptor of one sensor of it, read and write move one attribute,    *)
(* and readv and writev call read and write once per attribute.            *)
(*                                                                         *)
(* The plug-ins whose calls do not wait for anybody are here: those of     *)
(* counter files (cpudev, pmcdev, xtpmdev), of registers (rapldev,         *)
(* apmdev), of two vendor libraries (pgdev, pidev), and the dummy.  An     *)
(* operator gives the SET of outcomes of a call, one for each thing that   *)
(* files, registers and libraries may do.  The strings of a configuration  *)
(* are sequences of tokens, as strtok() cuts them up at ":".               *)
(***************************************************************************)
EXTENDS Integers, Sequences, FiniteSets

(* What a call leaves in the caller's buffer: nothing, a constant zero,    *)
(* something that is no reading, or a reading of an attribute of a sensor, *)
(* which is named by the tokens that choose it.                            *)
Untouched == [src |-> <<"untouched">>, attr |-> "none"]
Zero      == [src |-> <<"zero">>, attr |-> "none"]
Junk      == [src |-> <<"junk">>, attr |-> "none"]
Reading(s, a) == [src |-> s, attr |-> a]

(* An outcome of read or write: the status, what is in the buffer, the     *)
(* descriptor's data, how many file descriptors of the process the call    *)
(* has left open, and whether it returns at all.                           *)
Returns(h, v) == [st |-> 0, val |-> v, h |-> h, fd |-> 0, ends |-> TRUE]
Fails(h)      == [Returns(h, Untouched) EXCEPT !.st = -1]
Never(h)      == [Returns(h, Untouched) EXCEPT !.ends = FALSE]
Leaving(n, r) == [r EXCEPT !.fd = n]

(* An outcome of init or open: whether the pointer is not NULL, what it    *)
(* points to, what is left for the next strtok( NULL ), and the file       *)
(* descriptors the device has opened.                                      *)
NoData        == [kind |-> "none"]
Made(d, rest, n)  == [ok |-> TRUE, data |-> d, rest |-> rest, fd |-> n, ends |-> TRUE]
Refused(rest) == [ok |-> FALSE, data |-> NoData, rest |-> rest, fd |-> 0, ends |-> TRUE]
Hangs(rest)   == [Refused(rest) EXCEPT !.ends = FALSE]

(* strtok( s, ":" ) and then strtok( NULL, ":" ) for the second of two:    *)
(* what is left of the string when its first n tokens are taken.           *)
Rest(s, n) == SubSeq(s, n + 1, Len(s))

-----------------------------------------------------------------------------
(* cpudev: files of a CPU under /sys.  The loop that looks for a separator *)
(* compares read() with EOF, which is what an error returns, not the end   *)
(* of the file: a file that ends without one is read for ever, past the    *)
(* end of the buffer, unless a blank is found there.  The file stays open. *)
CpuFileRead(h, name) ==
  {Fails(h), Never(h), Leaving(1, Fails(h)), Leaving(1, Returns(h, Reading(h.sensor, name)))}

CpuFileWrite(h, name) == {Fails(h), Returns(h, Reading(h.sensor, name))}

(* The list of frequencies is read in the same way, to its end: without    *)
(* the file the loop ends at once, with it the loop does not end.          *)
CpuInit(s, tok) == {Made([kind |-> "cpu"], tok, 0), Hangs(tok)}

CpuOpen(d, s, tok) ==
  IF s = <<>> THEN {Refused(<<>>)} ELSE {Made([sensor |-> <<s[1]>>], Rest(s, 1), 0)}

CpuRead(h, a) ==
  CASE a \in {"pstate", "cstate", "temp"} -> {Returns(h, Zero)}
    [] a \in {"sstate", "freq"}           -> CpuFileRead(h, a)
    [] OTHER                              -> {Returns(h, Untouched)}

(* Setting a P-state stores 0 in the caller's value and goes nowhere.      *)
CpuWrite(h, a) ==
  CASE a \in {"pstate", "cstate", "temp"} -> {Returns(h, Zero)}
    [] a \in {"sstate", "freq"}           -> CpuFileWrite(h, a)
    [] OTHER                              -> {Returns(h, Untouched)}

CpuElement(op, h, a) == IF op = "read" THEN CpuRead(h, a) ELSE CpuWrite(h, a)

(* pmcdev: the same files with numbered counters, closed after use.        *)
(* Mutants of PmcFileRead: a failed open() ends in success; the file stays *)
(* open.                                                                   *)
PmcFileReadZero(h, name) == {Returns(h, Untouched), Never(h), Returns(h, Reading(h.sensor, name))}

PmcFileReadOpen(h, name) == {Fails(h), Never(h), Leaving(1, Returns(h, Reading(h.sensor, name)))}

PmcFileRead(h, name) == {Fails(h), Never(h), Returns(h, Reading(h.sensor, name))}

PmcFileWrite(h, name) == {Fails(h), Returns(h, Reading(h.sensor, name))}

PmcInit(s, tok) == {Made([kind |-> "pmc"], tok, 0)}

PmcOpen(d, s, tok) ==
  IF s = <<>> THEN {Refused(<<>>)} ELSE {Made([sensor |-> <<s[1]>>], Rest(s, 1), 0)}

(* Mutant of PmcRead: the case of the energy falls through.                *)
PmcReadFallsThrough(h, a) ==
  CASE a \in {"energy", "power"} -> PmcFileRead(h, "power")
    [] a = "max"                 -> PmcFileRead(h, a)
    [] OTHER                     -> {Returns(h, Untouched)}

PmcRead(h, a) ==
  IF a \in {"energy", "power", "max"} THEN PmcFileRead(h, a) ELSE {Returns(h, Untouched)}

PmcWrite(h, a) ==
  IF a = "max" THEN PmcFileWrite(h, a) ELSE {Returns(h, Untouched)}

PmcElement(op, h, a) == IF op = "read" THEN PmcRead(h, a) ELSE PmcWrite(h, a)

(* xtpmdev: the counters of a Cray node, and their generation, which       *)
(* changes when the counters start again.  A changed generation is noted   *)
(* in the descriptor after the value was read; one that cannot be read     *)
(* ends in success.                                                        *)
Generation == 0..1

XtpmFileRead(h, name) == {Fails(h), Never(h), Returns(h, Reading(h.sensor, name))}

XtpmFileWrite(h, name) == {Fails(h), Returns(h, Reading(h.sensor, name))}

XtpmInit(s, tok) == {Made([kind |-> "xtpm"], tok, 0)}

XtpmOpen(d, s, tok) ==
  {Refused(tok), Hangs(tok)} \union {Made([sensor |-> <<"node">>, gen |-> g], tok, 0) : g \in Generation}

XtpmRead(h, a) ==
  LET value == IF a \in {"energy", "power", "max"} THEN XtpmFileRead(h, a)
                                                   ELSE {Returns(h, Untouched)}
      ended == {r \in value : r.st # 0 \/ ~r.ends}
  IN value \union {Never(h)}
           \union {[r EXCEPT !.h.gen = g] : r \in value \ ended, g \in Generation}

XtpmWrite(h, a) ==
  IF a = "max" THEN XtpmFileWrite(h, a) ELSE {Returns(h, Untouched)}

XtpmElement(op, h, a) == IF op = "read" THEN XtpmRead(h, a) ELSE XtpmWrite(h, a)

-----------------------------------------------------------------------------
(* rapldev: Intel's energy registers.  The models a "client" and an "ep"   *)
(* (Sandy and Ivy Bridge EP) differ in the registers they have.            *)
RaplParse(s) == s # <<>>

RaplIdentify == {"client", "ep", "unsupported"}

(* Registers that cannot be opened or read make init fail.                 *)
RaplInit(s, tok) ==
  IF ~RaplParse(s) THEN {Refused(<<>>)}
  ELSE {Refused(Rest(s, 1))}
       \union {Made([kind |-> "rapl", model |-> m], Rest(s, 1), 1) : m \in RaplIdentify \ {"unsupported"}}

(* The layer is not taken from the open string but from strtok( NULL ):    *)
(* what is left of the last string that any strtok() of the process has    *)
(* cut up.  DRAM is another name of PP1.                                   *)
RaplParseOpen(tok) ==
  IF tok = <<>> \/ tok[1] \notin {"pkg", "pp0", "pp1", "dram"} THEN "none"
  ELSE IF tok[1] = "dram" THEN "pp1" ELSE tok[1]

RaplOpen(d, s, tok) ==
  LET rest == IF tok = <<>> THEN <<>> ELSE Tail(tok)
  IN IF RaplParseOpen(tok) = "none" THEN {Refused(rest)}
     ELSE {Made([layer |-> RaplParseOpen(tok), model |-> d.model], rest, 0)}

(* The register of a layer: on EP models PP1 stands for DRAM.              *)
RaplRegister(h) == IF h.layer = "pp1" /\ h.model = "ep" THEN "dram" ELSE h.layer

RaplRead(h, a) ==
  {Fails(h), Returns(h, IF a = "energy" THEN Reading(<<RaplRegister(h)>>, a) ELSE Untouched)}

RaplElement(op, h, a) == IF op = "read" THEN RaplRead(h, a) ELSE {Returns(h, Untouched)}

(* apmdev: AMD's registers, read by running setpci in a pipe, which is not *)
(* closed when setpci prints nothing.                                      *)
ApmPipeFails == 0..1

(* Eight nodes are looked for, and each one that is not there may leave a  *)
(* pipe open.  The core of the init string is read and not stored:         *)
(* descriptors read the first node, all zeros when none was found.         *)
ApmNodeMax == 8

ApmNodes == {{}, {"0"}, {"0", "1"}}

ApmInit(s, tok) ==
  IF s = <<>> THEN {Refused(<<>>)}
  ELSE {Refused(Rest(s, 1))}
       \union UNION {{Made([kind |-> "apm", nodes |-> n, core |-> "0"], Rest(s, 1), l) :
                         l \in 0..(ApmNodeMax - Cardinality(n))} : n \in ApmNodes}

ApmOpen(d, s, tok) == {Made([nodes |-> d.nodes, core |-> d.core], tok, 0)}

(* The running average is a signed field, negated in an unsigned long and  *)
(* then divided as a number of about 2^64; without a node it is divided    *)
(* by zero.                                                                *)
ApmPower(h, negative) ==
  IF h.nodes = {} \/ negative THEN Junk ELSE Reading(<<h.core>>, "power")

ApmRead(h, a) ==
  {Leaving(l, Fails(h)) : l \in ApmPipeFails}
  \union {Returns(h, IF a = "power" THEN ApmPower(h, n) ELSE Untouched) : n \in BOOLEAN}

ApmElement(op, h, a) == IF op = "read" THEN ApmRead(h, a) ELSE {Returns(h, Untouched)}

-----------------------------------------------------------------------------
(* pgdev: Intel's Power Gadget library.  Its failures are printed; read    *)
(* returns 0 whatever happens.  Energy and power are those of node 0.      *)
PgParse(s) == Len(s) >= 2

PgInit(s, tok) == {Made([kind |-> "pg"], tok, 0)}

PgOpen(d, s, tok) ==
  IF PgParse(s) THEN {Made([sensor |-> s], Rest(s, 2), 0)} ELSE {Refused(<<>>)}

PgRead(h, a) ==
  CASE a \in {"energy", "power"} ->
         {Returns(h, v) : v \in {Reading(<<"0", h.sensor[2]>>, a), Untouched, Junk}}
    [] a \in {"freq", "temp"} -> {Returns(h, v) : v \in {Reading(h.sensor, a), Zero}}
    [] OTHER -> {Returns(h, Untouched)}

PgElement(op, h, a) == IF op = "read" THEN PgRead(h, a) ELSE {Returns(h, Untouched)}

(* pidev: Penguin's PowerInsight library, one port per descriptor.         *)
PidInit(s, tok) == {Made([kind |-> "pid"], tok, 0), Refused(tok)}

PidOpen(d, s, tok) ==
  IF s = <<>> THEN {Refused(<<>>)} ELSE {Made([sensor |-> <<s[1]>>], Rest(s, 1), 0)}

PidRead(h, a) ==
  {Fails(h), Returns(h, IF a \in {"voltage", "current", "power"} THEN Reading(h.sensor, a)
                                                                 ELSE Untouched)}

PidElement(op, h, a) == IF op = "read" THEN PidRead(h, a) ELSE {Returns(h, Untouched)}

(* The dummy: a descriptor is a table of values, of which open fills power *)
(* and energy; the others are what malloc() returned until they are set.   *)
DummyInit(s, tok) == {Made([kind |-> "dummy"], tok, 0)}

DummyOpen(d, s, tok) == {Made([sensor |-> s, filled |-> {"power", "energy"}], tok, 0)}

DummyRead(h, a) ==
  {Returns(h, IF a \in h.filled THEN Reading(h.sensor, a) ELSE Junk)}

DummyWrite(h, a) ==
  {Returns([h EXCEPT !.filled = @ \union {a}], Reading(h.sensor, a))}

DummyElement(op, h, a) == IF op = "read" THEN DummyRead(h, a) ELSE DummyWrite(h, a)
=============================================================================
