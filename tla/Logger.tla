------------------------------- MODULE Logger -------------------------------
(***************************************************************************)
(* The logger of the daemon (tools/pwrdaemon/logger): it parses what to    *)
(* log, makes the work object for it, and prints a round of values each    *)
(* second until a call fails.  What the client library answers is an       *)
(* input: a call of an object that has the attribute may succeed or fail.  *)
(***************************************************************************)
EXTENDS Integers, Sequences, FiniteSets, SequencesExt

CONSTANTS
  LgrArgs,       \* command lines
  LgrObj,        \* the objects of the context, as they are in every group
  LgrTypes,      \* the types that some object has
  MaxEnergy,     \* joules that the first object can have used: a bound
  MaxRnds        \* rounds: a bound

LgrKinds == {"power", "energy", "rate", "MULT:", "SETMULT:", "STAT:", "other"}
LgrArg   == [kind : LgrKinds, type : BOOLEAN, name : STRING, attrs : Seq(STRING),
             context : BOOLEAN, logfile : BOOLEAN]

ASSUME LgrAssumption ==
  LgrArgs \subseteq LgrArg /\ LgrObj \in Seq(STRING) /\ LgrObj # <<>> /\ MaxEnergy \in Nat

VARIABLES
  lgrArgs,    \* m_args
  lgrPc,      \* "start", "ready", "works", or how it ended
  lgrAttrs,   \* m_attrs of Mult, SetMult and Stat
  lgrEnergy,  \* what the counter of the first object shows
  lgrStart,   \* startValue of Energy
  lgrRead,    \* the energies read
  lgrSum,     \* what all the lines with energies add up to
  lgrLines,   \* the lines of the last round: object, attribute and value
  lgrLogs,    \* whether the library keeps a log for the statistic
  lgrSet      \* how many times SetMult has set its attributes

lgrVars == <<lgrArgs, lgrPc, lgrAttrs, lgrEnergy, lgrStart, lgrRead, lgrSum, lgrLines, lgrLogs, lgrSet>>

LgrInit ==
  /\ lgrArgs \in LgrArgs /\ lgrPc = "start" /\ lgrAttrs = <<>>
  /\ lgrEnergy \in 0..MaxEnergy /\ lgrStart = 0 /\ lgrRead = <<>> /\ lgrSum = 0
  /\ lgrLines = {} /\ lgrLogs = FALSE /\ lgrSet = 0

Kind == lgrArgs.kind

-----------------------------------------------------------------------------
(* getAttr and getAttrStat: the names they know.                           *)
AttrNames == {"energy", "power"}
StatNames == {"min", "max", "avg", "stdev", "cv", "sum"}

(* attrs.substr( pos, tmp ) takes the place of the next comma for a length: *)
(* from the second attribute on, it takes in what is behind the comma too. *)
AttrsParse(as) == Range(as) \subseteq AttrNames /\ Len(as) <= 2

(* Stat has one attribute and one statistic; with one name only, that name *)
(* is taken for both.                                                      *)
StatParses(as) == Len(as) = 2 /\ as[1] \in AttrNames /\ as[2] \in StatNames

(* The object, or a group of the type, has to be there.                    *)
Found == IF lgrArgs.type THEN lgrArgs.name \in LgrTypes ELSE lgrArgs.name \in Range(LgrObj)

(* What each kind takes a type for: energy, rate and the statistics look   *)
(* for an object of that name.                                             *)
TakesType == Kind \in {"power", "MULT:", "SETMULT:"}

Parses ==
  /\ Kind # "other" /\ Found /\ (lgrArgs.type => TakesType)
  /\ Kind \in {"MULT:", "SETMULT:"} => AttrsParse(lgrArgs.attrs)
  /\ Kind = "STAT:" => StatParses(lgrArgs.attrs)

(* The constructor.  A log file that cannot be opened ends the logger;     *)
(* everything else that is wrong is an assert, as is a statistic that the  *)
(* library does not make; one of an object that is not there is asked of a *)
(* null object.                                                            *)
LgrMake ==
  /\ lgrPc = "start"
  /\ \/ ~lgrArgs.context /\ lgrPc' = "aborted"
     \/ lgrArgs.context /\ ~lgrArgs.logfile /\ lgrPc' = "exited"
     \/ lgrArgs.context /\ lgrArgs.logfile /\ (~Parses \/ Kind = "STAT:") /\ lgrPc' = "aborted"
     \/ lgrArgs.context /\ lgrArgs.logfile /\ Parses /\ lgrPc' = "ready"
  /\ lgrAttrs' = IF lgrPc' = "ready" THEN lgrArgs.attrs ELSE <<>>
  /\ UNCHANGED <<lgrArgs, lgrEnergy, lgrStart, lgrRead, lgrSum, lgrLines, lgrLogs, lgrSet>>

Group == IF lgrArgs.type THEN LgrObj ELSE <<lgrArgs.name>>

-----------------------------------------------------------------------------
(* A call that fails ends the work: an error is printed, and -1 returned.  *)
(* Stat has turned a log on by then, and nothing turns it off.             *)
LgrFail ==
  /\ lgrPc \in {"ready", "works"} /\ Kind # "SETMULT:"
  /\ lgrPc' = "failed"
  /\ UNCHANGED <<lgrArgs, lgrAttrs, lgrEnergy, lgrStart, lgrRead, lgrSum, lgrLines, lgrLogs, lgrSet>>

(* The counter of the object only grows.                                   *)
Consume ==
  /\ lgrPc = "works" /\ Kind = "energy" /\ lgrEnergy < MaxEnergy
  /\ lgrEnergy' = lgrEnergy + 1
  /\ UNCHANGED <<lgrArgs, lgrPc, lgrAttrs, lgrStart, lgrRead, lgrSum, lgrLines, lgrLogs, lgrSet>>

(* Mutant of EnergyPrints: startValue stays what it was first.             *)
EnergyPrintsFromFirst(v) ==
  /\ lgrSum' = IF lgrStart = 0 THEN lgrSum ELSE lgrSum + (v - lgrStart)
  /\ lgrStart' = IF lgrStart = 0 THEN v ELSE lgrStart

(* A zero that has been read stands for nothing read so far.               *)
EnergyPrints(v) ==
  /\ lgrSum' = IF lgrStart = 0 THEN lgrSum ELSE lgrSum + (v - lgrStart)
  /\ lgrStart' = v

EnergyRound ==
  /\ lgrPc \in {"ready", "works"} /\ Kind = "energy" /\ Len(lgrRead) < MaxRnds
  /\ lgrPc' = "works"
  /\ lgrRead' = Append(lgrRead, lgrEnergy)
  /\ EnergyPrints(lgrEnergy)
  /\ UNCHANGED <<lgrArgs, lgrAttrs, lgrEnergy, lgrLines, lgrLogs, lgrSet>>

(* The caller's buffer after a get of a group: object by object.           *)
Values(os, as) ==
  [k \in 1..(Len(os) * Len(as)) |-> [obj |-> os[((k - 1) \div Len(as)) + 1],
                                     attr |-> as[((k - 1) % Len(as)) + 1]]]

LineIndex(j, i, os, as) == (j - 1) * Len(as) + i

(* A line for each object and attribute, with the value at its place.      *)
Lines(os, as) ==
  UNION {{[obj |-> os[j], attr |-> as[i], value |-> Values(os, as)[LineIndex(j, i, os, as)]]
            : i \in DOMAIN as} : j \in DOMAIN os}

PowerRound ==
  /\ lgrPc \in {"ready", "works"} /\ Kind \in {"power", "MULT:"}
  /\ lgrPc' = "works"
  /\ lgrLines' = Lines(Group, IF Kind = "power" THEN <<"power">> ELSE lgrAttrs)
  /\ UNCHANGED <<lgrArgs, lgrAttrs, lgrEnergy, lgrStart, lgrRead, lgrSum, lgrLogs, lgrSet>>

(* Rate makes a number of calls and prints how long they took; SetMult     *)
(* sets once.                                                              *)
RateEnds ==
  /\ lgrPc = "ready" /\ Kind = "rate"
  /\ lgrPc' = "done"
  /\ UNCHANGED <<lgrArgs, lgrAttrs, lgrEnergy, lgrStart, lgrRead, lgrSum, lgrLines, lgrLogs, lgrSet>>

SetMultEnds ==
  /\ lgrPc = "ready" /\ Kind = "SETMULT:"
  /\ lgrPc' \in {"done", "failed"} /\ lgrSet' = lgrSet + 1
  /\ UNCHANGED <<lgrArgs, lgrAttrs, lgrEnergy, lgrStart, lgrRead, lgrSum, lgrLines, lgrLogs>>

(* PWR_StatStart, and then a value each second.                            *)
StatRound ==
  /\ lgrPc \in {"ready", "works"} /\ Kind = "STAT:"
  /\ lgrPc' = "works" /\ lgrLogs' = TRUE
  /\ lgrLines' = IF lgrPc = "ready" THEN {} ELSE Lines(Group, <<lgrAttrs[1]>>)
  /\ UNCHANGED <<lgrArgs, lgrAttrs, lgrEnergy, lgrStart, lgrRead, lgrSum, lgrSet>>

LgrNext ==
  \/ LgrMake \/ LgrFail \/ Consume \/ EnergyRound \/ PowerRound
  \/ RateEnds \/ SetMultEnds \/ StatRound

LgrSpec == LgrInit /\ [][LgrNext]_lgrVars

-----------------------------------------------------------------------------
(* The readings that were not zero.                                        *)
On(read) == {i \in DOMAIN read : read[i] > 0}

(* What the lines of an energy log add up to is what the object has used   *)
(* between the first reading that was not zero and the last one, and every *)
(* other line tells the value of the object and of the attribute that it   *)
(* names, whatever the number of attributes (Energy::work, Mult::work).    *)
LogTells ==
  /\ On(lgrRead) = {} => lgrSum = 0
  /\ \A f, l \in On(lgrRead) :
       (\A i \in On(lgrRead) : i \in f..l) => lgrSum = lgrRead[l] - lgrRead[f]
  /\ \A l \in lgrLines : l.value = [obj |-> l.obj, attr |-> l.attr]

(* The inductive invariant: startValue is the last reading, and readings   *)
(* do not fall, so that only the first ones can be zero.                   *)
LgrIInv ==
  /\ lgrArgs \in LgrArg /\ lgrAttrs \in Seq(STRING)
  /\ lgrEnergy \in Nat /\ lgrStart \in Nat /\ lgrRead \in Seq(Nat) /\ lgrSum \in Int
  /\ lgrStart = IF lgrRead = <<>> THEN 0 ELSE lgrRead[Len(lgrRead)]
  /\ lgrStart <= lgrEnergy
  /\ \A i, j \in DOMAIN lgrRead : i <= j => lgrRead[i] <= lgrRead[j]
  /\ LogTells
=============================================================================
