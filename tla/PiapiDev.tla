------------------------------ MODULE PiapiDev ------------------------------
(***************************************************************************)
(* The plug-in of the PowerInsight agent.  A read asks the agent for one   *)
(* sample of a port and waits until the callback, which runs in a thread   *)
(* of the agent's library, has stored it.  The sample and the flag         *)
(* piapidev_reading, which is set while a sample is waited for, are        *)
(* statics: one of each for all descriptors of all contexts of the         *)
(* process, which has one context per thread that uses the library.        *)
(***************************************************************************)
EXTENDS Integers, Sequences, FiniteSets

CONSTANTS
  Reader,     \* threads with a context of their own
  MaxRounds   \* samples that all calls together ask for

ASSUME PiapiAssumption == MaxRounds \in Nat

VARIABLES
  piPc,       \* per thread, where in pwr_piapidev_read or readv it is
  piCall,     \* per thread, the call: whether the sample is the one readv
              \* takes itself, and how many reads are to follow
  piMine,     \* per thread, the number of its last request
  piReading,  \* piapidev_reading
  piSample,   \* piapidev_counter: the request whose sample was stored last
  piRounds,   \* samples asked for, or to be asked for by calls under way
  piAsked,    \* requests the agent has taken
  piWay,      \* requests whose last sample is on its way
  piOut,      \* per thread, the request whose sample the last read returned
  piRaced,    \* whether two threads were between the two loops at a time
  piFailed    \* whether piapi_counter has failed

piVars == <<piPc, piCall, piMine, piReading, piSample, piRounds, piAsked, piWay, piOut,
            piRaced, piFailed>>

PiPc == {"idle", "wait", "set", "ask", "spin"}
Torn == -1    \* part of one sample and part of another

(* A thread that has left the first loop and not yet the second.           *)
PiInside(t) == piPc[t] \in {"set", "ask", "spin"}

PiInit ==
  /\ piPc = [t \in Reader |-> "idle"]
  /\ piCall = [t \in Reader |-> [outer |-> FALSE, left |-> 0]]
  /\ piMine = [t \in Reader |-> 0]
  /\ piReading = FALSE
  /\ piSample = 0
  /\ piRounds = 0
  /\ piAsked = 0
  /\ piWay = {}
  /\ piOut = [t \in Reader |-> 0]
  /\ piRaced = FALSE
  /\ piFailed = FALSE

(* A call: read, which takes one sample, or readv of n attributes, which   *)
(* takes one and then calls read for each of them.                         *)
PiStart(t, vec, n) ==
  /\ piPc[t] = "idle"
  /\ piRounds + n + 1 <= MaxRounds
  /\ piRounds' = piRounds + n + 1
  /\ piPc' = [piPc EXCEPT ![t] = "wait"]
  /\ piCall' = [piCall EXCEPT ![t] = [outer |-> vec, left |-> n]]
  /\ UNCHANGED <<piMine, piReading, piSample, piAsked, piWay, piOut, piRaced, piFailed>>

PiRead(t)     == PiStart(t, FALSE, 0)
PiReadv(t, n) == PiStart(t, TRUE, n)

(* while( piapidev_reading ) sched_yield();                                *)
PiWait(t) ==
  /\ piPc[t] = "wait" /\ ~piReading
  /\ piPc' = [piPc EXCEPT ![t] = "set"]
  /\ piRaced' = (piRaced \/ \E u \in Reader \ {t} : PiInside(u))
  /\ UNCHANGED <<piCall, piMine, piReading, piSample, piRounds, piAsked, piWay, piOut, piFailed>>

(* Mutant of PiSet: the flag is not set.                                   *)
PiSetNot(t) ==
  /\ piPc[t] = "set"
  /\ piPc' = [piPc EXCEPT ![t] = "ask"]
  /\ UNCHANGED <<piCall, piMine, piReading, piSample, piRounds, piAsked, piWay, piOut, piRaced,
                 piFailed>>

(* piapidev_reading = 1;                                                   *)
PiSet(t) ==
  /\ piPc[t] = "set"
  /\ piReading' = TRUE
  /\ piPc' = [piPc EXCEPT ![t] = "ask"]
  /\ UNCHANGED <<piCall, piMine, piSample, piRounds, piAsked, piWay, piOut, piRaced, piFailed>>

(* The agent takes the request.                                            *)
PiAsk(t) ==
  /\ piPc[t] = "ask"
  /\ piAsked' = piAsked + 1
  /\ piMine' = [piMine EXCEPT ![t] = piAsked + 1]
  /\ piWay' = piWay \union {piAsked + 1}
  /\ piPc' = [piPc EXCEPT ![t] = "spin"]
  /\ UNCHANGED <<piCall, piReading, piSample, piRounds, piOut, piRaced, piFailed>>

(* The end of one sample of a call: the next read of readv, or the end.    *)
PiEnds(t) ==
  LET c == piCall[t] IN
  /\ piPc' = [piPc EXCEPT ![t] = IF c.left = 0 THEN "idle" ELSE "wait"]
  /\ piCall' = [piCall EXCEPT ![t] = [outer |-> FALSE,
                                      left |-> IF c.left = 0 THEN 0 ELSE c.left - 1]]

(* piapi_counter fails, and the flag stays set.  A readv that has failed   *)
(* itself returns; after a failed read it stores the status and goes on.   *)
PiAskFails(t) ==
  /\ piPc[t] = "ask"
  /\ piFailed' = TRUE
  /\ IF piCall[t].outer
     THEN /\ piPc' = [piPc EXCEPT ![t] = "idle"]
          /\ piCall' = [piCall EXCEPT ![t] = [outer |-> FALSE, left |-> 0]]
     ELSE PiEnds(t)
  /\ UNCHANGED <<piMine, piReading, piSample, piRounds, piAsked, piWay, piOut, piRaced>>

(* Mutant of PiCallback: the flag is not cleared.                          *)
PiCallbackKeeps ==
  /\ \E n \in piWay :
       /\ \A m \in piWay : n <= m
       /\ piSample' = n
       /\ piWay' = piWay \ {n}
  /\ UNCHANGED <<piPc, piCall, piMine, piReading, piRounds, piAsked, piOut, piRaced, piFailed>>

(* piapidev_callback of the last sample of a request (number is total);    *)
(* the agent answers requests in the order they came.                      *)
PiCallback ==
  /\ \E n \in piWay :
       /\ \A m \in piWay : n <= m
       /\ piSample' = n
       /\ piWay' = piWay \ {n}
  /\ piReading' = FALSE
  /\ UNCHANGED <<piPc, piCall, piMine, piRounds, piAsked, piOut, piRaced, piFailed>>

(* piapidev_callback of a sample that more are to follow, or that does not *)
(* say how many there are: it is stored, and the flag stays set.           *)
PiCallbackPart ==
  /\ \E n \in piWay : (\A m \in piWay : n <= m) /\ piSample' = n
  /\ UNCHANGED <<piPc, piCall, piMine, piReading, piRounds, piAsked, piWay, piOut, piRaced, piFailed>>

(* The second loop ends: the values are taken from the shared sample,      *)
(* while a callback of another request may be writing it.                  *)
PiTake(t) ==
  /\ piPc[t] = "spin" /\ ~piReading
  /\ \E s \in IF piWay = {} THEN {piSample} ELSE {piSample, Torn} :
       piOut' = [piOut EXCEPT ![t] = s]
  /\ PiEnds(t)
  /\ UNCHANGED <<piMine, piReading, piSample, piRounds, piAsked, piWay, piRaced, piFailed>>

PiStep(t) == PiWait(t) \/ PiSet(t) \/ PiAsk(t) \/ PiAskFails(t) \/ PiTake(t)

PiNext ==
  \/ \E t \in Reader : PiRead(t) \/ (\E n \in 1..2 : PiReadv(t, n)) \/ PiStep(t)
  \/ PiCallback \/ PiCallbackPart

(* The agent comes to the last sample of what it is asked for, and a       *)
(* thread that spins is scheduled.                                         *)
PiFair == WF_piVars(PiCallback) /\ \A t \in Reader : WF_piVars(PiStep(t))

PiSpec == PiInit /\ [][PiNext]_piVars /\ PiFair

-----------------------------------------------------------------------------
PiTypeOK ==
  /\ piPc \in [Reader -> PiPc]
  /\ piCall \in [Reader -> [outer : BOOLEAN, left : Nat]]
  /\ piMine \in [Reader -> Nat]
  /\ piReading \in BOOLEAN
  /\ piSample \in Nat
  /\ piRounds \in Nat /\ piAsked \in Nat
  /\ piWay \in SUBSET Nat
  /\ piOut \in [Reader -> Nat \union {Torn}]
  /\ piRaced \in BOOLEAN /\ piFailed \in BOOLEAN

(* As long as no two threads have been between the two loops of            *)
(* pwr_piapidev_read or readv together, every read returns the sample of   *)
(* the request it made itself, also after a request has failed.            *)
PiOwnSample ==
  ~piRaced => \A t \in Reader : piPc[t] # "spin" => piOut[t] = piMine[t]

(* The same for the flag: it is set when a thread has asked and not been   *)
(* answered, or when a request has failed, and for no other reason.        *)
PiFlagMeansAsked ==
  ~piRaced /\ ~piFailed =>
     (piReading <=> \E t \in Reader : piPc[t] = "ask" \/ (piPc[t] = "spin" /\ piMine[t] \in piWay))

(* A thread that has called read returns, unless a request has failed:     *)
(* then the flag may stay set, and every later read spins.                 *)
PiReturns == \A t \in Reader : piPc[t] # "idle" ~> piPc[t] = "idle" \/ piFailed

(* The invariant behind PiOwnSample.                                       *)
PiMutex == \A t, u \in Reader : PiInside(t) /\ PiInside(u) => t = u

PiSettled ==
  /\ (\A t \in Reader : ~PiInside(t)) => piWay = {}
  /\ \A t \in Reader :
       /\ piPc[t] = "set" => piWay = {} /\ ~piReading
       /\ piPc[t] = "ask" => piWay = {} /\ piReading
       /\ piPc[t] = "spin" => \/ piReading /\ piWay = {piMine[t]}
                              \/ ~piReading /\ piWay = {} /\ piSample = piMine[t]

PiIInv ==
  /\ PiTypeOK
  /\ ~piRaced => PiMutex /\ PiSettled
  /\ PiOwnSample
  /\ PiFlagMeansAsked
=============================================================================
