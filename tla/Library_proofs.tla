--------------------------- MODULE Library_proofs ---------------------------
(***************************************************************************)
(* Proofs about the parts of the library that an application or a daemon   *)
(* uses on its own: the two devices whose values come over a line, the     *)
(* plug-ins, the groups and statistics, the logger, and the context.       *)
(***************************************************************************)
EXTENDS PlugIns, WuDev, PiapiDev, Groups, Context, Logger,
        SequenceTheorems, FiniteSetTheorems, WellFoundedInduction, TLAPS

-----------------------------------------------------------------------------
(* The meter: for any number of commands, until a read gives up every      *)
(* value is the reply to its own command.                                  *)
LEMMA WuInitInv == WuInit => WuIInv
<1> SUFFICES ASSUME WuInit PROVE WuIInv
  OBVIOUS
<1>1. WuTypeOK
  <2>1. <<>> \in Seq(WuPart) /\ wuSent \in 0..MaxCmds
    BY WuAssumption DEF WuInit
  <2> QED BY <2>1 DEF WuInit, WuTypeOK
<1> QED BY <1>1 DEF WuInit, WuIInv, WuLineClean, WuReplyIsOwn, WuNothing

LEMMA CommandInv ==
  ASSUME WuIInv, NEW a \in WuAttr, WuCommand(a)
  PROVE  WuIInv'
<1> USE WuAssumption DEF WuIInv, WuCommand
<1> DEFINE c == wuSent + 1
<1>1. c \in 1..MaxCmds /\ c \in 0..MaxCmds
  <2>1. wuSent \in 0..MaxCmds /\ wuSent < MaxCmds
    BY DEF WuTypeOK
  <2> QED BY <2>1
<1>2. CASE wuMeter' = wuMeter \o <<FirstOf(c), Back(c)>> /\ wuRead' = [attr |-> a, cmd |-> c, buf |-> <<>>]
           /\ UNCHANGED <<wuRx, wuOut, wuFailed>> /\ wuSent' = c
  <2>1. FirstOf(c) \in WuPart /\ Back(c) \in WuPart
    BY <1>1 DEF FirstOf, Back, WuPart
  <2>2. <<FirstOf(c), Back(c)>> \in Seq(WuPart) /\ <<>> \in Seq(WuPart)
    BY <2>1
  <2>3. wuMeter' \in Seq(WuPart)
    BY <1>2, <2>2, ConcatProperties DEF WuTypeOK
  <2>4. WuTypeOK'
    BY <1>1, <1>2, <2>2, <2>3 DEF WuTypeOK
  <2>5. wuRead'.attr # WuIdle.attr /\ wuRead' # WuIdle
    BY <1>2 DEF WuIdle
  <2>6. ASSUME ~wuFailed'
        PROVE  WuOnLine(wuRead.cmd)'
    <3>1. wuMeter = <<>> /\ wuRx = <<>>
      BY <1>2, <2>6 DEF WuLineClean
    <3>2. wuMeter' = <<FirstOf(c), Back(c)>>
      BY <1>2, <2>2, <3>1
    <3> QED BY <1>2, <3>1, <3>2 DEF WuOnLine
  <2> QED BY <1>2, <2>4, <2>5, <2>6 DEF WuLineClean, WuReplyIsOwn
<1>3. CASE wuSent' = c /\ wuOut' = [attr |-> a, st |-> -1, cmd |-> c, from |-> "nothing"]
           /\ UNCHANGED <<wuMeter, wuRx, wuRead, wuFailed>>
  <2>1. WuTypeOK'
    BY <1>1, <1>3 DEF WuTypeOK
  <2>2. wuRead' = WuIdle
    BY <1>3
  <2> QED BY <1>3, <2>1, <2>2 DEF WuLineClean, WuReplyIsOwn
<1> QED BY <1>2, <1>3

(* Two parts of a reply, one after the other.                              *)
LEMMA AppendSecond ==
  ASSUME NEW x, NEW y
  PROVE  Append(<<x>>, y) = <<x, y>>
<1> DEFINE S == {x, y}
           s == Append(<<x>>, y)
           t == <<x, y>>
<1>1. /\ x \in S /\ y \in S
      /\ <<x>> \in Seq(S) /\ <<x, y>> \in Seq(S)
  OBVIOUS
<1>2. t \in Seq(S)
  BY <1>1
<1>3. s \in Seq(S) /\ Len(s) = 2
  BY <1>1, AppendProperties
<1>4. s[1] = x /\ s[2] = y
  BY <1>1, AppendProperties
<1>5. Len(t) = 2 /\ t[1] = x /\ t[2] = y
  OBVIOUS
<1> HIDE DEF S, s, t
<1>6. Len(s) = Len(t) /\ \A i \in 1..Len(s) : s[i] = t[i]
  BY <1>3, <1>4, <1>5
<1>7. s = t
  BY <1>2, <1>3, <1>6, SeqEqual
<1> QED BY <1>7 DEF s, t

LEMMA RepliesInv ==
  ASSUME WuIInv, WuReplies
  PROVE  WuIInv'
<1> USE DEF WuIInv, WuReplies
<1>1. WuTypeOK'
  <2>1. Head(wuMeter) \in WuPart /\ Tail(wuMeter) \in Seq(WuPart)
    BY HeadTailProperties DEF WuTypeOK
  <2>2. wuRx' \in Seq(WuPart)
    BY <2>1, AppendProperties DEF WuTypeOK
  <2> QED BY <2>1, <2>2 DEF WuTypeOK
<1>2. ASSUME ~wuFailed, wuRead # WuIdle
      PROVE  WuOnLine(wuRead.cmd)'
  <2> DEFINE f == FirstOf(wuRead.cmd)
             b == Back(wuRead.cmd)
  <2>1. \/ wuRead.buf = <<>> /\ wuRx = <<>> /\ wuMeter = <<f, b>>
        \/ wuRead.buf = <<>> /\ wuRx = <<f>> /\ wuMeter = <<b>>
        \/ wuRead.buf = <<f>> /\ wuRx = <<>> /\ wuMeter = <<b>>
    BY <1>2 DEF WuOnLine
  <2>2. wuRead' = wuRead /\ wuRx' = Append(wuRx, Head(wuMeter)) /\ wuMeter' = Tail(wuMeter)
    OBVIOUS
  <2> HIDE DEF f, b
  <2>3. \/ wuRead.buf = <<>> /\ wuRx' = <<f>> /\ wuMeter' = <<b>>
        \/ wuRead.buf = <<>> /\ wuRx' = <<f, b>> /\ wuMeter' = <<>>
        \/ wuRead.buf = <<f>> /\ wuRx' = <<b>> /\ wuMeter' = <<>>
    <3>1. CASE wuRead.buf = <<>> /\ wuRx = <<>> /\ wuMeter = <<f, b>>
      <4>1. Append(wuRx, Head(wuMeter)) = <<f>> /\ Tail(wuMeter) = <<b>>
        BY <3>1
      <4> QED BY <2>2, <3>1, <4>1
    <3>2. CASE wuRead.buf = <<>> /\ wuRx = <<f>> /\ wuMeter = <<b>>
      <4>1. Head(<<b>>) = b
        OBVIOUS
      <4>2. Append(<<f>>, b) = <<f, b>>
        BY AppendSecond
      <4>3. Tail(<<b>>) = <<>>
        OBVIOUS
      <4> QED BY <2>2, <3>2, <4>1, <4>2, <4>3
    <3>3. CASE wuRead.buf = <<f>> /\ wuRx = <<>> /\ wuMeter = <<b>>
      <4>1. Append(wuRx, Head(wuMeter)) = <<b>> /\ Tail(wuMeter) = <<>>
        BY <3>3
      <4> QED BY <2>2, <3>3, <4>1
    <3> QED BY <2>1, <3>1, <3>2, <3>3
  <2> QED BY <2>2, <2>3 DEF WuOnLine, f, b
<1>3. WuLineClean'
  BY DEF WuLineClean
<1> QED BY <1>1, <1>2, <1>3 DEF WuReplyIsOwn

LEMMA TakesInv ==
  ASSUME WuIInv, WuTakes
  PROVE  WuIInv'
<1> USE DEF WuIInv, WuTakes
<1> DEFINE buf == Append(wuRead.buf, Head(wuRx))
<1>1. wuRead \in [attr : WuAttr, cmd : 1..MaxCmds, buf : Seq(WuPart)]
  BY DEF WuTypeOK
<1>2. Head(wuRx) \in WuPart /\ wuRx' \in Seq(WuPart)
  BY HeadTailProperties DEF WuTypeOK
<1>3. buf \in Seq(WuPart)
  BY <1>1, <1>2, AppendProperties
<1> DEFINE f == FirstOf(wuRead.cmd)
           b == Back(wuRead.cmd)
<1>6. ASSUME ~wuFailed
      PROVE  \/ wuRead.buf = <<>> /\ wuRx = <<f>> /\ wuMeter = <<b>>
             \/ wuRead.buf = <<>> /\ wuRx = <<f, b>> /\ wuMeter = <<>>
             \/ wuRead.buf = <<f>> /\ wuRx = <<b>> /\ wuMeter = <<>>
  BY <1>6 DEF WuOnLine
<1>7. f.end = FALSE /\ b.end = TRUE /\ f.cmd = wuRead.cmd
  BY DEF FirstOf, Back
<1> HIDE DEF f, b
<1>4. CASE Head(wuRx).end
  <2>1. wuRead' = WuIdle /\ wuOut' = WuResult(0, WuExtract(buf))
    BY <1>4
  <2>2. WuExtract(buf) \in {"nothing", "own reply", "old reply", "piece"}
    BY DEF WuExtract
  <2>3. wuOut' \in [attr : WuAttr, st : {0, -1}, cmd : 1..MaxCmds,
                    from : {"nothing", "own reply", "old reply", "piece"}]
    BY <1>1, <2>1, <2>2 DEF WuResult
  <2>4. WuTypeOK'
    BY <1>2, <2>1, <2>3 DEF WuTypeOK
  <2>5. ASSUME ~wuFailed
        PROVE  buf = <<f, b>> /\ wuRx' = <<>> /\ wuMeter = <<>>
    <3>1. wuRead.buf = <<f>> /\ wuRx = <<b>> /\ wuMeter = <<>>
      <4>1. wuRx # <<f>> /\ wuRx # <<f, b>>
        <5>1. Head(<<f>>) = f /\ Head(<<f, b>>) = f
          OBVIOUS
        <5> QED BY <1>4, <1>7, <5>1
      <4> QED BY <1>6, <2>5, <4>1
    <3>2. Head(<<b>>) = b
      OBVIOUS
    <3>3. Append(<<f>>, b) = <<f, b>>
      BY AppendSecond
    <3>4. Tail(<<b>>) = <<>>
      OBVIOUS
    <3> QED BY <3>1, <3>2, <3>3, <3>4
  <2>6. ASSUME ~wuFailed
        PROVE  WuExtract(buf) \in {"nothing", "own reply"}
    <3>1. Len(<<f, b>>) = 2 /\ <<f, b>>[1] = f
      OBVIOUS
    <3>2. Len(buf) = 2 /\ buf[1].cmd = wuRead.cmd
      BY <1>7, <2>5, <2>6, <3>1
    <3> QED BY <3>2 DEF WuExtract
  <2>7. WuReplyIsOwn'
    BY <2>1, <2>6 DEF WuReplyIsOwn, WuResult
  <2>8. WuLineClean'
    BY <2>5 DEF WuLineClean
  <2> QED BY <2>1, <2>4, <2>7, <2>8
<1>5. CASE ~Head(wuRx).end
  <2>1. wuRead' = [wuRead EXCEPT !.buf = buf] /\ wuOut' = wuOut
    BY <1>5
  <2>2. wuRead' \in [attr : WuAttr, cmd : 1..MaxCmds, buf : Seq(WuPart)]
    BY <1>1, <1>3, <2>1
  <2>3. WuTypeOK'
    BY <1>2, <2>1, <2>2 DEF WuTypeOK
  <2>4. wuRead' # WuIdle
    BY <2>2, WuAssumption DEF WuIdle
  <2>5. ASSUME ~wuFailed
        PROVE  WuOnLine(wuRead.cmd)'
    <3>1. wuRead'.cmd = wuRead.cmd /\ wuRead'.buf = buf
      BY <1>1, <2>1
    <3>2. \/ wuRead.buf = <<>> /\ wuRx = <<f>> /\ wuMeter = <<b>>
          \/ wuRead.buf = <<>> /\ wuRx = <<f, b>> /\ wuMeter = <<>>
      <4>1. Head(<<b>>) = b
        OBVIOUS
      <4>2. wuRx # <<b>>
        BY <1>5, <1>7, <4>1
      <4> QED BY <1>6, <2>5, <4>2
    <3>3. buf = <<f>>
      <4>1. Head(<<f>>) = f /\ Head(<<f, b>>) = f /\ Append(<<>>, f) = <<f>>
        OBVIOUS
      <4> QED BY <3>2, <4>1
    <3>4. \/ wuRx' = <<>> /\ wuMeter' = <<b>>
          \/ wuRx' = <<b>> /\ wuMeter' = <<>>
      <4>1. Tail(<<f>>) = <<>> /\ Tail(<<f, b>>) = <<b>>
        OBVIOUS
      <4> QED BY <3>2, <4>1
    <3> QED BY <3>1, <3>3, <3>4 DEF WuOnLine, f, b
  <2> QED BY <2>1, <2>3, <2>4, <2>5 DEF WuLineClean, WuReplyIsOwn
<1> QED BY <1>4, <1>5

(* A read that ends early, in failure or without a value.                  *)
LEMMA EndsEarlyInv ==
  ASSUME WuIInv, WuGivesUp \/ WuGarbage
  PROVE  WuIInv'
<1> USE DEF WuIInv, WuGivesUp, WuGarbage
<1>1. PICK s \in {0, -1} : wuOut' = WuResult(s, "nothing")
  OBVIOUS
<1>2. wuRead \in [attr : WuAttr, cmd : 1..MaxCmds, buf : Seq(WuPart)]
  BY DEF WuTypeOK
<1>3. wuOut' \in [attr : WuAttr, st : {0, -1}, cmd : 1..MaxCmds,
                  from : {"nothing", "own reply", "old reply", "piece"}]
  BY <1>1, <1>2 DEF WuResult
<1>4. WuTypeOK'
  BY <1>3 DEF WuTypeOK
<1> QED BY <1>4 DEF WuLineClean, WuReplyIsOwn

(* WuIInv is an invariant of the plug-in and its meter (wudev_read).       *)
THEOREM WuInductive == WuSpec => []WuIInv
<1>1. WuIInv /\ [WuNext]_wuVars => WuIInv'
  <2> SUFFICES ASSUME WuIInv, [WuNext]_wuVars PROVE WuIInv'
    OBVIOUS
  <2>1. CASE UNCHANGED wuVars
    BY <2>1 DEF wuVars, WuIInv, WuTypeOK, WuOnLine, WuLineClean, WuReplyIsOwn
  <2>2. CASE WuNext
    BY <2>2, CommandInv, RepliesInv, TakesInv, EndsEarlyInv DEF WuNext
  <2> QED BY <2>1, <2>2
<1> QED BY WuInitInv, <1>1, PTL DEF WuSpec

(* Until a read gives up a value is the reply to its own command           *)
(* (pwr_wudev_read).                                                       *)
THEOREM RepliesAreOwn == WuSpec => []WuReplyIsOwn
<1>1. WuIInv => WuReplyIsOwn
  BY DEF WuIInv
<1> QED BY WuInductive, <1>1, PTL

(* Until a read gives up nothing is left on the line between reads.        *)
THEOREM LineIsClean == WuSpec => []WuLineClean
<1>1. WuIInv => WuLineClean
  BY DEF WuIInv
<1> QED BY WuInductive, <1>1, PTL

-----------------------------------------------------------------------------
(* The piapi device, for any number of threads: reads that do not overlap. *)
(* PiOwnSample is not inductive: that the sample is the thread's own when  *)
(* the flag falls needs to know that its request is the only one on the    *)
(* way (PiSettled), and this that nobody else is between the two loops     *)
(* (PiMutex).                                                              *)
LEMMA InitInv == PiInit => PiIInv
<1> SUFFICES ASSUME PiInit PROVE PiIInv
  OBVIOUS
<1>1. PiTypeOK
  BY DEF PiInit, PiTypeOK, PiPc
<1>2. \A t \in Reader : piPc[t] = "idle" /\ piOut[t] = piMine[t]
  BY DEF PiInit
<1>3. PiMutex /\ PiSettled
  BY <1>2 DEF PiInit, PiMutex, PiSettled, PiInside
<1>4. PiOwnSample /\ PiFlagMeansAsked
  BY <1>2 DEF PiInit, PiOwnSample, PiFlagMeansAsked
<1> QED BY <1>1, <1>3, <1>4 DEF PiIInv

LEMMA StartInv ==
  ASSUME PiIInv, NEW t \in Reader, NEW n \in Nat, NEW vec \in BOOLEAN, PiStart(t, vec, n)
  PROVE  PiIInv'
<1> USE DEF PiIInv, PiStart
<1>1. PiTypeOK'
  BY DEF PiTypeOK, PiPc
<1>2. \A u \in Reader : u # t => piPc'[u] = piPc[u]
  BY DEF PiTypeOK
<1>3. piPc[t] = "idle" /\ piPc'[t] = "wait"
  BY DEF PiTypeOK
<1>4. \A u \in Reader : PiInside(u)' <=> PiInside(u)
  BY <1>2, <1>3 DEF PiInside
<1>5. ~piRaced' => PiMutex' /\ PiSettled'
  BY <1>2, <1>3, <1>4 DEF PiMutex, PiSettled
<1>6. PiOwnSample'
  BY <1>2, <1>3 DEF PiOwnSample
<1>7. PiFlagMeansAsked'
  BY <1>2, <1>3 DEF PiFlagMeansAsked
<1> QED BY <1>1, <1>5, <1>6, <1>7

(* A thread enters when the flag is down: then nobody can be waiting for   *)
(* a sample, or the two have raced.                                        *)
LEMMA WaitInv ==
  ASSUME PiIInv, NEW t \in Reader, PiWait(t)
  PROVE  PiIInv'
<1> USE DEF PiIInv, PiWait
<1>1. PiTypeOK'
  BY DEF PiTypeOK, PiPc
<1>2. /\ \A u \in Reader : u # t => piPc'[u] = piPc[u]
      /\ piPc[t] = "wait" /\ piPc'[t] = "set"
  BY DEF PiTypeOK
<1>3. ASSUME ~piRaced'
      PROVE  PiMutex' /\ PiSettled'
  <2>1. ~piRaced /\ \A u \in Reader : ~PiInside(u)
    BY <1>2, <1>3 DEF PiInside
  <2>2. piWay = {} /\ ~piReading
    BY <2>1 DEF PiSettled
  <2> QED BY <1>2, <2>1, <2>2 DEF PiMutex, PiSettled, PiInside
<1>4. PiOwnSample'
  BY <1>2 DEF PiOwnSample
<1>5. PiFlagMeansAsked'
  BY <1>2 DEF PiFlagMeansAsked
<1> QED BY <1>1, <1>3, <1>4, <1>5

LEMMA SetInv ==
  ASSUME PiIInv, NEW t \in Reader, PiSet(t)
  PROVE  PiIInv'
<1> USE DEF PiIInv, PiSet
<1>1. PiTypeOK'
  BY DEF PiTypeOK, PiPc
<1>2. /\ \A u \in Reader : u # t => piPc'[u] = piPc[u]
      /\ piPc[t] = "set" /\ piPc'[t] = "ask"
  BY DEF PiTypeOK
<1>3. ASSUME ~piRaced'
      PROVE  PiMutex' /\ PiSettled'
  BY <1>2, <1>3 DEF PiMutex, PiSettled, PiInside
<1>4. PiOwnSample'
  BY <1>2 DEF PiOwnSample
<1>5. PiFlagMeansAsked'
  BY <1>2 DEF PiFlagMeansAsked
<1> QED BY <1>1, <1>3, <1>4, <1>5

LEMMA AskInv ==
  ASSUME PiIInv, NEW t \in Reader, PiAsk(t)
  PROVE  PiIInv'
<1> USE DEF PiIInv, PiAsk
<1>1. PiTypeOK'
  BY DEF PiTypeOK, PiPc
<1>2. /\ \A u \in Reader : u # t => piPc'[u] = piPc[u] /\ piMine'[u] = piMine[u]
      /\ piPc[t] = "ask" /\ piPc'[t] = "spin" /\ piMine'[t] = piAsked + 1
  BY DEF PiTypeOK
<1>3. ASSUME ~piRaced'
      PROVE  PiMutex' /\ PiSettled'
  <2>1. piWay = {} /\ piReading /\ \A u \in Reader : PiInside(u) => u = t
    BY <1>2, <1>3 DEF PiMutex, PiSettled, PiInside
  <2> QED BY <1>2, <2>1 DEF PiMutex, PiSettled, PiInside
<1>4. PiOwnSample'
  BY <1>2 DEF PiOwnSample
<1>5. PiFlagMeansAsked'
  <2>1. CASE piRaced \/ piFailed
    BY <2>1 DEF PiFlagMeansAsked
  <2>2. CASE ~piRaced /\ ~piFailed
    <3>1. piReading
      BY <1>2, <2>2 DEF PiSettled
    <3>2. piMine'[t] \in piWay'
      BY <1>2
    <3> QED BY <1>2, <3>1, <3>2 DEF PiFlagMeansAsked
  <2> QED BY <2>1, <2>2
<1> QED BY <1>1, <1>3, <1>4, <1>5

(* What PiEnds does to the thread's place in the code.                     *)
LEMMA EndsFacts ==
  ASSUME PiTypeOK, NEW t \in Reader, PiEnds(t)
  PROVE  /\ piPc' \in [Reader -> PiPc]
         /\ piCall' \in [Reader -> [outer : BOOLEAN, left : Nat]]
         /\ \A u \in Reader : u # t => piPc'[u] = piPc[u]
         /\ piPc'[t] \in {"idle", "wait"}
  BY DEF PiTypeOK, PiEnds, PiPc

LEMMA AskFailsInv ==
  ASSUME PiIInv, NEW t \in Reader, PiAskFails(t)
  PROVE  PiIInv'
<1> USE DEF PiIInv, PiAskFails
<1>1. /\ piPc' \in [Reader -> PiPc]
      /\ piCall' \in [Reader -> [outer : BOOLEAN, left : Nat]]
      /\ \A u \in Reader : u # t => piPc'[u] = piPc[u]
      /\ piPc[t] = "ask" /\ piPc'[t] \in {"idle", "wait"}
  <2>1. CASE piCall[t].outer
    <3>1. /\ piPc' = [piPc EXCEPT ![t] = "idle"]
          /\ piCall' = [piCall EXCEPT ![t] = [outer |-> FALSE, left |-> 0]]
      BY <2>1
    <3> QED BY <3>1 DEF PiTypeOK, PiPc
  <2>2. CASE ~piCall[t].outer
    BY <2>2, EndsFacts
  <2> QED BY <2>1, <2>2
<1>2. PiTypeOK'
  BY <1>1 DEF PiTypeOK
<1>3. ASSUME ~piRaced'
      PROVE  PiMutex' /\ PiSettled'
  <2>1. piWay = {} /\ \A u \in Reader : PiInside(u) => u = t
    BY <1>1, <1>3 DEF PiMutex, PiSettled, PiInside
  <2> QED BY <1>1, <2>1 DEF PiMutex, PiSettled, PiInside
<1>4. PiOwnSample'
  BY <1>1 DEF PiOwnSample
<1>5. PiFlagMeansAsked'
  BY DEF PiFlagMeansAsked
<1> QED BY <1>2, <1>3, <1>4, <1>5

LEMMA CallbackInv ==
  ASSUME PiIInv, PiCallback
  PROVE  PiIInv'
<1> USE DEF PiIInv, PiCallback
<1>1. PICK n \in piWay : piSample' = n /\ piWay' = piWay \ {n}
  OBVIOUS
<1>2. n \in Nat
  BY <1>1 DEF PiTypeOK
<1>3. PiTypeOK'
  BY <1>1, <1>2 DEF PiTypeOK
<1>4. ASSUME ~piRaced
      PROVE  \E t \in Reader : piPc[t] = "spin" /\ piReading /\ piWay = {piMine[t]}
  BY <1>1, <1>4 DEF PiSettled, PiInside
<1>5. ASSUME ~piRaced'
      PROVE  PiMutex' /\ PiSettled'
  <2>1. PICK t \in Reader : piPc[t] = "spin" /\ piWay = {piMine[t]}
    BY <1>4, <1>5
  <2>2. \A u \in Reader : PiInside(u) => u = t
    BY <1>5, <2>1 DEF PiMutex, PiInside
  <2>3. piWay' = {} /\ piSample' = piMine[t] /\ ~piReading'
    BY <1>1, <2>1
  <2> QED BY <2>1, <2>2, <2>3 DEF PiMutex, PiSettled, PiInside
<1>6. PiOwnSample'
  BY DEF PiOwnSample
<1>7. PiFlagMeansAsked'
  <2>1. CASE piRaced
    BY <2>1 DEF PiFlagMeansAsked
  <2>2. CASE ~piRaced
    <3>1. PICK t \in Reader : piPc[t] = "spin" /\ piWay = {piMine[t]}
      BY <1>4, <2>2
    <3>2. \A u \in Reader : PiInside(u) => u = t
      BY <2>2, <3>1 DEF PiMutex, PiInside
    <3>3. piWay' = {} /\ ~piReading'
      BY <1>1, <3>1
    <3> QED BY <3>1, <3>2, <3>3 DEF PiFlagMeansAsked, PiInside
  <2> QED BY <2>1, <2>2
<1> QED BY <1>3, <1>5, <1>6, <1>7

LEMMA CallbackPartInv ==
  ASSUME PiIInv, PiCallbackPart
  PROVE  PiIInv'
<1> USE DEF PiIInv, PiCallbackPart
<1>1. PICK n \in piWay : piSample' = n
  OBVIOUS
<1>2. PiTypeOK'
  BY <1>1 DEF PiTypeOK
<1>3. ASSUME ~piRaced'
      PROVE  PiMutex' /\ PiSettled'
  BY <1>1, <1>3 DEF PiMutex, PiSettled, PiInside
<1>4. PiOwnSample' /\ PiFlagMeansAsked'
  BY DEF PiOwnSample, PiFlagMeansAsked
<1> QED BY <1>2, <1>3, <1>4

LEMMA TakeInv ==
  ASSUME PiIInv, NEW t \in Reader, PiTake(t)
  PROVE  PiIInv'
<1> USE DEF PiIInv, PiTake
<1>1. PICK s \in IF piWay = {} THEN {piSample} ELSE {piSample, Torn} :
         piOut' = [piOut EXCEPT ![t] = s]
  OBVIOUS
<1>2. /\ piPc' \in [Reader -> PiPc]
      /\ piCall' \in [Reader -> [outer : BOOLEAN, left : Nat]]
      /\ \A u \in Reader : u # t => piPc'[u] = piPc[u]
      /\ piPc[t] = "spin" /\ piPc'[t] \in {"idle", "wait"}
  BY EndsFacts
<1>3. PiTypeOK'
  BY <1>1, <1>2 DEF PiTypeOK
<1>4. ASSUME ~piRaced
      PROVE  piWay = {} /\ piSample = piMine[t] /\ \A u \in Reader : PiInside(u) => u = t
  BY <1>2, <1>4 DEF PiMutex, PiSettled, PiInside
<1>5. ASSUME ~piRaced'
      PROVE  PiMutex' /\ PiSettled'
  BY <1>2, <1>4, <1>5 DEF PiMutex, PiSettled, PiInside
<1>6. PiOwnSample'
  <2>1. /\ piOut'[t] = s
        /\ \A u \in Reader : u # t => piOut'[u] = piOut[u]
    BY <1>1 DEF PiTypeOK
  <2>2. ~piRaced => s = piMine[t]
    BY <1>1, <1>4
  <2> QED BY <1>2, <2>1, <2>2 DEF PiOwnSample
<1>7. PiFlagMeansAsked'
  BY <1>2, <1>4 DEF PiFlagMeansAsked, PiInside
<1> QED BY <1>3, <1>5, <1>6, <1>7

(* PiIInv is an invariant of any number of threads that read the agent     *)
(* (pwr_piapidev_read, pwr_piapidev_readv, piapidev_callback).             *)
THEOREM PiInductive == PiSpec => []PiIInv
<1>1. PiIInv /\ [PiNext]_piVars => PiIInv'
  <2> SUFFICES ASSUME PiIInv, [PiNext]_piVars PROVE PiIInv'
    OBVIOUS
  <2>1. CASE UNCHANGED piVars
    BY <2>1 DEF piVars, PiIInv, PiTypeOK, PiMutex, PiSettled, PiInside, PiOwnSample, PiFlagMeansAsked
  <2>2. ASSUME NEW t \in Reader, PiRead(t) PROVE PiIInv'
    BY <2>2, StartInv DEF PiRead
  <2>3. ASSUME NEW t \in Reader, NEW n \in 1..2, PiReadv(t, n) PROVE PiIInv'
    <3>1. n \in Nat /\ TRUE \in BOOLEAN
      OBVIOUS
    <3> QED BY <2>3, <3>1, StartInv DEF PiReadv
  <2>4. ASSUME NEW t \in Reader, PiStep(t) PROVE PiIInv'
    BY <2>4, WaitInv, SetInv, AskInv, AskFailsInv, TakeInv DEF PiStep
  <2>5. CASE PiCallback
    BY <2>5, CallbackInv
  <2>6. CASE PiCallbackPart
    BY <2>6, CallbackPartInv
  <2> QED BY <2>1, <2>2, <2>3, <2>4, <2>5, <2>6 DEF PiNext
<1> QED BY InitInv, <1>1, PTL DEF PiSpec

(* As long as reads do not overlap each returns its own sample             *)
(* (pwr_piapidev_read).                                                    *)
THEOREM ReadsAreOwn == PiSpec => []PiOwnSample
<1>1. PiIInv => PiOwnSample
  BY DEF PiIInv
<1> QED BY PiInductive, <1>1, PTL

(* As long as reads neither overlap nor fail the flag is up exactly while  *)
(* a sample is waited for (piapidev_reading).                              *)
THEOREM FlagIsHonest == PiSpec => []PiFlagMeansAsked
<1>1. PiIInv => PiFlagMeansAsked
  BY DEF PiIInv
<1> QED BY PiInductive, <1>1, PTL

-----------------------------------------------------------------------------
(* What read and write return, field by field.                             *)
Is(r, s, v, h, n) ==
  /\ r.st = s /\ r.val = v /\ r.h = h /\ r.fd = n /\ r.ends \in BOOLEAN
  /\ DOMAIN r = {"st", "val", "h", "fd", "ends"}

LEMMA Results ==
  ASSUME NEW h, NEW v, NEW n
  PROVE  /\ Is(Returns(h, v), 0, v, h, 0)
         /\ Is(Fails(h), -1, Untouched, h, 0)
         /\ Is(Never(h), 0, Untouched, h, 0) /\ Never(h).ends = FALSE
         /\ Is(Leaving(n, Returns(h, v)), 0, v, h, n)
         /\ Is(Leaving(n, Fails(h)), -1, Untouched, h, n)
<1>1. \A x : Is(Returns(h, x), 0, x, h, 0)
  BY DEF Returns, Is
<1>2. Is(Fails(h), -1, Untouched, h, 0)
  <2>1. PICK r : r = Returns(h, Untouched) /\ Is(r, 0, Untouched, h, 0)
    BY <1>1
  <2>2. Fails(h) = [r EXCEPT !.st = -1]
    BY <2>1, Zenon DEF Fails
  <2> QED BY <2>1, <2>2 DEF Is
<1>3. Is(Never(h), 0, Untouched, h, 0) /\ Never(h).ends = FALSE
  <2>1. PICK r : r = Returns(h, Untouched) /\ Is(r, 0, Untouched, h, 0)
    BY <1>1
  <2>2. Never(h) = [r EXCEPT !.ends = FALSE]
    BY <2>1, Zenon DEF Never
  <2> QED BY <2>1, <2>2 DEF Is
<1>4. Is(Leaving(n, Returns(h, v)), 0, v, h, n)
  <2>1. PICK r : r = Returns(h, v) /\ Is(r, 0, v, h, 0)
    BY <1>1
  <2>2. Leaving(n, Returns(h, v)) = [r EXCEPT !.fd = n]
    BY <2>1, Zenon DEF Leaving
  <2> QED BY <2>1, <2>2 DEF Is
<1>5. Is(Leaving(n, Fails(h)), -1, Untouched, h, n)
  <2>1. PICK r : r = Fails(h) /\ Is(r, -1, Untouched, h, 0)
    BY <1>2
  <2>2. Leaving(n, Fails(h)) = [r EXCEPT !.fd = n]
    BY <2>1, Zenon DEF Leaving
  <2> QED BY <2>1, <2>2 DEF Is
<1> QED BY <1>1, <1>2, <1>3, <1>4, <1>5

(* The attributes whose status tells whether there is a reading.           *)
Told(k) == Known(k) \ Mute(k)

(* A good outcome of one attribute of a call.                              *)
Good(k, o, op, a, r) ==
  /\ Right(k, o, r.h)
  /\ r.fd \in Nat /\ (k \notin {"cpu", "apm"} => r.fd = 0)
  /\ r.st \in {0, -1} /\ r.val \in Value /\ r.ends \in BOOLEAN
  /\ op = "read" /\ r.ends => /\ Own(k, o, [attr |-> a, st |-> r.st, val |-> r.val])
                              /\ Honest(k, [attr |-> a, st |-> r.st, val |-> r.val])

(* What is not a reading can be left in the buffer, of an attribute that   *)
(* the plug-in does not know; so can a failure, and a call without an end. *)
Constant(v) == v \in {Untouched, Zero, Junk}

LEMMA ConstantValue ==
  ASSUME NEW v, Constant(v)
  PROVE  v \in Value /\ v.attr = "none"
<1>1. <<"untouched">> \in Seq(Tokens) /\ <<"zero">> \in Seq(Tokens) /\ <<"junk">> \in Seq(Tokens)
  BY DEF Tokens
<1>2. PICK x \in Seq(Tokens) : v = [src |-> x, attr |-> "none"]
  BY <1>1 DEF Constant, Untouched, Zero, Junk
<1> QED BY <1>2 DEF Value

LEMMA UnknownGood ==
  ASSUME NEW k, NEW o, NEW op, NEW a, NEW h, Right(k, o, h), NEW v, Constant(v),
         NEW r, Is(r, 0, v, h, 0), r.ends = FALSE \/ op # "read" \/ a \notin Told(k)
  PROVE  Good(k, o, op, a, r)
<1>1. v \in Value
  BY ConstantValue
<1>2. r.h = h /\ r.st = 0 /\ r.val = v /\ r.fd = 0 /\ r.ends \in BOOLEAN
  BY DEF Is
<1>3. ASSUME op = "read", r.ends
      PROVE  /\ Own(k, o, [attr |-> a, st |-> r.st, val |-> r.val])
             /\ Honest(k, [attr |-> a, st |-> r.st, val |-> r.val])
  BY <1>2, <1>3 DEF Own, Honest, Constant, Told
<1> QED BY <1>1, <1>2, <1>3 DEF Good

LEMMA FailsGood ==
  ASSUME NEW k \in Kinds, NEW o, NEW op, NEW a, NEW h, Right(k, o, h), NEW n \in Nat,
         n = 0 \/ k \in {"cpu", "apm"}, NEW r, Is(r, -1, Untouched, h, n)
  PROVE  Good(k, o, op, a, r)
<1>1. Untouched \in Value /\ Untouched.attr = "none"
  BY ConstantValue DEF Constant
<1>2. r.h = h /\ r.st = -1 /\ r.val = Untouched /\ r.fd = n /\ r.ends \in BOOLEAN
  BY DEF Is
<1>3. a \in Told(k) => a # "none"
  BY DEF Told, Known, Mute, Kinds
<1>4. /\ Own(k, o, [attr |-> a, st |-> r.st, val |-> r.val])
      /\ Honest(k, [attr |-> a, st |-> r.st, val |-> r.val])
  BY <1>1, <1>2, <1>3 DEF Own, Honest, Tells, Told
<1> QED BY <1>1, <1>2, <1>4 DEF Good

LEMMA ReadingValue ==
  ASSUME NEW s \in Seq(Tokens), NEW a \in Attr
  PROVE  Reading(s, a) \in Value
  BY DEF Value, Reading

(* A reading of the sensor that was named.                                 *)
LEMMA ReadingGood ==
  ASSUME NEW k, NEW o, NEW op, NEW a \in Attr, NEW h, Right(k, o, h), NEW n \in Nat,
         n = 0 \/ k \in {"cpu", "apm"}, Sensor(k, o) \in Seq(Tokens),
         NEW r, Is(r, 0, Reading(Sensor(k, o), a), h, n)
  PROVE  Good(k, o, op, a, r)
<1> DEFINE v == Reading(Sensor(k, o), a)
<1>1. v \in Value
  BY DEF Value, Reading
<1>2. r.h = h /\ r.st = 0 /\ r.val = v /\ r.fd = n /\ r.ends \in BOOLEAN
  BY DEF Is
<1> HIDE DEF v
<1>3. /\ Own(k, o, [attr |-> a, st |-> r.st, val |-> r.val])
      /\ Honest(k, [attr |-> a, st |-> r.st, val |-> r.val])
  BY <1>2 DEF Own, Honest, Tells, v, Reading
<1> QED BY <1>1, <1>2, <1>3 DEF Good

(* Any value, of a plug-in that reads what it wants.                       *)
LEMMA AnyGood ==
  ASSUME NEW k \in {"rapl", "apm", "pg"}, NEW o, NEW op, NEW a, NEW h, Right(k, o, h),
         NEW v \in Value, op = "read" /\ a \in Told(k) => v.attr = a, NEW r, Is(r, 0, v, h, 0)
  PROVE  Good(k, o, op, a, r)
<1>1. r.h = h /\ r.st = 0 /\ r.val = v /\ r.fd = 0 /\ r.ends \in BOOLEAN
  BY DEF Is
<1>2. ASSUME op = "read"
      PROVE  /\ Own(k, o, [attr |-> a, st |-> r.st, val |-> r.val])
             /\ Honest(k, [attr |-> a, st |-> r.st, val |-> r.val])
  BY <1>1, <1>2 DEF Own, Honest, Tells, Told
<1> QED BY <1>1, <1>2 DEF Good

LEMMA NamedSensor ==
  ASSUME NEW k \in {"cpu", "pmc", "pid", "xtpm", "dummy"}, NEW o \in Strings, NEW h, Right(k, o, h)
  PROVE  Sensor(k, o) \in Seq(Tokens) /\ h.sensor = Sensor(k, o)
<1>1. h.sensor = Sensor(k, o)
  <2>1. CASE k \in {"cpu", "pmc", "pid"}
    <3>1. h = [sensor |-> Sensor(k, o)]
      BY <2>1 DEF Right
    <3> QED BY <3>1
  <2>2. CASE k = "xtpm"
    BY <2>2 DEF Right
  <2>3. CASE k = "dummy"
    BY <2>3 DEF Right, Sensor
  <2> QED BY <2>1, <2>2, <2>3
<1>2. CASE k \in {"cpu", "pmc", "pid"}
  <2>1. o # <<>>
    BY <1>2 DEF Right
  <2>2. o[1] \in Tokens
    BY <2>1 DEF Strings, Tokens
  <2>3. <<o[1]>> \in Seq(Tokens)
    BY <2>2
  <2> QED BY <1>1, <1>2, <2>3 DEF Sensor
<1>3. CASE k = "xtpm"
  <2>1. <<"node">> \in Seq(Tokens)
    BY DEF Tokens
  <2> QED BY <1>1, <1>3, <2>1 DEF Sensor
<1>4. CASE k = "dummy"
  <2>1. o \in Seq(Tokens)
    BY SeqDef DEF Strings, Tokens
  <2> QED BY <1>1, <1>4, <2>1 DEF Sensor
<1> QED BY <1>2, <1>3, <1>4

(* A file: it cannot be opened or read, it is read without an end, or the  *)
(* reading is in the buffer.                                               *)
FileOutcomes(h, a) == {Fails(h), Never(h), Returns(h, Reading(h.sensor, a))}

LEMMA FileGood ==
  ASSUME NEW k \in {"cpu", "pmc", "pid", "xtpm", "dummy"}, NEW o \in Strings, NEW op, NEW a \in Attr,
         NEW h, Right(k, o, h), NEW r \in FileOutcomes(h, a)
  PROVE  Good(k, o, op, a, r)
<1>1. Sensor(k, o) \in Seq(Tokens) /\ h.sensor = Sensor(k, o)
  BY NamedSensor
<1>2. r \in {Fails(h), Never(h), Returns(h, Reading(h.sensor, a))}
  BY DEF FileOutcomes
<1>3. CASE r = Fails(h)
  <2>1. Is(r, -1, Untouched, h, 0)
    BY <1>3, Results
  <2> QED BY <2>1, FailsGood DEF Kinds
<1>4. CASE r = Never(h)
  <2>1. Is(r, 0, Untouched, h, 0) /\ r.ends = FALSE
    BY <1>4, Results
  <2> QED BY <2>1, UnknownGood DEF Constant
<1>5. CASE r = Returns(h, Reading(h.sensor, a))
  <2>1. Is(r, 0, Reading(Sensor(k, o), a), h, 0)
    BY <1>1, <1>5, Results
  <2> QED BY <1>1, <2>1, ReadingGood
<1> QED BY <1>2, <1>3, <1>4, <1>5

(* An attribute whose status need not tell anything.                       *)
LEMMA ConstantGood ==
  ASSUME NEW k, NEW o, NEW op, NEW a, NEW h, Right(k, o, h), NEW v, Constant(v),
         op # "read" \/ a \notin Told(k), NEW r, r = Returns(h, v)
  PROVE  Good(k, o, op, a, r)
<1>1. Is(r, 0, v, h, 0)
  BY Results
<1> QED BY <1>1, UnknownGood

LEMMA CpuGood ==
  ASSUME NEW o \in Strings, NEW op \in {"read", "write"}, NEW a \in Attr, NEW h, Right("cpu", o, h),
         NEW r \in CpuElement(op, h, a)
  PROVE  Good("cpu", o, op, a, r)
<1>1. CASE a \in {"sstate", "freq"}
  <2>1. r \in FileOutcomes(h, a) \union {Leaving(1, Fails(h)), Leaving(1, Returns(h, Reading(h.sensor, a)))}
    BY <1>1 DEF CpuElement, CpuRead, CpuWrite, CpuFileRead, CpuFileWrite, FileOutcomes
  <2>2. CASE r \in FileOutcomes(h, a)
    BY <2>2, FileGood
  <2>3. CASE r = Leaving(1, Fails(h))
    <3>1. Is(r, -1, Untouched, h, 1)
      BY <2>3, Results
    <3> QED BY <3>1, FailsGood DEF Kinds
  <2>4. CASE r = Leaving(1, Returns(h, Reading(h.sensor, a)))
    <3>1. Sensor("cpu", o) \in Seq(Tokens) /\ h.sensor = Sensor("cpu", o)
      BY NamedSensor
    <3>2. Is(r, 0, Reading(Sensor("cpu", o), a), h, 1)
      BY <2>4, <3>1, Results
    <3> QED BY <3>1, <3>2, ReadingGood
  <2> QED BY <2>1, <2>2, <2>3, <2>4
<1>2. CASE a \notin {"sstate", "freq"}
  <2>1. r = Returns(h, Zero) \/ r = Returns(h, Untouched)
    BY <1>2 DEF CpuElement, CpuRead, CpuWrite
  <2>2. a \notin Told("cpu")
    BY <1>2 DEF Told, Known, Mute
  <2> QED BY <2>1, <2>2, ConstantGood DEF Constant
<1> QED BY <1>1, <1>2

LEMMA PmcGood ==
  ASSUME NEW o \in Strings, NEW op \in {"read", "write"}, NEW a \in Attr, NEW h, Right("pmc", o, h),
         NEW r \in PmcElement(op, h, a)
  PROVE  Good("pmc", o, op, a, r)
<1>1. CASE r \in FileOutcomes(h, a)
  BY <1>1, FileGood
<1>2. CASE r \notin FileOutcomes(h, a)
  <2>1. r = Returns(h, Untouched) /\ (op # "read" \/ a \notin Told("pmc"))
    BY <1>2 DEF PmcElement, PmcRead, PmcWrite, PmcFileRead, PmcFileWrite, FileOutcomes, Told, Known, Mute
  <2> QED BY <2>1, ConstantGood DEF Constant
<1> QED BY <1>1, <1>2

LEMMA PidGood ==
  ASSUME NEW o \in Strings, NEW op \in {"read", "write"}, NEW a \in Attr, NEW h, Right("pid", o, h),
         NEW r \in PidElement(op, h, a)
  PROVE  Good("pid", o, op, a, r)
<1>1. CASE r \in FileOutcomes(h, a)
  BY <1>1, FileGood
<1>2. CASE r \notin FileOutcomes(h, a)
  <2>1. r = Returns(h, Untouched) /\ (op # "read" \/ a \notin Told("pid"))
    BY <1>2 DEF PidElement, PidRead, FileOutcomes, Told, Known, Mute
  <2> QED BY <2>1, ConstantGood DEF Constant
<1> QED BY <1>1, <1>2

(* A changed generation is noted after a value was read.                   *)
LEMMA RegeneratedGood ==
  ASSUME NEW o, NEW op, NEW a, NEW q, Good("xtpm", o, op, a, q), NEW g \in Generation,
         NEW r, r = [q EXCEPT !.h.gen = g], DOMAIN q = {"st", "val", "h", "fd", "ends"}
  PROVE  Good("xtpm", o, op, a, r)
<1>1. r.st = q.st /\ r.val = q.val /\ r.fd = q.fd /\ r.ends = q.ends /\ r.h = [q.h EXCEPT !.gen = g]
  OBVIOUS
<1>2. Right("xtpm", o, r.h)
  <2>1. PICK f : q.h = [sensor |-> Sensor("xtpm", o), gen |-> f]
    BY DEF Good, Right
  <2>2. r.h = [sensor |-> Sensor("xtpm", o), gen |-> g]
    BY <1>1, <2>1
  <2> QED BY <2>2 DEF Right
<1> QED BY <1>1, <1>2 DEF Good

LEMMA XtpmGood ==
  ASSUME NEW o \in Strings, NEW op \in {"read", "write"}, NEW a \in Attr, NEW h, Right("xtpm", o, h),
         NEW r \in XtpmElement(op, h, a)
  PROVE  Good("xtpm", o, op, a, r)
<1> DEFINE value == IF a \in {"energy", "power", "max"} THEN XtpmFileRead(h, a)
                                                        ELSE {Returns(h, Untouched)}
<1>1. ASSUME NEW q \in value, op = "read"
      PROVE  Good("xtpm", o, op, a, q) /\ DOMAIN q = {"st", "val", "h", "fd", "ends"}
  <2>1. CASE a \in {"energy", "power", "max"}
    <3>1. q \in {Fails(h), Never(h), Returns(h, Reading(h.sensor, a))}
      BY <2>1 DEF XtpmFileRead
    <3>2. q \in FileOutcomes(h, a)
      BY <3>1 DEF FileOutcomes
    <3>3. DOMAIN q = {"st", "val", "h", "fd", "ends"}
      <4>1. Is(q, -1, Untouched, h, 0) \/ Is(q, 0, Untouched, h, 0) \/ Is(q, 0, Reading(h.sensor, a), h, 0)
        BY <3>1, Results
      <4> QED BY <4>1 DEF Is
    <3> QED BY <3>2, <3>3, FileGood
  <2>2. CASE a \notin {"energy", "power", "max"}
    <3>1. q = Returns(h, Untouched) /\ a \notin Told("xtpm")
      BY <2>2 DEF Told, Known, Mute
    <3>2. DOMAIN q = {"st", "val", "h", "fd", "ends"}
      <4>1. Is(q, 0, Untouched, h, 0)
        BY <3>1, Results
      <4> QED BY <4>1 DEF Is
    <3> QED BY <3>1, <3>2, ConstantGood DEF Constant
  <2> QED BY <2>1, <2>2
<1>2. CASE op = "read"
  <2>1. r \in XtpmRead(h, a)
    BY <1>2 DEF XtpmElement
  <2>2. \/ r \in value \/ r = Never(h)
        \/ \E q \in value, g \in Generation : r = [q EXCEPT !.h.gen = g]
    BY <2>1 DEF XtpmRead
  <2>3. CASE r = Never(h)
    <3>1. r \in FileOutcomes(h, a)
      BY <2>3 DEF FileOutcomes
    <3> QED BY <3>1, FileGood
  <2>4. ASSUME NEW q \in value, NEW g \in Generation, r = [q EXCEPT !.h.gen = g]
        PROVE  Good("xtpm", o, op, a, r)
    <3>1. Good("xtpm", o, op, a, q) /\ DOMAIN q = {"st", "val", "h", "fd", "ends"}
      BY <1>1, <1>2
    <3> HIDE DEF value
    <3> QED BY <2>4, <3>1, RegeneratedGood
  <2> HIDE DEF value
  <2> QED BY <1>1, <1>2, <2>2, <2>3, <2>4
<1>3. CASE op = "write"
  <2>1. CASE r \in FileOutcomes(h, a)
    BY <2>1, FileGood
  <2>2. CASE r \notin FileOutcomes(h, a)
    <3>1. r = Returns(h, Untouched)
      BY <1>3, <2>2 DEF XtpmElement, XtpmWrite, XtpmFileWrite, FileOutcomes
    <3> QED BY <1>3, <3>1, ConstantGood DEF Constant
  <2> QED BY <2>1, <2>2
<1> QED BY <1>2, <1>3

LEMMA DummyGood ==
  ASSUME NEW o \in Strings, NEW op \in {"read", "write"}, NEW a \in Attr, NEW h, Right("dummy", o, h),
         NEW r \in DummyElement(op, h, a)
  PROVE  Good("dummy", o, op, a, r)
<1>1. CASE op = "read"
  <2>1. CASE a \in h.filled
    <3>1. r \in FileOutcomes(h, a)
      BY <1>1, <2>1 DEF DummyElement, DummyRead, FileOutcomes
    <3> QED BY <3>1, FileGood
  <2>2. CASE a \notin h.filled
    <3>1. r = Returns(h, Junk)
      BY <1>1, <2>2 DEF DummyElement, DummyRead
    <3>2. a \notin Told("dummy")
      BY <2>2 DEF Told, Known, Mute, Right
    <3> QED BY <3>1, <3>2, ConstantGood DEF Constant
  <2> QED BY <2>1, <2>2
<1>2. CASE op = "write"
  <2>1. PICK g : g = [h EXCEPT !.filled = @ \union {a}]
    OBVIOUS
  <2>2. Right("dummy", o, g) /\ g.sensor = h.sensor
    BY <2>1 DEF Right
  <2>3. r = Returns(g, Reading(h.sensor, a))
    BY <1>2, <2>1 DEF DummyElement, DummyWrite
  <2>4. r \in FileOutcomes(g, a)
    BY <2>2, <2>3 DEF FileOutcomes
  <2> QED BY <2>2, <2>4, FileGood
<1> QED BY <1>1, <1>2

LEMMA RaplGood ==
  ASSUME NEW o \in Strings, NEW op \in {"read", "write"}, NEW a \in Attr, NEW h, Right("rapl", o, h),
         NEW r \in RaplElement(op, h, a)
  PROVE  Good("rapl", o, op, a, r)
<1>1. RaplRegister(h) \in Tokens
  BY DEF Right, RaplRegister, Tokens
<1>2. Untouched \in Value
  BY ConstantValue DEF Constant
<1>3. CASE r = Fails(h)
  <2>1. Is(r, -1, Untouched, h, 0)
    BY <1>3, Results
  <2> QED BY <2>1, FailsGood DEF Kinds
<1>4. CASE r # Fails(h)
  <2>1. PICK v : r = Returns(h, v) /\ (v = Untouched \/ (a = "energy" /\ v = Reading(<<RaplRegister(h)>>, a)))
    BY <1>4 DEF RaplElement, RaplRead
  <2>2. <<RaplRegister(h)>> \in Seq(Tokens)
    BY <1>1
  <2>3. v \in Value
    BY <1>2, <2>1, <2>2, ReadingValue
  <2>4. Is(r, 0, v, h, 0)
    BY <2>1, Results
  <2>5. op = "read" /\ a \in Told("rapl") => v.attr = a
    <3>1. op = "read" /\ a = "energy" => r = Fails(h) \/ r = Returns(h, Reading(<<RaplRegister(h)>>, a))
      BY DEF RaplElement, RaplRead
    <3>2. v = r.val
      BY <2>4 DEF Is
    <3>3. PICK w : w = Reading(<<RaplRegister(h)>>, a)
      OBVIOUS
    <3>4. Is(Returns(h, w), 0, w, h, 0)
      BY Results
    <3>5. w.attr = a
      BY <3>3 DEF Reading
    <3> QED BY <1>4, <3>1, <3>2, <3>3, <3>4, <3>5 DEF Is, Told, Known, Mute
  <2> QED BY <2>3, <2>4, <2>5, AnyGood
<1> QED BY <1>3, <1>4

LEMMA ApmGood ==
  ASSUME NEW o \in Strings, NEW op \in {"read", "write"}, NEW a \in Attr, NEW h, Right("apm", o, h),
         NEW r \in ApmElement(op, h, a)
  PROVE  Good("apm", o, op, a, r)
<1>1. Untouched \in Value /\ Junk \in Value
  BY ConstantValue DEF Constant
<1>2. \/ \E n \in {0, 1} : r = Leaving(n, Fails(h))
      \/ \E v : r = Returns(h, v) /\ (v \in {Untouched, Junk} \/ (a = "power" /\ v = Reading(<<h.core>>, a)))
  <2>1. 0..1 = {0, 1}
    OBVIOUS
  <2> QED BY <2>1 DEF ApmElement, ApmRead, ApmPipeFails, ApmPower
<1>3. ASSUME NEW n \in {0, 1}, r = Leaving(n, Fails(h))
      PROVE  Good("apm", o, op, a, r)
  <2>1. Is(r, -1, Untouched, h, n)
    BY <1>3, Results
  <2> QED BY <2>1, FailsGood DEF Kinds
<1>4. ASSUME NEW v, r = Returns(h, v), v \in {Untouched, Junk} \/ (a = "power" /\ v = Reading(<<h.core>>, a))
      PROVE  Good("apm", o, op, a, r)
  <2>1. h.core \in Tokens
    BY DEF Right, Tokens
  <2>2. <<h.core>> \in Seq(Tokens)
    BY <2>1
  <2>3. v \in Value
    BY <1>1, <1>4, <2>2, ReadingValue
  <2>4. Is(r, 0, v, h, 0)
    BY <1>4, Results
  <2>5. a \notin Told("apm")
    BY DEF Told, Mute
  <2> QED BY <2>3, <2>4, <2>5, AnyGood
<1> QED BY <1>2, <1>3, <1>4

LEMMA PgGood ==
  ASSUME NEW o \in Strings, NEW op \in {"read", "write"}, NEW a \in Attr, NEW h, Right("pg", o, h),
         NEW r \in PgElement(op, h, a)
  PROVE  Good("pg", o, op, a, r)
<1>1. Untouched \in Value /\ Junk \in Value /\ Zero \in Value
  BY ConstantValue DEF Constant
<1>2. h.sensor = o /\ Len(o) >= 2
  BY DEF Right
<1>3. o \in Seq(Tokens) /\ <<"0", o[2]>> \in Seq(Tokens)
  <2>1. o \in Seq(Tokens)
    BY SeqDef DEF Strings, Tokens
  <2>2. o[2] \in Tokens /\ "0" \in Tokens
    BY <1>2, <2>1 DEF Tokens
  <2> QED BY <2>1, <2>2
<1>4. PICK v : r = Returns(h, v) /\ v \in {Untouched, Junk, Zero, Reading(<<"0", o[2]>>, a), Reading(o, a)}
  BY <1>2 DEF PgElement, PgRead
<1>5. v \in Value
  BY <1>1, <1>3, <1>4, ReadingValue
<1>6. Is(r, 0, v, h, 0)
  BY <1>4, Results
<1>7. a \notin Told("pg")
  BY DEF Told, Mute
<1> QED BY <1>5, <1>6, <1>7, AnyGood

LEMMA ElementGood ==
  ASSUME NEW k \in Kinds, NEW o \in Strings, NEW op \in {"read", "write"}, NEW a \in Attr,
         NEW h, Right(k, o, h), NEW r \in Element(k, op, h, a)
  PROVE  Good(k, o, op, a, r)
<1>1. CASE k = "cpu"
  BY <1>1, CpuGood DEF Element
<1>2. CASE k = "pmc"
  BY <1>2, PmcGood DEF Element
<1>3. CASE k = "xtpm"
  BY <1>3, XtpmGood DEF Element
<1>4. CASE k = "rapl"
  BY <1>4, RaplGood DEF Element
<1>5. CASE k = "apm"
  BY <1>5, ApmGood DEF Element
<1>6. CASE k = "pg"
  BY <1>6, PgGood DEF Element
<1>7. CASE k = "pid"
  BY <1>7, PidGood DEF Element
<1>8. CASE k = "dummy"
  BY <1>8, DummyGood DEF Element
<1> QED BY <1>1, <1>2, <1>3, <1>4, <1>5, <1>6, <1>7, <1>8 DEF Kinds

-----------------------------------------------------------------------------
(* What init and open return, field by field.                              *)
IsMade(r, d, n) == r.ok /\ r.data = d /\ r.fd = n
IsNot(r)        == ~r.ok /\ r.fd = 0

LEMMA Outcomes ==
  ASSUME NEW d, NEW rest, NEW n
  PROVE  IsMade(Made(d, rest, n), d, n) /\ IsNot(Refused(rest)) /\ IsNot(Hangs(rest))
<1>1. IsMade(Made(d, rest, n), d, n)
  BY DEF IsMade, Made
<1>2. IsNot(Refused(rest)) /\ DOMAIN Refused(rest) = {"ok", "data", "rest", "fd", "ends"}
  BY DEF IsNot, Refused
<1>3. IsNot(Hangs(rest))
  <2>1. PICK r : r = Refused(rest) /\ IsNot(r) /\ DOMAIN r = {"ok", "data", "rest", "fd", "ends"}
    BY <1>2
  <2>2. Hangs(rest) = [r EXCEPT !.ends = FALSE]
    BY <2>1, Zenon DEF Hangs
  <2> QED BY <2>1, <2>2 DEF IsNot
<1> QED BY <1>1, <1>2, <1>3

(* A device is made with the files that its final closes, but for the pipe *)
(* of an apmdev.                                                           *)
InitGood(k, r) ==
  /\ r.fd \in Nat
  /\ k \notin {"rapl", "apm"} => r.fd = 0
  /\ r.ok => r.data # Down
  /\ k = "rapl" => r.fd = IF r.ok THEN 1 ELSE 0
  /\ k = "apm" /\ r.ok => r.data.core = "0"

LEMMA InitIsGood ==
  ASSUME NEW k \in Kinds, NEW s, NEW r \in InitOf(k, s)
  PROVE  InitGood(k, r)
<1>1. ASSUME NEW x, NEW t, r = Made([kind |-> x], t, 0), k \notin {"rapl", "apm"}, x # "none"
      PROVE  InitGood(k, r)
  <2>1. IsMade(r, [kind |-> x], 0)
    BY <1>1, Outcomes
  <2>2. r.data # Down
    <3>1. [kind |-> x].kind = x /\ [kind |-> "none"].kind = "none"
      OBVIOUS
    <3> QED BY <1>1, <2>1, <3>1 DEF Down, NoData, IsMade
  <2> QED BY <1>1, <2>1, <2>2 DEF InitGood, IsMade
<1>2. ASSUME NEW t, r = Refused(t) \/ r = Hangs(t)
      PROVE  InitGood(k, r)
  <2>1. IsNot(r)
    BY <1>2, Outcomes
  <2> QED BY <2>1 DEF InitGood, IsNot
<1>3. CASE k \in {"cpu", "pmc", "xtpm", "pg", "pid", "dummy"}
  <2>1. \E t : r \in {Made([kind |-> k], t, 0), Refused(t), Hangs(t)}
    <3>1. CASE k = "cpu"
      BY <3>1 DEF InitOf, CpuInit
    <3>2. CASE k = "pmc"
      BY <3>2 DEF InitOf, PmcInit
    <3>3. CASE k = "xtpm"
      BY <3>3 DEF InitOf, XtpmInit
    <3>4. CASE k = "pg"
      BY <3>4 DEF InitOf, PgInit
    <3>5. CASE k = "pid"
      BY <3>5 DEF InitOf, PidInit
    <3>6. CASE k = "dummy"
      BY <3>6 DEF InitOf, DummyInit
    <3> QED BY <1>3, <3>1, <3>2, <3>3, <3>4, <3>5, <3>6
  <2> QED BY <1>1, <1>2, <1>3, <2>1
<1>4. CASE k = "rapl"
  <2>1. (\E t : r = Refused(t)) \/ \E t, m : r = Made([kind |-> "rapl", model |-> m], t, 1)
    BY <1>4 DEF InitOf, RaplInit
  <2>2. ASSUME NEW t, NEW m, r = Made([kind |-> "rapl", model |-> m], t, 1)
        PROVE  InitGood(k, r)
    <3>1. IsMade(r, [kind |-> "rapl", model |-> m], 1)
      BY <2>2, Outcomes
    <3>2. r.data # Down
      <4>1. r.data.kind = "rapl" /\ [kind |-> "none"].kind = "none"
        BY <3>1 DEF IsMade
      <4> QED BY <4>1 DEF Down, NoData
    <3> QED BY <1>4, <3>1, <3>2 DEF InitGood, IsMade
  <2> QED BY <1>2, <2>1, <2>2
<1>5. CASE k = "apm"
  <2>1. \/ \E t : r = Refused(t)
        \/ \E t, n, l : l \in Nat /\ r = Made([kind |-> "apm", nodes |-> n, core |-> "0"], t, l)
    <3>1. r \in ApmInit(s, tok)
      BY <1>5 DEF InitOf
    <3>2. \/ \E t : r = Refused(t)
          \/ \E n \in ApmNodes : \E l \in 0..(ApmNodeMax - Cardinality(n)) :
               r = Made([kind |-> "apm", nodes |-> n, core |-> "0"], Rest(s, 1), l)
      BY <3>1, Zenon DEF ApmInit
    <3>3. \A n \in ApmNodes : \A l \in 0..(ApmNodeMax - Cardinality(n)) : l \in Nat
      OBVIOUS
    <3> QED BY <3>2, <3>3
  <2>2. ASSUME NEW t, NEW n, NEW l \in Nat, r = Made([kind |-> "apm", nodes |-> n, core |-> "0"], t, l)
        PROVE  InitGood(k, r)
    <3>1. IsMade(r, [kind |-> "apm", nodes |-> n, core |-> "0"], l)
      BY <2>2, Outcomes
    <3>2. r.data # Down /\ r.data.core = "0"
      <4>1. r.data.kind = "apm" /\ [kind |-> "none"].kind = "none" /\ r.data.core = "0"
        BY <3>1 DEF IsMade
      <4> QED BY <4>1 DEF Down, NoData
    <3> QED BY <1>5, <3>1, <3>2 DEF InitGood, IsMade
  <2> QED BY <1>2, <2>1, <2>2
<1> QED BY <1>3, <1>4, <1>5 DEF Kinds

LEMMA OpenIsRight ==
  ASSUME NEW k \in Kinds, NEW o \in Strings, NEW r \in OpenOf(k, o), r.ok,
         k = "apm" => dev[k].core = "0"
  PROVE  Right(k, o, r.data)
<1>1. ASSUME NEW t, r = Refused(t) \/ r = Hangs(t)
      PROVE  FALSE
  <2>1. IsNot(r)
    BY <1>1, Outcomes
  <2> QED BY <2>1 DEF IsNot
<1>2. CASE k \in {"cpu", "pmc", "pid"}
  <2>1. (\E t : r = Refused(t)) \/ (o # <<>> /\ \E t : r = Made([sensor |-> <<o[1]>>], t, 0))
    <3>1. CASE k = "cpu"
      BY <3>1 DEF OpenOf, CpuOpen
    <3>2. CASE k = "pmc"
      BY <3>2 DEF OpenOf, PmcOpen
    <3>3. CASE k = "pid"
      BY <3>3 DEF OpenOf, PidOpen
    <3> QED BY <1>2, <3>1, <3>2, <3>3
  <2>2. PICK t : o # <<>> /\ r = Made([sensor |-> <<o[1]>>], t, 0)
    BY <1>1, <2>1
  <2>3. r.data = [sensor |-> <<o[1]>>] /\ Sensor(k, o) = <<o[1]>>
    <3>1. IsMade(r, [sensor |-> <<o[1]>>], 0)
      BY <2>2, Outcomes
    <3> QED BY <1>2, <3>1 DEF Sensor, IsMade
  <2> QED BY <1>2, <2>2, <2>3 DEF Right
<1>3. CASE k = "xtpm"
  <2>1. \/ r \in {Refused(tok), Hangs(tok)}
        \/ \E g \in Generation : r = Made([sensor |-> <<"node">>, gen |-> g], tok, 0)
    BY <1>3 DEF OpenOf, XtpmOpen
  <2>3. PICK g \in Generation : r = Made([sensor |-> <<"node">>, gen |-> g], tok, 0)
    BY <1>1, <2>1
  <2>2. r.data = [sensor |-> Sensor(k, o), gen |-> g]
    <3>1. IsMade(r, [sensor |-> <<"node">>, gen |-> g], 0)
      BY <2>3, Outcomes
    <3> QED BY <1>3, <3>1 DEF Sensor, IsMade
  <2> QED BY <1>3, <2>2 DEF Right
<1>4. CASE k = "rapl"
  <2>1. RaplParseOpen(tok) # "none" /\ \E t, m : r = Made([layer |-> RaplParseOpen(tok), model |-> m], t, 0)
    BY <1>1, <1>4 DEF OpenOf, RaplOpen
  <2>2. r.data.layer = RaplParseOpen(tok)
    <3>1. PICK t, m : r = Made([layer |-> RaplParseOpen(tok), model |-> m], t, 0)
      BY <2>1
    <3>2. IsMade(r, [layer |-> RaplParseOpen(tok), model |-> m], 0)
      BY <3>1, Outcomes
    <3> QED BY <3>2 DEF IsMade
  <2>3. RaplParseOpen(tok) \in {"pkg", "pp0", "pp1"}
    BY <2>1 DEF RaplParseOpen
  <2> QED BY <1>4, <2>2, <2>3 DEF Right
<1>5. CASE k = "apm"
  <2>1. r = Made([nodes |-> dev[k].nodes, core |-> dev[k].core], tok, 0)
    BY <1>5 DEF OpenOf, ApmOpen
  <2>2. r.data.core = "0"
    <3>1. IsMade(r, [nodes |-> dev[k].nodes, core |-> dev[k].core], 0)
      BY <2>1, Outcomes
    <3> QED BY <1>5, <3>1 DEF IsMade
  <2> QED BY <1>5, <2>2 DEF Right
<1>6. CASE k = "pg"
  <2>1. PgParse(o) /\ \E t : r = Made([sensor |-> o], t, 0)
    BY <1>1, <1>6 DEF OpenOf, PgOpen
  <2>2. r.data = [sensor |-> o] /\ Len(o) >= 2
    <3>1. IsMade(r, [sensor |-> o], 0)
      BY <2>1, Outcomes
    <3> QED BY <2>1, <3>1 DEF PgParse, IsMade
  <2> QED BY <1>6, <2>2 DEF Right
<1>7. CASE k = "dummy"
  <2>1. r = Made([sensor |-> o, filled |-> {"power", "energy"}], tok, 0)
    BY <1>7 DEF OpenOf, DummyOpen
  <2>2. r.data = [sensor |-> o, filled |-> {"power", "energy"}]
    <3>1. IsMade(r, [sensor |-> o, filled |-> {"power", "energy"}], 0)
      BY <2>1, Outcomes
    <3> QED BY <3>1 DEF IsMade
  <2> QED BY <1>7, <2>2 DEF Right
<1> QED BY <1>2, <1>3, <1>4, <1>5, <1>6, <1>7 DEF Kinds

-----------------------------------------------------------------------------
(* The files that final closes are those of a rapldev.                     *)
LEMMA HeldIs ==
  Cardinality({k \in DOMAIN cfg : dev[k] # Down /\ FinalFiles(k) = 1})
    = IF "rapl" \in DOMAIN cfg /\ dev["rapl"] # Down THEN 1 ELSE 0
<1> DEFINE H == {k \in DOMAIN cfg : dev[k] # Down /\ FinalFiles(k) = 1}
<1>1. \A k : FinalFiles(k) = 1 <=> k = "rapl"
  BY DEF FinalFiles
<1>2. CASE "rapl" \in DOMAIN cfg /\ dev["rapl"] # Down
  <2>1. H = {"rapl"}
    BY <1>1, <1>2
  <2>2. Cardinality(H) = 1
    BY <2>1, FS_Singleton
  <2> QED BY <1>2, <2>2
<1>3. CASE ~("rapl" \in DOMAIN cfg /\ dev["rapl"] # Down)
  <2>1. H = {}
    BY <1>1, <1>3
  <2>2. Cardinality(H) = 0
    BY <2>1, FS_EmptySet
  <2> QED BY <1>3, <2>2
<1> QED BY <1>2, <1>3

Held == "rapl" \in DOMAIN cfg /\ dev["rapl"] # Down
FilesRight ==
  LET held == IF Held THEN 1 ELSE 0
  IN files >= held /\ (DOMAIN cfg \cap {"cpu", "apm"} = {} => files = held)

LEMMA FilesRightIs ==
  (LET held == Cardinality({k \in DOMAIN cfg : dev[k] # Down /\ FinalFiles(k) = 1})
   IN files >= held /\ (DOMAIN cfg \cap {"cpu", "apm"} = {} => files = held))
  <=> FilesRight
  BY HeldIs DEF FilesRight, Held

(* The parts of the inductive invariant.                                   *)
TablesOK ==
  /\ cfg \in Configs /\ files \in Nat
  /\ DOMAIN dev = DOMAIN cfg /\ DOMAIN hnd = DOMAIN cfg
  /\ \A k \in DOMAIN cfg : DOMAIN hnd[k] = cfg[k].opens
  /\ "apm" \in DOMAIN cfg => dev["apm"] = Down \/ dev["apm"].core = "0"
HandlesOK ==
  \A k \in DOMAIN cfg : \A o \in cfg[k].opens : hnd[k][o] = Closed \/ Right(k, o, hnd[k][o])
CallsOK   == call = NoCall \/ CallOK(call, proc = "runs")
AnswersOK == OwnSensor /\ StatusTells

LEMMA IInvParts == PlugInsIInv <=> TablesOK /\ HandlesOK /\ CallsOK /\ FilesRight /\ AnswersOK
  BY FilesRightIs DEF PlugInsIInv, TablesOK, HandlesOK, CallsOK, AnswersOK

LEMMA IInvPartsNext ==
  PlugInsIInv' <=> TablesOK' /\ HandlesOK' /\ CallsOK' /\ FilesRight' /\ AnswersOK'
  BY IInvParts, PTL

LEMMA ConfigFacts ==
  ASSUME TablesOK, NEW k \in DOMAIN cfg
  PROVE  k \in Kinds /\ \A o \in cfg[k].opens : o \in Strings
<1>1. cfg[k] \in Device /\ k \in Kinds
  BY PlugInsAssumption DEF TablesOK
<1> QED BY <1>1 DEF Device

LEMMA PlugInsInit == Init => PlugInsIInv
<1> SUFFICES ASSUME Init PROVE PlugInsIInv
  OBVIOUS
<1>1. TablesOK
  BY DEF Init, TablesOK, Down
<1>2. HandlesOK /\ CallsOK
  BY DEF Init, HandlesOK, CallsOK
<1>3. FilesRight
  BY DEF Init, FilesRight, Held
<1>4. AnswersOK
  <2>1. Answered = {}
    BY DEF Init, Answered
  <2> QED BY <2>1 DEF AnswersOK, OwnSensor, StatusTells
<1> QED BY <1>1, <1>2, <1>3, <1>4, IInvParts

LEMMA InitDeviceInv ==
  ASSUME PlugInsIInv, NEW k \in DOMAIN cfg, InitDevice(k)
  PROVE  PlugInsIInv'
<1>1. TablesOK /\ HandlesOK /\ CallsOK /\ FilesRight /\ AnswersOK
  BY IInvParts
<1>2. UNCHANGED <<cfg, hnd, call, last>> /\ call = NoCall /\ dev[k] = Down
  BY DEF InitDevice, Free
<1>3. PICK r : /\ r \in InitOf(k, cfg[k].init)
               /\ dev' = IF r.ok THEN [dev EXCEPT ![k] = r.data] ELSE dev
               /\ files' = files + r.fd
  BY Zenon DEF InitDevice
<1>4. InitGood(k, r)
  BY <1>1, <1>3, ConfigFacts, InitIsGood
<1>5. TablesOK'
  <2>1. files' \in Nat
    BY <1>1, <1>3, <1>4 DEF TablesOK, InitGood
  <2>2. DOMAIN dev' = DOMAIN cfg
    BY <1>1, <1>3 DEF TablesOK
  <2>3. "apm" \in DOMAIN cfg => dev'["apm"] = Down \/ dev'["apm"].core = "0"
    BY <1>1, <1>3, <1>4 DEF TablesOK, InitGood
  <2> QED BY <1>1, <1>2, <2>1, <2>2, <2>3 DEF TablesOK
<1>6. HandlesOK'
  BY <1>1, <1>2 DEF HandlesOK
<1>7. CallsOK'
  BY <1>2 DEF CallsOK
<1>8. FilesRight'
  <2>1. files \in Nat /\ r.fd \in Nat /\ files' = files + r.fd
    BY <1>1, <1>3, <1>4 DEF TablesOK, InitGood
  <2>2. CASE k = "rapl"
    <3>1. ~Held /\ r.fd = IF r.ok THEN 1 ELSE 0
      BY <1>2, <1>4, <2>2 DEF Held, InitGood
    <3>2. Held' <=> r.ok
      BY <1>1, <1>2, <1>3, <1>4, <2>2 DEF Held, InitGood, TablesOK
    <3> QED BY <1>1, <1>2, <2>1, <3>1, <3>2 DEF FilesRight
  <2>3. CASE k # "rapl"
    <3>1. k \notin {"cpu", "apm"} => r.fd = 0
      BY <1>4, <2>3 DEF InitGood
    <3>2. k \in {"cpu", "apm"} => DOMAIN cfg \cap {"cpu", "apm"} # {}
      OBVIOUS
    <3>3. Held' <=> Held
      BY <1>1, <1>2, <1>3, <2>3 DEF Held, TablesOK
    <3> QED BY <1>1, <1>2, <2>1, <3>1, <3>2, <3>3 DEF FilesRight
  <2> QED BY <2>2, <2>3
<1>9. AnswersOK'
  BY <1>1, <1>2 DEF AnswersOK, OwnSensor, StatusTells, Answered
<1> QED BY <1>5, <1>6, <1>7, <1>8, <1>9, IInvPartsNext

LEMMA NewDeviceInv ==
  ASSUME PlugInsIInv, NEW k \in DOMAIN cfg, NEW o \in cfg[k].opens, NewDevice(k, o)
  PROVE  PlugInsIInv'
<1>1. TablesOK /\ HandlesOK /\ CallsOK /\ FilesRight /\ AnswersOK
  BY IInvParts
<1>2. UNCHANGED <<cfg, dev, files, call, last>> /\ call = NoCall /\ dev[k] # Down
  BY DEF NewDevice, Free
<1>3. PICK r : r \in OpenOf(k, o) /\ hnd' = IF r.ok THEN [hnd EXCEPT ![k][o] = r.data] ELSE hnd
  BY Zenon DEF NewDevice
<1>4. k \in Kinds /\ o \in Strings
  BY <1>1, ConfigFacts
<1>5. r.ok => Right(k, o, r.data)
  <2>1. k = "apm" => dev[k].core = "0"
    BY <1>1, <1>2 DEF TablesOK
  <2> QED BY <1>3, <1>4, <2>1, OpenIsRight
<1>6. TablesOK'
  BY <1>1, <1>2, <1>3 DEF TablesOK
<1>7. HandlesOK'
  <2> SUFFICES ASSUME NEW j \in DOMAIN cfg, NEW p \in cfg[j].opens
               PROVE  hnd'[j][p] = Closed \/ Right(j, p, hnd'[j][p])
    BY <1>2 DEF HandlesOK
  <2>1. CASE j = k /\ p = o /\ r.ok
    <3>1. hnd'[j][p] = r.data
      BY <1>1, <1>3, <2>1 DEF TablesOK
    <3> QED BY <1>5, <2>1, <3>1
  <2>2. CASE ~(j = k /\ p = o /\ r.ok)
    <3>1. hnd'[j][p] = hnd[j][p]
      BY <1>1, <1>3, <2>2 DEF TablesOK
    <3> QED BY <1>1, <3>1 DEF HandlesOK
  <2> QED BY <2>1, <2>2
<1>8. CallsOK'
  BY <1>2 DEF CallsOK
<1>9. FilesRight'
  BY <1>1, <1>2 DEF FilesRight, Held
<1>10. AnswersOK'
  BY <1>1, <1>2 DEF AnswersOK, OwnSensor, StatusTells, Answered
<1> QED BY <1>6, <1>7, <1>8, <1>9, <1>10, IInvPartsNext

LEMMA BeginInv ==
  ASSUME PlugInsIInv, NEW k \in DOMAIN cfg, NEW o \in cfg[k].opens,
         NEW op \in {"read", "write"}, NEW as \in Elems, Begin(k, o, op, as)
  PROVE  PlugInsIInv'
<1>1. TablesOK /\ HandlesOK /\ CallsOK /\ FilesRight /\ AnswersOK
  BY IInvParts
<1>2. UNCHANGED <<cfg, proc, dev, hnd, files, last>> /\ hnd[k][o] # Closed
      /\ call' = [k |-> k, o |-> o, op |-> op, todo |-> as, got |-> <<>>]
  BY DEF Begin
<1>3. as \in Seq(Attr) /\ as # <<>>
  <2>1. PICK n \in 1..MaxElems : as \in [1..n -> Attr]
    BY DEF Elems
  <2>2. n \in Nat /\ n >= 1
    BY PlugInsAssumption
  <2>3. as \in Seq(Attr)
    <3>1. as \in UNION {[1..m -> Attr] : m \in Nat}
      BY <2>1, <2>2
    <3> QED BY <3>1, SeqDef, Zenon
  <2>4. 1 \in DOMAIN as
    BY <2>1, <2>2
  <2>5. DOMAIN <<>> = {}
    OBVIOUS
  <2> QED BY <2>3, <2>4, <2>5
<1>4. Right(k, o, hnd[k][o])
  BY <1>1, <1>2 DEF HandlesOK
<1>5. CallsOK'
  <2>1. <<>> \in Seq(Answer) /\ DOMAIN <<>> = {}
    OBVIOUS
  <2>2. call'.k = k /\ call'.o = o /\ call'.op = op /\ call'.todo = as /\ call'.got = <<>>
        /\ DOMAIN call' = {"k", "o", "op", "todo", "got"}
    BY <1>2
  <2>3. Right(call'.k, call'.o, hnd'[call'.k][call'.o])
    BY <1>2, <1>4, <2>2
  <2> QED BY <1>2, <1>3, <2>1, <2>2, <2>3 DEF CallsOK, CallOK
<1>6. TablesOK' /\ HandlesOK' /\ FilesRight' /\ AnswersOK'
  <2>1. TablesOK' /\ HandlesOK' /\ FilesRight'
    BY <1>1, <1>2 DEF TablesOK, HandlesOK, FilesRight, Held
  <2>2. AnswersOK'
    BY <1>1, <1>2 DEF AnswersOK, OwnSensor, StatusTells, Answered
  <2> QED BY <2>1, <2>2
<1> QED BY <1>5, <1>6, IInvPartsNext

(* What a call has answered when it has asked one more attribute.          *)
LEMMA StepInv ==
  ASSUME PlugInsIInv, Step
  PROVE  PlugInsIInv'
<1>1. TablesOK /\ HandlesOK /\ CallsOK /\ FilesRight /\ AnswersOK
  BY IInvParts
<1>2. proc = "runs" /\ call # NoCall /\ CallOK(call, TRUE) /\ UNCHANGED <<cfg, dev, tok>>
  BY <1>1 DEF Step, CallsOK
<1>3. PICK k, o, op, a, td, gt :
        k = call.k /\ o = call.o /\ op = call.op /\ a = Head(call.todo) /\ td = call.todo /\ gt = call.got
  OBVIOUS
<1>4. /\ k \in DOMAIN cfg /\ o \in cfg[k].opens /\ op \in {"read", "write"} /\ Right(k, o, hnd[k][o])
      /\ td \in Seq(Attr) /\ td # <<>> /\ gt \in Seq(Answer)
      /\ DOMAIN call = {"k", "o", "op", "todo", "got"}
      /\ op = "read" => \A i \in DOMAIN gt : Own(k, o, gt[i]) /\ Honest(k, gt[i])
  BY <1>2, <1>3 DEF CallOK
<1>5. PICK r : /\ r \in Element(k, op, hnd[k][o], a)
               /\ files' = files + r.fd
               /\ hnd' = [hnd EXCEPT ![k][o] = r.h]
               /\ proc' = IF r.ends THEN "runs" ELSE "stuck"
               /\ LET now == [call EXCEPT !.todo = Tail(@),
                                          !.got = Append(@, [attr |-> a, st |-> r.st, val |-> r.val])]
                      done == r.ends /\ now.todo = <<>>
                  IN /\ call' = IF done THEN NoCall ELSE now
                     /\ last' = IF done THEN now ELSE last
  BY <1>3, Zenon DEF Step
<1>6. PICK e : e = [attr |-> a, st |-> r.st, val |-> r.val]
  OBVIOUS
<1>7. PICK now : now = [call EXCEPT !.todo = Tail(@), !.got = Append(@, e)]
  OBVIOUS
<1>8. /\ call' = IF r.ends /\ now.todo = <<>> THEN NoCall ELSE now
      /\ last' = IF r.ends /\ now.todo = <<>> THEN now ELSE last
  BY <1>5, <1>6, <1>7, Zenon
<1>9. k \in Kinds /\ o \in Strings
  BY <1>1, <1>4, ConfigFacts
<1>10. a \in Attr /\ Tail(td) \in Seq(Attr) /\ td = call.todo
  BY <1>3, <1>4, HeadTailProperties
<1>11. Good(k, o, op, a, r)
  BY <1>4, <1>5, <1>9, <1>10, ElementGood
<1>12. e \in Answer /\ (op = "read" /\ r.ends => Own(k, o, e) /\ Honest(k, e))
  BY <1>6, <1>10, <1>11 DEF Good, Answer
<1>13. /\ now.k = k /\ now.o = o /\ now.op = op /\ now.todo = Tail(td) /\ now.got = Append(gt, e)
       /\ DOMAIN now = {"k", "o", "op", "todo", "got"}
  BY <1>3, <1>4, <1>7
<1>14. PICK g2 : g2 = Append(gt, e)
  OBVIOUS
<1>15. g2 \in Seq(Answer) /\ \A i \in DOMAIN g2 : g2[i] = e \/ (i \in DOMAIN gt /\ g2[i] = gt[i])
  <2>1. /\ g2 \in Seq(Answer) /\ Len(g2) = Len(gt) + 1 /\ g2[Len(gt) + 1] = e
        /\ \A i \in 1..Len(gt) : g2[i] = gt[i]
    BY <1>4, <1>12, <1>14, AppendProperties
  <2>2. DOMAIN g2 = 1..(Len(gt) + 1) /\ DOMAIN gt = 1..Len(gt) /\ Len(gt) \in Nat
    BY <1>4, <2>1, LenProperties
  <2> QED BY <2>1, <2>2
<1>16. op = "read" /\ r.ends => \A i \in DOMAIN g2 : Own(k, o, g2[i]) /\ Honest(k, g2[i])
  BY <1>4, <1>12, <1>15
<1>17. now.got = g2
  BY <1>13, <1>14
<1>18. Right(k, o, r.h) /\ r.fd \in Nat /\ (k \notin {"cpu", "apm"} => r.fd = 0)
  BY <1>11 DEF Good
<1>19. TablesOK'
  <2>1. files' \in Nat
    BY <1>1, <1>5, <1>18 DEF TablesOK
  <2>2. DOMAIN hnd' = DOMAIN cfg /\ \A j \in DOMAIN cfg : DOMAIN hnd'[j] = cfg[j].opens
    BY <1>1, <1>5 DEF TablesOK
  <2> QED BY <1>1, <1>2, <2>1, <2>2 DEF TablesOK
<1>20. hnd'[k][o] = r.h
  BY <1>1, <1>4, <1>5 DEF TablesOK
<1>21. HandlesOK'
  <2> SUFFICES ASSUME NEW j \in DOMAIN cfg, NEW p \in cfg[j].opens
               PROVE  hnd'[j][p] = Closed \/ Right(j, p, hnd'[j][p])
    BY <1>2 DEF HandlesOK
  <2>1. CASE j = k /\ p = o
    BY <1>18, <1>20, <2>1
  <2>2. CASE ~(j = k /\ p = o)
    <3>1. hnd'[j][p] = hnd[j][p]
      BY <1>1, <1>4, <1>5, <2>2 DEF TablesOK
    <3> QED BY <1>1, <3>1 DEF HandlesOK
  <2> QED BY <2>1, <2>2
<1>22. FilesRight'
  <2>1. files \in Nat /\ r.fd \in Nat /\ files' = files + r.fd
    BY <1>1, <1>5, <1>18 DEF TablesOK
  <2>2. k \in {"cpu", "apm"} => DOMAIN cfg \cap {"cpu", "apm"} # {}
    BY <1>4
  <2>3. Held' <=> Held
    BY <1>2 DEF Held
  <2> QED BY <1>1, <1>2, <1>18, <2>1, <2>2, <2>3 DEF FilesRight
<1>23. CASE r.ends /\ now.todo = <<>>
  <2>1. call' = NoCall /\ last' = now
    BY <1>8, <1>23
  <2>2. CallsOK'
    BY <2>1 DEF CallsOK
  <2>3. ASSUME NEW g \in Answered'
        PROVE  Own(last'.k, last'.o, g) /\ Honest(last'.k, g)
    <3>1. last'.k = k /\ last'.o = o /\ last'.op = op /\ last'.got = g2
      BY <1>13, <1>17, <2>1
    <3>2. op = "read" /\ \E i \in DOMAIN g2 : g = g2[i]
      BY <2>3, <3>1 DEF Answered
    <3> QED BY <1>16, <1>23, <3>1, <3>2
  <2>4. AnswersOK'
    BY <2>3 DEF AnswersOK, OwnSensor, StatusTells
  <2> QED BY <1>19, <1>21, <1>22, <2>2, <2>4, IInvPartsNext
<1>24. CASE ~(r.ends /\ now.todo = <<>>)
  <2>1. call' = now /\ last' = last
    BY <1>8, <1>24
  <2>2. AnswersOK'
    BY <1>1, <2>1 DEF AnswersOK, OwnSensor, StatusTells, Answered
  <2>3. proc' = "runs" => r.ends
    BY <1>5
  <2>4. /\ DOMAIN call' = {"k", "o", "op", "todo", "got"}
        /\ call'.k = k /\ call'.o = o /\ call'.op = op /\ call'.todo = Tail(td) /\ call'.got = g2
    BY <1>13, <1>17, <2>1
  <2>5. Right(call'.k, call'.o, hnd'[call'.k][call'.o])
    BY <1>18, <1>20, <2>4
  <2>6. proc' = "runs" => /\ call'.todo # <<>>
                          /\ call'.op = "read" => \A i \in DOMAIN call'.got :
                               Own(call'.k, call'.o, call'.got[i]) /\ Honest(call'.k, call'.got[i])
    BY <1>13, <1>16, <1>24, <2>3, <2>4
  <2>7. call'.k \in DOMAIN cfg' /\ call'.o \in cfg'[call'.k].opens /\ call'.op \in {"read", "write"}
        /\ call'.todo \in Seq(Attr) /\ call'.got \in Seq(Answer)
    BY <1>2, <1>4, <1>10, <1>15, <2>4
  <2>8. CallsOK'
    BY <2>4, <2>5, <2>6, <2>7 DEF CallsOK, CallOK
  <2> QED BY <1>19, <1>21, <1>22, <2>2, <2>8, IInvPartsNext
<1> QED BY <1>23, <1>24

LEMMA LogInv ==
  ASSUME PlugInsIInv, NEW k \in DOMAIN cfg, NEW o \in cfg[k].opens, Log(k, o)
  PROVE  PlugInsIInv'
<1>1. TablesOK /\ HandlesOK /\ CallsOK /\ FilesRight /\ AnswersOK
  BY IInvParts
<1>2. UNCHANGED <<cfg, proc, dev, hnd, tok, files, call>> /\ call = NoCall
  BY DEF Log, Free
<1>3. last'.op = "log"
  BY DEF Log
<1>4. AnswersOK'
  BY <1>3 DEF AnswersOK, OwnSensor, StatusTells, Answered
<1>5. TablesOK' /\ HandlesOK' /\ FilesRight' /\ CallsOK'
  BY <1>1, <1>2 DEF TablesOK, HandlesOK, FilesRight, Held, CallsOK
<1> QED BY <1>4, <1>5, IInvPartsNext

LEMMA CloseAllInv ==
  ASSUME PlugInsIInv, CloseAll
  PROVE  PlugInsIInv'
<1>1. TablesOK /\ HandlesOK /\ CallsOK /\ FilesRight /\ AnswersOK
  BY IInvParts
<1>2. UNCHANGED <<cfg, tok, call, last>> /\ call = NoCall
      /\ hnd' = [k \in DOMAIN cfg |-> [o \in cfg[k].opens |-> Closed]]
      /\ dev' = [k \in DOMAIN cfg |-> Down]
  BY DEF CloseAll, Free
<1>3. files' = files - (IF Held THEN 1 ELSE 0)
  BY HeldIs DEF CloseAll, Held
<1>4. ~Held'
  BY <1>2 DEF Held
<1>5. files' \in Nat /\ FilesRight'
  BY <1>1, <1>2, <1>3, <1>4 DEF FilesRight, TablesOK
<1>6. TablesOK' /\ HandlesOK'
  BY <1>1, <1>2, <1>5 DEF TablesOK, HandlesOK
<1>7. CallsOK'
  BY <1>2 DEF CallsOK
<1>8. AnswersOK'
  BY <1>1, <1>2 DEF AnswersOK, OwnSensor, StatusTells, Answered
<1> QED BY <1>5, <1>6, <1>7, <1>8, IInvPartsNext

(* The inductive invariant of the devices of a context.                    *)
THEOREM PlugInsInductive == Spec => []PlugInsIInv
<1>1. Init => PlugInsIInv
  BY PlugInsInit
<1>2. PlugInsIInv /\ [Next]_vars => PlugInsIInv'
  <2> SUFFICES ASSUME PlugInsIInv, [Next]_vars PROVE PlugInsIInv'
    OBVIOUS
  <2>1. CASE UNCHANGED vars
    <3>1. TablesOK /\ HandlesOK /\ CallsOK /\ FilesRight /\ AnswersOK
      BY IInvParts
    <3>2. UNCHANGED <<cfg, proc, dev, hnd, files, call, last>>
      BY <2>1 DEF vars
    <3>3. TablesOK' /\ HandlesOK' /\ CallsOK' /\ FilesRight' /\ AnswersOK'
      BY <3>1, <3>2 DEF TablesOK, HandlesOK, CallsOK, CallOK, FilesRight, Held,
                        AnswersOK, OwnSensor, StatusTells, Answered
    <3> QED BY <3>3, IInvPartsNext
  <2>2. CASE Next
    <3>1. CASE \E k \in DOMAIN cfg : InitDevice(k)
      BY <3>1, InitDeviceInv
    <3>2. CASE Step
      BY <3>2, StepInv
    <3>3. CASE CloseAll
      BY <3>3, CloseAllInv
    <3>4. ASSUME NEW k \in DOMAIN cfg, NEW o \in cfg[k].opens,
                 \/ NewDevice(k, o)
                 \/ \E op \in {"read", "write"}, as \in Elems : Begin(k, o, op, as)
                 \/ Log(k, o)
          PROVE  PlugInsIInv'
      BY <3>4, NewDeviceInv, BeginInv, LogInv
    <3> QED BY <2>2, <3>1, <3>2, <3>3, <3>4 DEF Next
  <2> QED BY <2>1, <2>2
<1> QED BY <1>1, <1>2, PTL DEF Spec

(* Whatever the configuration and the strings it opens, whatever fails and *)
(* in whatever order attributes are asked for: a value is one of the       *)
(* attribute and of the sensor it was asked of (the readv of each plug-in).*)
THEOREM SensorsAreOwn == Spec => []OwnSensor
<1>1. PlugInsIInv => OwnSensor
  BY DEF PlugInsIInv
<1> QED BY <1>1, PlugInsInductive, PTL

(* Of every plug-in and attribute: a status other than 0 means that the    *)
(* buffer was not touched.  Of the attributes that the plug-in has a case  *)
(* for, but for those that it answers with 0 whether or not there is a     *)
(* reading (Mute: all of pgdev and apmdev, pstate, cstate and temp of      *)
(* cpudev, what open does not fill in the dummy): the status is 0 exactly  *)
(* when the buffer holds a reading of the attribute (status[i] of readv).  *)
THEOREM StatusesTell == Spec => []StatusTells
<1>1. PlugInsIInv => StatusTells
  BY DEF PlugInsIInv
<1> QED BY <1>1, PlugInsInductive, PTL

(* Between calls the open files are those of the devices, and there are    *)
(* none when the context is gone: but for cpudev and apmdev, no call and   *)
(* no failure leaves a file open.                                          *)
THEOREM FilesAreHeld == Spec => []FilesHeld
<1>1. PlugInsIInv => FilesHeld
  BY DEF PlugInsIInv, FilesHeld
<1> QED BY <1>1, PlugInsInductive, PTL

-----------------------------------------------------------------------------
LEMMA LeastOf ==
  ASSUME NEW T, T \subseteq Nat, T # {}
  PROVE  \E m \in T : \A y \in T : m <= y
<1>1. \E x \in T : \A y \in T : <<y, x>> \notin OpToRel(<, Nat)
  BY NatLessThanWellFounded, WFMin
<1>2. OpToRel(<, Nat) = {ss \in Nat \X Nat : ss[1] < ss[2]}
  BY Zenon DEF OpToRel
<1>3. \A x, y \in Nat : x < y => <<x, y>> \in OpToRel(<, Nat)
  BY <1>2
<1>4. \E x \in T : \A y \in T : ~(y < x)
  BY <1>1, <1>3, Zenon
<1> QED BY <1>4

-----------------------------------------------------------------------------
(* Sound(g): a group whose lists agree.                                    *)
Sound(g) == g \in GrpOf /\ (g.kind = "dist" => ListsAgree(g))

LEMMA AppendFacts ==
  ASSUME NEW T, NEW s \in Seq(T), NEW x \in T
  PROVE  /\ Append(s, x) \in Seq(T) /\ Append(s, x) # <<>>
         /\ Range(Append(s, x)) = Range(s) \union {x}
<1>1. PICK q : q = Append(s, x)
  OBVIOUS
<1>2. /\ q \in Seq(T) /\ Len(q) = Len(s) + 1 /\ DOMAIN q = 1..(Len(s) + 1) /\ DOMAIN s = 1..Len(s)
      /\ Len(s) \in Nat /\ q[Len(s) + 1] = x /\ \A i \in 1..Len(s) : q[i] = s[i]
  BY <1>1, AppendProperties
<1>3. \A i \in 1..(Len(s) + 1) : i \in 1..Len(s) \/ i = Len(s) + 1
  BY <1>2
<1>4. Range(q) \subseteq Range(s) \union {x}
  <2>1. SUFFICES ASSUME NEW i \in DOMAIN q PROVE q[i] \in Range(s) \union {x}
    BY DEF Range
  <2> QED BY <1>2, <1>3 DEF Range
<1>5. Range(s) \union {x} \subseteq Range(q)
  <2>1. ASSUME NEW i \in DOMAIN s PROVE s[i] \in Range(q)
    <3>1. i \in DOMAIN q /\ q[i] = s[i]
      BY <1>2
    <3> QED BY <3>1 DEF Range
  <2>2. Len(s) + 1 \in DOMAIN q
    BY <1>2
  <2>3. x \in Range(q)
    BY <1>2, <2>2 DEF Range
  <2> QED BY <2>1, <2>3 DEF Range
<1> QED BY <1>1, <1>2, <1>4, <1>5

LEMMA BaseAddFacts ==
  ASSUME NEW s \in Seq(Leaf), NEW o \in Leaf
  PROVE  /\ BaseAdd(s, o) \in Seq(Leaf) /\ Range(BaseAdd(s, o)) = Range(s) \union {o}
         /\ o \notin Range(s) => BaseAdd(s, o) = Append(s, o)
         /\ o \in Range(s) => BaseAdd(s, o) = s
  BY AppendFacts DEF BaseAdd

(* What adding an object does to a group: nothing its members would not    *)
(* show at their end.                                                      *)
Grown(g, h, o) ==
  /\ Sound(h) /\ h.kind = g.kind
  /\ Members(h) = Members(g) \/ Members(h) = Append(Members(g), o)

LEMMA AddToSound ==
  ASSUME NEW g, Sound(g), NEW o \in Leaf
  PROVE  Grown(g, AddTo(g, o), o)
<1> DEFINE h == AddTo(g, o)
<1>1. g \in GrpOf /\ g.kind \in {"dist", "kids"}
  BY DEF Sound, GrpOf
<1>2. /\ g.list \in Seq(Leaf) /\ g.dist \in Seq(Leaf) /\ g.all \in Seq(Leaf) /\ g.comm \in Seq(Leaf)
      /\ g.odd \in SUBSET {"twice", "mixed", "late", "removed"}
  BY <1>1 DEF GrpOf
<1>3. PICK l : l = BaseAdd(g.list, o)
  OBVIOUS
<1>4. PICK a : a = Append(g.all, o)
  OBVIOUS
<1>5. PICK d : d = Append(g.dist, o)
  OBVIOUS
<1>6. /\ l \in Seq(Leaf) /\ Range(l) = Range(g.list) \union {o}
      /\ o \notin Range(g.list) => l = Append(g.list, o)
      /\ o \in Range(g.list) => l = g.list
  BY <1>2, <1>3, BaseAddFacts
<1>7. a \in Seq(Leaf) /\ Range(a) = Range(g.all) \union {o} /\ a # <<>>
  BY <1>2, <1>4, AppendFacts
<1>8. d \in Seq(Leaf) /\ Range(d) = Range(g.dist) \union {o} /\ d # <<>>
  BY <1>2, <1>5, AppendFacts
<1>9. CASE g.kind = "kids"
  <2>1. AddTo(g, o) = [g EXCEPT !.list = l]
    BY <1>3, <1>9 DEF AddTo
  <2>2. PICK k : k = [g EXCEPT !.list = l]
    OBVIOUS
  <2>3. k \in GrpOf /\ k.kind = "kids" /\ k.list = l
    BY <1>1, <1>6, <1>9, <2>2 DEF GrpOf
  <2>4. l = g.list \/ l = Append(g.list, o)
    BY <1>6
  <2>5. Members(k) = l /\ Members(g) = g.list
    BY <1>9, <2>3 DEF Members
  <2> QED BY <1>9, <2>1, <2>2, <2>3, <2>4, <2>5 DEF Grown, Sound
<1>10. CASE g.kind = "dist" /\ ~Remote(o)
  <2>1. PICK x : x = g.odd \union (IF o \in Range(g.list) THEN {"twice"} ELSE {})
                           \union (IF g.dist # <<>> THEN {"mixed"} ELSE {})
    OBVIOUS
  <2>2. AddTo(g, o) = [g EXCEPT !.list = l, !.all = a, !.odd = x]
    BY <1>3, <1>4, <1>10, <2>1 DEF AddTo
  <2>3. PICK k : k = [g EXCEPT !.list = l, !.all = a, !.odd = x]
    OBVIOUS
  <2>4. x \in SUBSET {"twice", "mixed", "late", "removed"}
    BY <1>2, <2>1
  <2>5. /\ k \in GrpOf /\ k.kind = "dist" /\ k.list = l /\ k.all = a /\ k.odd = x
        /\ k.dist = g.dist /\ k.comm = g.comm
    BY <1>1, <1>6, <1>7, <1>10, <2>3, <2>4 DEF GrpOf
  <2>6. ListsAgree(g)
    BY <1>10 DEF Sound
  <2>7. g.odd \subseteq x /\ ("late" \in x => "late" \in g.odd) /\ ("removed" \in x => "removed" \in g.odd)
    BY <2>1
  <2>8. {"twice", "mixed", "removed"} \cap x = {} => g.dist = <<>> /\ a = l
    <3>1. SUFFICES ASSUME {"twice", "mixed", "removed"} \cap x = {} PROVE g.dist = <<>> /\ a = l
      OBVIOUS
    <3>2. o \notin Range(g.list) /\ g.dist = <<>>
      BY <2>1, <3>1
    <3>3. {"twice", "mixed", "removed"} \cap g.odd = {}
      BY <2>7, <3>1
    <3>4. g.all = g.list
      BY <2>6, <3>2, <3>3 DEF ListsAgree
    <3> QED BY <1>4, <1>6, <3>2, <3>4
  <2>9. "removed" \notin x => Range(a) \subseteq Range(l) \union Range(g.dist)
    BY <1>6, <1>7, <2>6, <2>7 DEF ListsAgree
  <2>10. "late" \notin x => g.comm = <<>> \/ g.comm = g.dist
    BY <2>6, <2>7 DEF ListsAgree
  <2>11. ListsAgree(k)
    BY <2>5, <2>8, <2>9, <2>10 DEF ListsAgree
  <2>12. Members(k) = Append(Members(g), o)
    BY <1>4, <1>10, <2>5 DEF Members
  <2> QED BY <1>10, <2>2, <2>3, <2>5, <2>11, <2>12 DEF Grown, Sound
<1>11. CASE g.kind = "dist" /\ Remote(o) /\ o \in Range(g.dist)
  <2>1. AddTo(g, o) = g
    BY <1>11 DEF AddTo
  <2> QED BY <2>1 DEF Grown
<1>12. CASE g.kind = "dist" /\ Remote(o) /\ o \notin Range(g.dist)
  <2>1. PICK x : x = g.odd \union (IF g.comm # <<>> THEN {"late"} ELSE {})
                           \union (IF g.list # <<>> THEN {"mixed"} ELSE {})
    OBVIOUS
  <2>2. AddTo(g, o) = [g EXCEPT !.dist = d, !.all = a, !.odd = x]
    BY <1>4, <1>5, <1>12, <2>1 DEF AddTo
  <2>3. PICK k : k = [g EXCEPT !.dist = d, !.all = a, !.odd = x]
    OBVIOUS
  <2>4. x \in SUBSET {"twice", "mixed", "late", "removed"}
    BY <1>2, <2>1
  <2>5. /\ k \in GrpOf /\ k.kind = "dist" /\ k.dist = d /\ k.all = a /\ k.odd = x
        /\ k.list = g.list /\ k.comm = g.comm
    BY <1>1, <1>7, <1>8, <1>12, <2>3, <2>4 DEF GrpOf
  <2>6. ListsAgree(g)
    BY <1>12 DEF Sound
  <2>7. g.odd \subseteq x /\ ("removed" \in x => "removed" \in g.odd)
    BY <2>1
  <2>8. {"twice", "mixed", "removed"} \cap x = {} => g.list = <<>> /\ a = d
    <3>1. SUFFICES ASSUME {"twice", "mixed", "removed"} \cap x = {} PROVE g.list = <<>> /\ a = d
      OBVIOUS
    <3>2. g.list = <<>>
      BY <2>1, <3>1
    <3>3. {"twice", "mixed", "removed"} \cap g.odd = {}
      BY <2>7, <3>1
    <3>4. g.all = g.dist
      BY <2>6, <3>2, <3>3 DEF ListsAgree
    <3> QED BY <1>4, <1>5, <3>2, <3>4
  <2>9. "removed" \notin x => Range(a) \subseteq Range(g.list) \union Range(d)
    BY <1>7, <1>8, <2>6, <2>7 DEF ListsAgree
  <2>10. "late" \notin x => g.comm = <<>>
    BY <2>1
  <2>11. ListsAgree(k)
    BY <2>5, <2>8, <2>9, <2>10 DEF ListsAgree
  <2>12. Members(k) = Append(Members(g), o)
    BY <1>4, <1>12, <2>5 DEF Members
  <2> QED BY <1>12, <2>2, <2>3, <2>5, <2>11, <2>12 DEF Grown, Sound
<1> QED BY <1>1, <1>9, <1>10, <1>11, <1>12

(* AddEach adds one after the other.                                       *)
Into(g, os, ok, n, f) ==
  f = [i \in 0..n |-> IF i = 0 THEN g ELSE IF os[i] \in ok THEN AddTo(f[i-1], os[i]) ELSE f[i-1]]

LEMMA IntoExists ==
  ASSUME NEW g, NEW os, NEW ok, NEW n \in Nat
  PROVE  \E f : Into(g, os, ok, n, f)
<1> DEFINE T == {m \in Nat : ~\E f : Into(g, os, ok, m, f)}
<1>1. SUFFICES ASSUME T # {} PROVE FALSE
  OBVIOUS
<1>2. PICK m \in T : \A y \in T : m <= y
  BY <1>1, LeastOf
<1>3. m # 0
  <2>1. Into(g, os, ok, 0, [i \in 0..0 |-> g])
    BY DEF Into
  <2> QED BY <1>2, <2>1
<1>4. PICK f : Into(g, os, ok, m - 1, f)
  BY <1>2, <1>3
<1> DEFINE Next1(p, x) == IF x \in ok THEN AddTo(p, x) ELSE p
<1> DEFINE h == [i \in 0..m |-> IF i = m THEN Next1(f[m-1], os[m]) ELSE f[i]]
<1>5. f = [j \in 0..(m - 1) |-> IF j = 0 THEN g ELSE Next1(f[j-1], os[j])]
  BY <1>4, Zenon DEF Into
<1> HIDE DEF Next1
<1>6. \A i \in 0..m : h[i] = IF i = 0 THEN g ELSE Next1(h[i-1], os[i])
  <2> SUFFICES ASSUME NEW i \in 0..m PROVE h[i] = IF i = 0 THEN g ELSE Next1(h[i-1], os[i])
    OBVIOUS
  <2>2. i # 0 => h[i-1] = f[i-1]
    BY <1>2
  <2>3. CASE i = m
    BY <1>2, <1>3, <2>2, <2>3
  <2>4. CASE i # m
    <3>1. i \in 0..(m - 1)
      BY <1>2, <2>4
    <3>2. f[i] = IF i = 0 THEN g ELSE Next1(f[i-1], os[i])
      BY <1>5, <3>1
    <3> QED BY <2>2, <2>4, <3>2
  <2> QED BY <2>3, <2>4
<1>7. h = [i \in 0..m |-> IF i = 0 THEN g ELSE Next1(h[i-1], os[i])]
  BY <1>6
<1> HIDE DEF h
<1>8. Into(g, os, ok, m, h)
  BY <1>7, Zenon DEF Into, Next1
<1> QED BY <1>2, <1>8

LEMMA AddEachIs ==
  ASSUME NEW g, NEW os, NEW ok, Len(os) \in Nat
  PROVE  \E f : Into(g, os, ok, Len(os), f) /\ AddEach(g, os, ok) = f[Len(os)]
<1> DEFINE f == CHOOSE h : Into(g, os, ok, Len(os), h)
<1>1. Into(g, os, ok, Len(os), f)
  BY IntoExists
<1>2. AddEach(g, os, ok) = f[Len(os)]
  BY Zenon DEF AddEach, Into
<1> QED BY <1>1, <1>2

LEMMA AddEachSound ==
  ASSUME NEW g, Sound(g), NEW os \in Seq(Leaf), NEW ok
  PROVE  Sound(AddEach(g, os, ok)) /\ AddEach(g, os, ok).kind = g.kind
<1>1. Len(os) \in Nat /\ \A i \in 1..Len(os) : os[i] \in Leaf
  OBVIOUS
<1>2. PICK f : Into(g, os, ok, Len(os), f) /\ AddEach(g, os, ok) = f[Len(os)]
  BY <1>1, AddEachIs
<1> DEFINE Fine(h) == Sound(h) /\ h.kind = g.kind
           T == {m \in 0..Len(os) : ~Fine(f[m])}
<1>3. f = [i \in 0..Len(os) |-> IF i = 0 THEN g ELSE IF os[i] \in ok THEN AddTo(f[i-1], os[i]) ELSE f[i-1]]
  BY <1>2, Zenon DEF Into
<1>4. \A i \in 0..Len(os) : f[i] = IF i = 0 THEN g ELSE IF os[i] \in ok THEN AddTo(f[i-1], os[i]) ELSE f[i-1]
  BY <1>3, Zenon
<1>5. T = {}
  <2>1. SUFFICES ASSUME T # {} PROVE FALSE
    OBVIOUS
  <2>2. T \subseteq Nat
    BY <1>1
  <2>3. PICK m \in T : \A y \in T : m <= y
    BY <2>1, <2>2, LeastOf
  <2>4. m # 0
    <3>1. f[0] = g
      BY <1>1, <1>4
    <3> QED BY <2>3, <3>1
  <2>5. m - 1 \in 0..Len(os) /\ m \in 1..Len(os)
    BY <1>1, <2>3, <2>4
  <2>6. m - 1 \notin T
    BY <1>1, <2>3, <2>5
  <2>7. PICK p : p = f[m - 1] /\ Fine(p)
    BY <2>5, <2>6
  <2>8. f[m] = IF os[m] \in ok THEN AddTo(p, os[m]) ELSE p
    BY <1>1, <1>4, <2>4, <2>5, <2>7
  <2>9. os[m] \in Leaf
    BY <1>1, <2>5
  <2>10. Grown(p, AddTo(p, os[m]), os[m])
    BY <2>7, <2>9, AddToSound
  <2>11. Fine(f[m])
    BY <2>7, <2>8, <2>10 DEF Grown
  <2> QED BY <2>3, <2>11
<1>6. Len(os) \in 0..Len(os)
  BY <1>1
<1> QED BY <1>2, <1>5, <1>6

LEMMA EmptyIsSound ==
  /\ Sound(DistGrp) /\ DistGrp.kind = "dist"
  /\ Sound([DistGrp EXCEPT !.kind = "kids"]) /\ [DistGrp EXCEPT !.kind = "kids"].kind = "kids"
<1>1. <<>> \in Seq(Leaf)
  OBVIOUS
<1>2. DistGrp \in GrpOf
  BY <1>1 DEF DistGrp, GrpOf
<1>3. ListsAgree(DistGrp)
  <2>1. Range(<<>>) = {}
    BY DEF Range
  <2> QED BY <2>1 DEF DistGrp, ListsAgree
<1>4. PICK k : k = [DistGrp EXCEPT !.kind = "kids"]
  OBVIOUS
<1>5. k \in GrpOf /\ k.kind = "kids"
  BY <1>2, <1>4 DEF GrpOf
<1>6. DistGrp.kind = "dist"
  BY DEF DistGrp
<1> QED BY <1>2, <1>3, <1>4, <1>5, <1>6 DEF Sound

(* The first call makes the communicator, and changes no list.             *)
LEMMA WithCommSound ==
  ASSUME NEW g, Sound(g)
  PROVE  /\ Sound(WithComm(g)) /\ WithComm(g).kind = g.kind /\ Members(WithComm(g)) = Members(g)
         /\ WithComm(g).odd = g.odd
         /\ g.kind = "dist" /\ "late" \notin g.odd => WithComm(g).comm = g.dist
<1>1. g \in GrpOf
  BY DEF Sound
<1>2. CASE g.kind = "dist" /\ g.comm = <<>>
  <2>1. PICK k : k = [g EXCEPT !.comm = g.dist]
    OBVIOUS
  <2>2. WithComm(g) = k
    BY <1>2, <2>1 DEF WithComm
  <2>3. /\ k \in GrpOf /\ k.kind = g.kind /\ k.list = g.list /\ k.dist = g.dist /\ k.all = g.all
        /\ k.odd = g.odd /\ k.comm = g.dist
    BY <1>1, <2>1 DEF GrpOf
  <2>4. ListsAgree(g)
    BY <1>2 DEF Sound
  <2>5. ListsAgree(k)
    BY <2>3, <2>4 DEF ListsAgree
  <2> QED BY <2>2, <2>3, <2>5 DEF Sound, Members
<1>3. CASE ~(g.kind = "dist" /\ g.comm = <<>>)
  <2>1. WithComm(g) = g
    BY <1>3 DEF WithComm
  <2>2. g.kind = "dist" /\ "late" \notin g.odd => g.comm = g.dist
    BY <1>3 DEF Sound, ListsAgree
  <2> QED BY <2>1, <2>2
<1> QED BY <1>2, <1>3

(* Grp::remove: any list will do, once it is noted that one was removed.   *)
LEMMA ErasedIs ==
  ASSUME NEW s \in Seq(Leaf), NEW o \in Range(s)
  PROVE  Erased(s, o) \in Seq(Leaf)
<1> DEFINE T == {i \in DOMAIN s : s[i] = o}
<1>1. T # {} /\ T \subseteq Nat
  BY DEF Range
<1>2. PICK m \in T : \A y \in T : m <= y
  BY <1>1, LeastOf
<1>3. \A j \in 1..(m-1) : j \in DOMAIN s /\ j \notin T
  BY <1>2
<1>4. m \in DOMAIN s /\ s[m] = o /\ \A j \in 1..(m-1) : s[j] # o
  BY <1>2, <1>3
<1> DEFINE i == CHOOSE i \in DOMAIN s : s[i] = o /\ \A j \in 1..(i-1) : s[j] # o
<1>5. i \in DOMAIN s
  BY <1>4, Zenon
<1>6. Erased(s, o) = [j \in 1..(Len(s)-1) |-> IF j < i THEN s[j] ELSE s[j+1]]
  BY DEF Erased
<1> HIDE DEF i
<1>7. Len(s) \in Nat /\ i \in 1..Len(s) /\ \A j \in 1..Len(s) : s[j] \in Leaf
  BY <1>5
<1>8. Len(s) - 1 \in Nat
  BY <1>7
<1>9. \A j \in 1..(Len(s)-1) : (IF j < i THEN s[j] ELSE s[j+1]) \in Leaf
  <2>1. SUFFICES ASSUME NEW j \in 1..(Len(s)-1) PROVE s[j] \in Leaf /\ s[j+1] \in Leaf
    OBVIOUS
  <2>2. j \in 1..Len(s) /\ j + 1 \in 1..Len(s)
    BY <1>7
  <2> QED BY <1>7, <2>2
<1>10. PICK n \in Nat : n = Len(s) - 1
  BY <1>8
<1>11. Erased(s, o) \in [1..n -> Leaf]
  BY <1>6, <1>9, <1>10
<1>12. Erased(s, o) \in UNION {[1..m2 -> Leaf] : m2 \in Nat}
  BY <1>11
<1> QED BY <1>12, SeqDef, Zenon

-----------------------------------------------------------------------------
(* The parts of the invariant, of given values of the variables.           *)
Gone(t, h) == t.grp # NULL /\ h[t.grp] = NoGrp
Cov(t, h)  == IF t.grp = NULL THEN <<t.obj>> ELSE Members(h[t.grp])
Taken      == "member of a statistic removed"

StatFine(t, h, bl) ==
  /\ t \in StatOf
  /\ Gone(t, h) => bl # {}
  /\ Taken \notin bl =>
       /\ ~t.logging => t.has = {}
       /\ t.logging /\ ~Gone(t, h) => t.has \subseteq UpToFailure(Cov(t, h))

HeapFine(h)          == DOMAIN h = GrpId /\ \A g \in GrpId : h[g] # NoGrp => Sound(h[g])
KidsFine(k, h, bl)   == k \in GrpId \union {NULL} /\ (k # NULL /\ h[k] = NoGrp => bl # {})
StatsFine(st, h, bl) == DOMAIN st = StatId /\ \A s \in StatId : st[s] # NoStat => StatFine(st[s], h, bl)
LeftFine(lf, bl)     == Taken \notin bl => lf = {}
LibFine(lb, h, bl)   == /\ lb = "undefined" => bl # {}
                        /\ lb = "aborted" => \E g \in GrpId : h[g] # NoGrp /\ "late" \in h[g].odd
ToldFine(td) ==
  /\ td.op = "get" /\ td.odd \subseteq {"late"} =>
       \A i \in DOMAIN td.want :
         td.got[i] = td.want[i] \/ (td.got[i] = Nothing /\ td.want[i] \in td.errs)
  /\ td.op = "set" /\ td.odd \subseteq {"twice", "mixed"} =>
       Range(td.want) \ td.errs \subseteq td.got

LEMMA GrpParts ==
  GrpIInv <=> /\ HeapFine(heap) /\ KidsFine(kids, heap, blame) /\ StatsFine(stat, heap, blame)
              /\ LeftFine(left, blame) /\ LibFine(lib, heap, blame) /\ ToldFine(told)
<1>1. HeapFine(heap) <=> DOMAIN heap = GrpId /\ HeapOK
  BY DEF HeapFine, HeapOK, Groups, Sound
<1>2. StatsFine(stat, heap, blame) <=> DOMAIN stat = StatId /\ StatsOK
  BY DEF StatsFine, StatsOK, StatFine, StatOK, Gone, UsesGone, Cov, Covered, Taken
<1>3. KidsFine(kids, heap, blame) /\ LeftFine(left, blame) <=> kids \in GrpId \union {NULL} /\ NoneGone
  BY DEF KidsFine, LeftFine, NoneGone, Dangling, Taken
<1>4. ToldFine(told) <=> Placed /\ SetReaches
  BY DEF ToldFine, Placed, SetReaches
<1>5. LibFine(lib, heap, blame) <=> Blameless
  BY DEF LibFine, Blameless, Groups
<1> QED BY <1>1, <1>2, <1>3, <1>4, <1>5 DEF GrpIInv

LEMMA GrpPartsNext ==
  GrpIInv' <=> /\ HeapFine(heap') /\ KidsFine(kids', heap', blame') /\ StatsFine(stat', heap', blame')
               /\ LeftFine(left', blame') /\ LibFine(lib', heap', blame') /\ ToldFine(told')
<1>1. HeapFine(heap') <=> DOMAIN heap' = GrpId /\ HeapOK'
  BY DEF HeapFine, HeapOK, Groups, Sound
<1>2. StatsFine(stat', heap', blame') <=> DOMAIN stat' = StatId /\ StatsOK'
  BY DEF StatsFine, StatsOK, StatFine, StatOK, Gone, UsesGone, Cov, Covered, Taken
<1>3. KidsFine(kids', heap', blame') /\ LeftFine(left', blame') <=> kids' \in GrpId \union {NULL} /\ NoneGone'
  BY DEF KidsFine, LeftFine, NoneGone, Dangling, Taken
<1>4. ToldFine(told') <=> Placed' /\ SetReaches'
  BY DEF ToldFine, Placed, SetReaches
<1>5. LibFine(lib', heap', blame') <=> Blameless'
  BY DEF LibFine, Blameless, Groups
<1> QED BY <1>1, <1>2, <1>3, <1>4, <1>5 DEF GrpIInv

LEMMA SilentFine == ToldFine(Silent)
<1>1. Silent.op = "NULL"
  BY DEF Silent, NULL
<1> QED BY <1>1 DEF ToldFine

LEMMA SoundFacts ==
  ASSUME NEW g, Sound(g)
  PROVE  /\ g # NoGrp /\ g.kind \in {"dist", "kids"} /\ Members(g) \in Seq(Leaf)
         /\ g.list \in Seq(Leaf) /\ g.dist \in Seq(Leaf) /\ g.all \in Seq(Leaf)
<1>1. g \in GrpOf
  BY DEF Sound
<1>2. /\ g.kind \in {"dist", "kids"} /\ g.list \in Seq(Leaf) /\ g.dist \in Seq(Leaf) /\ g.all \in Seq(Leaf)
  BY <1>1 DEF GrpOf
<1>3. NoGrp.kind = "NULL"
  BY DEF NoGrp, NULL
<1> QED BY <1>2, <1>3 DEF Members

-----------------------------------------------------------------------------
(* What a statistic turns on.                                              *)
LEMMA UpToFailureFacts ==
  ASSUME NEW os \in Seq(Leaf)
  PROVE  /\ UpToFailure(os) \subseteq Leaf
         /\ \A o \in Leaf : UpToFailure(os) \subseteq UpToFailure(Append(os, o))
<1>1. UpToFailure(os) \subseteq Leaf
  BY DEF UpToFailure
<1>2. ASSUME NEW o \in Leaf, NEW x \in UpToFailure(os)
      PROVE  x \in UpToFailure(Append(os, o))
  <2>1. PICK q : q = Append(os, o)
    OBVIOUS
  <2>2. /\ DOMAIN os = 1..Len(os) /\ DOMAIN q = 1..(Len(os) + 1) /\ Len(os) \in Nat
        /\ \A i \in 1..Len(os) : q[i] = os[i]
    BY <2>1, AppendProperties
  <2>3. PICK i \in DOMAIN os : x = os[i] /\ \A b \in DOMAIN os : os[b] \in NoLog => i < b
    BY <1>2 DEF UpToFailure
  <2>4. i \in DOMAIN q /\ x = q[i]
    BY <2>2, <2>3
  <2>5. ASSUME NEW b \in DOMAIN q, q[b] \in NoLog PROVE i < b
    <3>1. CASE b \in 1..Len(os)
      BY <2>2, <2>3, <2>5, <3>1
    <3>2. CASE b \notin 1..Len(os)
      BY <2>2, <2>3, <3>2
    <3> QED BY <3>1, <3>2
  <2>6. x \in UpToFailure(q)
    BY <2>4, <2>5 DEF UpToFailure
  <2> QED BY <2>1, <2>6
<1> QED BY <1>1, <1>2

(* How a group may change while a statistic has it.                        *)
Keeps(g, x, bl) ==
  \/ g = NoGrp /\ x = NoGrp
  \/ x = NoGrp /\ bl # {}
  \/ /\ Sound(g) /\ Sound(x)
     /\ \/ Taken \in bl
        \/ Members(x) = Members(g)
        \/ \E o \in Leaf : Members(x) = Append(Members(g), o)

LEMMA StatKept ==
  ASSUME NEW t, NEW h, NEW h2, NEW bl, NEW bl2, StatFine(t, h, bl), bl \subseteq bl2,
         t.grp # NULL => Keeps(h[t.grp], h2[t.grp], bl2)
  PROVE  StatFine(t, h2, bl2)
<1>1. t \in StatOf
  BY DEF StatFine
<1>2. CASE t.grp = NULL
  <2>1. ~Gone(t, h) /\ ~Gone(t, h2) /\ Cov(t, h) = <<t.obj>> /\ Cov(t, h2) = <<t.obj>>
    BY <1>2 DEF Gone, Cov
  <2> QED BY <2>1 DEF StatFine
<1>3. CASE t.grp # NULL
  <2>1. PICK g, x : g = h[t.grp] /\ x = h2[t.grp] /\ Keeps(g, x, bl2)
    BY <1>3
  <2>2. /\ Gone(t, h) <=> g = NoGrp
        /\ Gone(t, h2) <=> x = NoGrp
        /\ Cov(t, h) = Members(g) /\ Cov(t, h2) = Members(x)
    BY <1>3, <2>1 DEF Gone, Cov
  <2>3. CASE g = NoGrp /\ x = NoGrp
    BY <2>2, <2>3 DEF StatFine
  <2>4. CASE x = NoGrp /\ bl2 # {}
    BY <2>2, <2>4 DEF StatFine
  <2>5. CASE /\ Sound(g) /\ Sound(x)
             /\ \/ Taken \in bl2
                \/ Members(x) = Members(g)
                \/ \E o \in Leaf : Members(x) = Append(Members(g), o)
    <3>1. g # NoGrp /\ x # NoGrp /\ Members(g) \in Seq(Leaf)
      BY <2>5, SoundFacts
    <3>2. Taken \in bl2 \/ UpToFailure(Members(g)) \subseteq UpToFailure(Members(x))
      BY <2>5, <3>1, UpToFailureFacts
    <3> QED BY <2>2, <3>1, <3>2 DEF StatFine
  <2> QED BY <2>1, <2>3, <2>4, <2>5 DEF Keeps
<1> QED BY <1>2, <1>3

(* One group changes, comes, or goes.                                      *)
Fits(g, x, bl) == \A s \in StatId : stat[s] # NoStat /\ stat[s].grp = g => Keeps(heap[g], x, bl)

LEMMA GroupChanges ==
  ASSUME GrpIInv, NEW g \in GrpId, NEW x, x = NoGrp \/ Sound(x), NEW bl, blame \subseteq bl,
         g = kids /\ x = NoGrp => bl # {}, Fits(g, x, bl), NEW h, h = [heap EXCEPT ![g] = x]
  PROVE  HeapFine(h) /\ KidsFine(kids, h, bl) /\ StatsFine(stat, h, bl)
<1>1. HeapFine(heap) /\ KidsFine(kids, heap, blame) /\ StatsFine(stat, heap, blame)
  BY GrpParts
<1>2. DOMAIN h = GrpId /\ h[g] = x /\ \A u \in GrpId : u # g => h[u] = heap[u]
  BY <1>1 DEF HeapFine
<1>3. HeapFine(h)
  BY <1>1, <1>2 DEF HeapFine
<1>4. KidsFine(kids, h, bl)
  BY <1>1, <1>2 DEF KidsFine
<1>5. StatsFine(stat, h, bl)
  <2>1. SUFFICES ASSUME NEW s \in StatId, stat[s] # NoStat PROVE StatFine(stat[s], h, bl)
    BY <1>1 DEF StatsFine
  <2>2. PICK t : t = stat[s]
    OBVIOUS
  <2>3. StatFine(t, heap, blame)
    BY <1>1, <2>1, <2>2 DEF StatsFine
  <2>4. t.grp # NULL => t.grp \in GrpId
    BY <2>3 DEF StatFine, StatOf
  <2>5. t.grp = g => Keeps(heap[t.grp], h[t.grp], bl)
    BY <1>2, <2>1, <2>2 DEF Fits
  <2>6. t.grp # NULL /\ t.grp # g => Keeps(heap[t.grp], h[t.grp], bl)
    BY <1>1, <1>2, <2>4 DEF HeapFine, Keeps
  <2>7. StatFine(t, h, bl)
    BY <2>3, <2>5, <2>6, StatKept
  <2> QED BY <2>2, <2>7
<1> QED BY <1>3, <1>4, <1>5

(* A new group is at an address that nothing points to.                    *)
LEMMA NewFits ==
  ASSUME NEW g \in GrpId, New(g), NEW x, NEW bl
  PROVE  g # kids /\ heap[g] = NoGrp /\ Fits(g, x, bl)
<1>1. g \in Unused
  BY DEF New
<1> QED BY <1>1 DEF Unused, Fits

LEMMA SameFits ==
  ASSUME GrpIInv, NEW g \in GrpId, NEW x, Sound(x), heap[g] # NoGrp, NEW bl,
         \/ Members(x) = Members(heap[g])
         \/ \E o \in Leaf : Members(x) = Append(Members(heap[g]), o)
  PROVE  Fits(g, x, bl)
<1>1. Sound(heap[g])
  BY GrpParts DEF HeapFine
<1> QED BY <1>1 DEF Fits, Keeps

(* One statistic changes, comes, or goes.                                  *)
LEMMA StatChanges ==
  ASSUME GrpIInv, NEW s \in StatId, NEW t, t = NoStat \/ StatFine(t, heap, blame),
         NEW st, st = [stat EXCEPT ![s] = t]
  PROVE  StatsFine(st, heap, blame)
<1>1. StatsFine(stat, heap, blame)
  BY GrpParts
<1>2. DOMAIN st = StatId /\ st[s] = t /\ \A u \in StatId : u # s => st[u] = stat[u]
  BY <1>1 DEF StatsFine
<1> QED BY <1>1, <1>2 DEF StatsFine

-----------------------------------------------------------------------------
(* What the calls tell.                                                    *)
LEMMA GetTold ==
  ASSUME NEW g, Sound(g), NEW bad \in CallFails(g), NEW td,
         td = [op |-> "get", want |-> Members(g), got |-> Buffer(g, bad), errs |-> bad, odd |-> g.odd]
  PROVE  ToldFine(td)
<1>1. PICK m, b : m = Members(g) /\ b = Buffer(g, bad)
  OBVIOUS
<1>2. td.op = "get" /\ td.want = m /\ td.got = b /\ td.errs = bad /\ td.odd = g.odd
  BY <1>1
<1>3. /\ g.kind \in {"dist", "kids"} /\ m \in Seq(Leaf) /\ g.list \in Seq(Leaf) /\ g.dist \in Seq(Leaf)
  BY <1>1, SoundFacts
<1>4. SUFFICES ASSUME g.odd \subseteq {"late"}, NEW i \in DOMAIN m
               PROVE  b[i] = m[i] \/ (b[i] = Nothing /\ m[i] \in bad)
  BY <1>2 DEF ToldFine
<1>5. b = [j \in 1..Len(m) |->
             IF g.kind = "dist" /\ j \in DOMAIN g.dist THEN g.dist[j]
             ELSE IF j \in DOMAIN g.list /\ g.list[j] \notin bad THEN g.list[j]
             ELSE Nothing]
  BY <1>1 DEF Buffer
<1>6. b[i] = IF g.kind = "dist" /\ i \in DOMAIN g.dist THEN g.dist[i]
             ELSE IF i \in DOMAIN g.list /\ g.list[i] \notin bad THEN g.list[i]
             ELSE Nothing
  BY <1>3, <1>4, <1>5
<1>7. CASE g.kind = "kids" \/ (g.dist = <<>> /\ m = g.list)
  <2>1. m = g.list /\ (g.kind = "dist" => DOMAIN g.dist = {})
    BY <1>1, <1>7 DEF Members
  <2> QED BY <1>4, <1>6, <2>1
<1>8. CASE g.kind = "dist"
  <2>1. m = g.all /\ ListsAgree(g)
    BY <1>1, <1>8 DEF Members, Sound
  <2>2. {"twice", "mixed", "removed"} \cap g.odd = {}
    BY <1>4
  <2>3. CASE g.all = g.dist
    BY <1>4, <1>6, <1>8, <2>1, <2>3
  <2>4. CASE g.dist = <<>> /\ g.all = g.list
    BY <1>7, <2>1, <2>4
  <2> QED BY <2>1, <2>2, <2>3, <2>4 DEF ListsAgree
<1> QED BY <1>3, <1>7, <1>8

LEMMA SetTold ==
  ASSUME NEW g, Sound(g), NEW bad, NEW td,
         td = [op |-> "set", want |-> Members(g), got |-> SetOn(g, bad), errs |-> bad, odd |-> g.odd]
  PROVE  ToldFine(td)
<1>1. PICK m, b, c : m = Members(g) /\ b = SetOn(g, bad) /\ c = WithComm(g)
  OBVIOUS
<1>2. td.op = "set" /\ td.want = m /\ td.got = b /\ td.errs = bad /\ td.odd = g.odd
  BY <1>1
<1>3. b = (Range(g.list) \ bad) \union Range(c.comm)
  BY <1>1 DEF SetOn
<1>4. SUFFICES ASSUME g.odd \subseteq {"twice", "mixed"} PROVE Range(m) \ bad \subseteq b
  BY <1>2 DEF ToldFine
<1>5. CASE g.kind = "kids"
  <2>1. m = g.list
    BY <1>1, <1>5 DEF Members
  <2> QED BY <1>3, <2>1
<1>6. CASE g.kind = "dist"
  <2>1. m = g.all /\ ListsAgree(g)
    BY <1>1, <1>6 DEF Members, Sound
  <2>2. c.comm = g.dist
    BY <1>1, <1>4, <1>6, WithCommSound
  <2>3. Range(g.all) \subseteq Range(g.list) \union Range(g.dist)
    BY <1>4, <2>1 DEF ListsAgree
  <2> QED BY <1>3, <2>1, <2>2, <2>3
<1> QED BY <1>5, <1>6, SoundFacts

-----------------------------------------------------------------------------
(* The groups' calls.                                                      *)
LEMMA GrpInitInv == GrpInit => GrpIInv
<1>1. SUFFICES ASSUME GrpInit PROVE GrpIInv
  OBVIOUS
<1>2. /\ heap = [g \in GrpId |-> NoGrp] /\ kids = NULL /\ stat = [s \in StatId |-> NoStat]
      /\ left = {} /\ lib = "runs" /\ told = Silent /\ blame = {}
  BY <1>1 DEF GrpInit
<1>3. HeapFine(heap)
  BY <1>2 DEF HeapFine
<1>4. KidsFine(kids, heap, blame)
  BY <1>2 DEF KidsFine
<1>5. StatsFine(stat, heap, blame)
  BY <1>2 DEF StatsFine
<1>6. LeftFine(left, blame) /\ LibFine(lib, heap, blame)
  BY <1>2 DEF LeftFine, LibFine
<1>7. ToldFine(told)
  BY <1>2, SilentFine
<1> QED BY <1>3, <1>4, <1>5, <1>6, <1>7, GrpParts

(* A call that tells nothing and after which the library runs.             *)
LEMMA RunsOn ==
  ASSUME GrpIInv, Runs, lib' = lib, left' = left, blame \subseteq blame',
         HeapFine(heap'), KidsFine(kids', heap', blame'), StatsFine(stat', heap', blame')
  PROVE  GrpIInv'
<1>1. lib' = "runs" /\ told' = Silent
  BY DEF Runs
<1>2. LibFine(lib', heap', blame')
  BY <1>1 DEF LibFine
<1>3. LeftFine(left', blame')
  BY GrpParts DEF LeftFine
<1>4. ToldFine(told')
  BY <1>1, SilentFine
<1> QED BY <1>2, <1>3, <1>4, GrpPartsNext

(* A new group is made.                                                    *)
LEMMA NewGroup ==
  ASSUME GrpIInv, NEW g \in GrpId, New(g), NEW x, Sound(x), heap' = [heap EXCEPT ![g] = x]
  PROVE  /\ HeapFine(heap') /\ KidsFine(kids, heap', blame) /\ StatsFine(stat, heap', blame)
         /\ heap'[g] = x
<1>1. g # kids /\ Fits(g, x, blame)
  BY NewFits
<1>2. DOMAIN heap = GrpId
  BY GrpParts DEF HeapFine
<1> QED BY <1>1, <1>2, GroupChanges

LEMMA GrpCreateInv ==
  ASSUME GrpIInv, NEW g \in GrpId, GrpCreate(g)
  PROVE  GrpIInv'
<1>1. /\ Runs /\ New(g) /\ heap' = [heap EXCEPT ![g] = DistGrp]
      /\ kids' = kids /\ stat' = stat /\ left' = left /\ lib' = lib /\ blame' = blame
  BY DEF GrpCreate
<1>2. Sound(DistGrp)
  BY EmptyIsSound
<1>3. HeapFine(heap') /\ KidsFine(kids, heap', blame) /\ StatsFine(stat, heap', blame)
  BY <1>1, <1>2, NewGroup
<1> QED BY <1>1, <1>3, RunsOn

LEMMA GetGrpByTypeInv ==
  ASSUME GrpIInv, NEW t, NEW g \in GrpId, GetGrpByType(t, g)
  PROVE  GrpIInv'
<1>1. PICK x : x = AddEach(DistGrp, Kids, {o \in Leaf : TypeOf[o] = t})
  OBVIOUS
<1>2. /\ Runs /\ New(g) /\ (heap' = heap \/ heap' = [heap EXCEPT ![g] = x])
      /\ kids' = kids /\ stat' = stat /\ left' = left /\ lib' = lib /\ blame' = blame
  BY <1>1 DEF GetGrpByType
<1>3. Sound(x)
  BY <1>1, EmptyIsSound, AddEachSound, GroupsAssumption
<1>4. HeapFine(heap) /\ KidsFine(kids, heap, blame) /\ StatsFine(stat, heap, blame)
  BY GrpParts
<1>5. HeapFine(heap') /\ KidsFine(kids, heap', blame) /\ StatsFine(stat, heap', blame)
  BY <1>2, <1>3, <1>4, NewGroup
<1> QED BY <1>2, <1>5, RunsOn

LEMMA ChildrenFine ==
  ASSUME GrpIInv, NEW g \in GrpId, Children(g)
  PROVE  HeapFine(heap') /\ KidsFine(kids', heap', blame) /\ StatsFine(stat, heap', blame)
<1>1. HeapFine(heap) /\ KidsFine(kids, heap, blame) /\ StatsFine(stat, heap, blame)
  BY GrpParts
<1>2. CASE kids # NULL
  BY <1>1, <1>2 DEF Children
<1>3. CASE kids = NULL
  <2>1. PICK k : k = [DistGrp EXCEPT !.kind = "kids"]
    OBVIOUS
  <2>2. PICK x : x = AddEach(k, Kids, Leaf)
    OBVIOUS
  <2>3. New(g) /\ heap' = [heap EXCEPT ![g] = x] /\ kids' = g
    BY <1>3, <2>1, <2>2 DEF Children
  <2>4. Sound(k)
    BY <2>1, EmptyIsSound
  <2>5. Sound(x)
    BY <2>2, <2>4, AddEachSound, GroupsAssumption
  <2>6. HeapFine(heap') /\ StatsFine(stat, heap', blame) /\ heap'[g] = x
    BY <2>3, <2>5, NewGroup
  <2>7. KidsFine(kids', heap', blame)
    BY <2>3, <2>5, <2>6, SoundFacts DEF KidsFine
  <2> QED BY <2>6, <2>7
<1> QED BY <1>2, <1>3

LEMMA ObjGetChildrenInv ==
  ASSUME GrpIInv, NEW g \in GrpId, ObjGetChildren(g)
  PROVE  GrpIInv'
<1>1. Runs /\ Children(g) /\ stat' = stat /\ left' = left /\ lib' = lib /\ blame' = blame
  BY DEF ObjGetChildren
<1> QED BY <1>1, ChildrenFine, RunsOn

LEMMA GrpDestroyInv ==
  ASSUME GrpIInv, NEW g \in GrpId, GrpDestroy(g)
  PROVE  GrpIInv'
<1>1. PICK w : w = (IF g = kids THEN {"children destroyed"} ELSE {})
                   \union (IF \E s \in StatId : stat[s] # NoStat /\ stat[s].grp = g
                           THEN {"group of a statistic destroyed"} ELSE {})
  OBVIOUS
<1>2. /\ Runs /\ blame' = blame \union w /\ heap' = [heap EXCEPT ![g] = NoGrp]
      /\ kids' = kids /\ stat' = stat /\ left' = left /\ lib' = lib
  BY <1>1, Zenon DEF GrpDestroy
<1>3. g = kids => blame' # {}
  BY <1>1, <1>2
<1>4. Fits(g, NoGrp, blame')
  <2>1. SUFFICES ASSUME NEW s \in StatId, stat[s] # NoStat /\ stat[s].grp = g PROVE blame' # {}
    BY DEF Fits, Keeps
  <2> QED BY <1>1, <1>2, <2>1
<1>5. HeapFine(heap') /\ KidsFine(kids, heap', blame') /\ StatsFine(stat, heap', blame')
  BY <1>2, <1>3, <1>4, GroupChanges
<1> QED BY <1>2, <1>5, RunsOn

LEMMA GrpAddObjInv ==
  ASSUME GrpIInv, NEW g \in GrpId, NEW o \in Leaf, GrpAddObj(g, o)
  PROVE  GrpIInv'
<1>1. PICK x : x = AddTo(heap[g], o)
  OBVIOUS
<1>2. heap' = [heap EXCEPT ![g] = x]
  BY <1>1 DEF GrpAddObj
<1>3. /\ Runs /\ heap[g] # NoGrp
      /\ kids' = kids /\ stat' = stat /\ left' = left /\ lib' = lib /\ blame' = blame
  BY DEF GrpAddObj, Groups
<1>4. Sound(heap[g])
  BY <1>3, GrpParts DEF HeapFine
<1>5. Grown(heap[g], x, o)
  BY <1>1, <1>4, AddToSound
<1>6. Sound(x) /\ x # NoGrp
  BY <1>5, SoundFacts DEF Grown
<1>7. Fits(g, x, blame)
  BY <1>3, <1>5, <1>6, SameFits DEF Grown
<1>8. HeapFine(heap') /\ KidsFine(kids, heap', blame) /\ StatsFine(stat, heap', blame)
  BY <1>2, <1>6, <1>7, GroupChanges
<1> QED BY <1>3, <1>8, RunsOn

LEMMA GrpRemoveObjInv ==
  ASSUME GrpIInv, NEW g \in GrpId, NEW o \in Leaf, GrpRemoveObj(g, o)
  PROVE  GrpIInv'
<1>1. PICK r : r = heap[g] /\ Sound(r) /\ r # NoGrp
  BY GrpParts DEF HeapFine, GrpRemoveObj, Groups
<1>2. PICK l, d : l = Erased(r.list, o) /\ d = r.odd \union (IF r.kind = "dist" THEN {"removed"} ELSE {})
  OBVIOUS
<1>3. PICK x : x = [r EXCEPT !.list = l, !.odd = d]
  OBVIOUS
<1>4. heap' = [heap EXCEPT ![g] = x]
  <2>1. heap' = [heap EXCEPT ![g].list = l, ![g].odd = d]
    BY <1>1, <1>2, Zenon DEF GrpRemoveObj
  <2> QED BY <1>1, <1>3, <2>1
<1>5. /\ Runs /\ o \in Range(r.list)
      /\ kids' = kids /\ stat' = stat /\ left' = left /\ lib' = lib
      /\ blame \subseteq blame'
      /\ r.kind = "kids" /\ (\E s \in StatId : stat[s] # NoStat /\ stat[s].grp = g) => Taken \in blame'
  BY <1>1 DEF GrpRemoveObj, Taken
<1>6. r \in GrpOf /\ l \in Seq(Leaf)
  BY <1>1, <1>2, <1>5, ErasedIs, SoundFacts DEF Sound
<1>7. d \in SUBSET {"twice", "mixed", "late", "removed"}
  BY <1>2, <1>6 DEF GrpOf
<1>8. /\ x \in GrpOf /\ x.kind = r.kind /\ x.dist = r.dist /\ x.all = r.all /\ x.comm = r.comm
      /\ x.list = l /\ x.odd = d
  BY <1>3, <1>6, <1>7 DEF GrpOf
<1>9. r.kind = "dist" => ListsAgree(x)
  <2>1. SUFFICES ASSUME r.kind = "dist" PROVE ListsAgree(x)
    OBVIOUS
  <2>2. "removed" \in d /\ ("late" \notin d => "late" \notin r.odd)
    BY <1>2, <2>1
  <2>3. "late" \notin r.odd => r.comm = <<>> \/ r.comm = r.dist
    BY <1>1, <2>1 DEF Sound, ListsAgree
  <2> QED BY <1>8, <2>2, <2>3 DEF ListsAgree
<1>10. Sound(x)
  BY <1>8, <1>9 DEF Sound
<1>11. Fits(g, x, blame')
  <2>1. SUFFICES ASSUME NEW s \in StatId, stat[s] # NoStat /\ stat[s].grp = g PROVE Keeps(r, x, blame')
    BY <1>1 DEF Fits
  <2>2. r.kind = "kids" => Taken \in blame'
    BY <1>5, <2>1
  <2>3. r.kind = "dist" => Members(x) = Members(r)
    BY <1>8 DEF Members
  <2>4. r.kind \in {"dist", "kids"}
    BY <1>1, SoundFacts
  <2> QED BY <1>1, <1>10, <2>2, <2>3, <2>4 DEF Keeps
<1>12. HeapFine(heap') /\ KidsFine(kids, heap', blame') /\ StatsFine(stat, heap', blame')
  <2>1. x # NoGrp
    BY <1>10, SoundFacts
  <2> QED BY <1>4, <1>5, <1>10, <1>11, <2>1, GroupChanges
<1> QED BY <1>5, <1>12, RunsOn

(* A get or a set changes nothing of a group but its communicator.         *)
LEMMA CallFine ==
  ASSUME GrpIInv, NEW g \in GrpId, heap[g] # NoGrp, heap' = [heap EXCEPT ![g] = WithComm(@)]
  PROVE  /\ HeapFine(heap') /\ KidsFine(kids, heap', blame) /\ StatsFine(stat, heap', blame)
         /\ Sound(heap[g]) /\ heap'[g] = WithComm(heap[g]) /\ Sound(heap'[g])
<1>1. Sound(heap[g]) /\ DOMAIN heap = GrpId
  BY GrpParts DEF HeapFine
<1>2. PICK x : x = WithComm(heap[g])
  OBVIOUS
<1>3. heap' = [heap EXCEPT ![g] = x]
  BY <1>2
<1>4. Sound(x) /\ Members(x) = Members(heap[g])
  BY <1>1, <1>2, WithCommSound
<1>5. Fits(g, x, blame) /\ x # NoGrp
  BY <1>4, SameFits, SoundFacts
<1>6. HeapFine(heap') /\ KidsFine(kids, heap', blame) /\ StatsFine(stat, heap', blame)
  BY <1>3, <1>4, <1>5, GroupChanges
<1>7. heap'[g] = x
  BY <1>1, <1>3
<1> QED BY <1>1, <1>2, <1>4, <1>6, <1>7

LEMMA GrpAttrGetValuesInv ==
  ASSUME GrpIInv, NEW g \in GrpId, GrpAttrGetValues(g)
  PROVE  GrpIInv'
<1>1. /\ lib = "runs" /\ heap[g] # NoGrp /\ heap' = [heap EXCEPT ![g] = WithComm(@)]
      /\ kids' = kids /\ stat' = stat /\ left' = left /\ blame' = blame
  BY DEF GrpAttrGetValues, Groups
<1>2. PICK r, c : r = heap[g] /\ c = heap'[g]
  OBVIOUS
<1>3. /\ HeapFine(heap') /\ KidsFine(kids, heap', blame) /\ StatsFine(stat, heap', blame)
      /\ Sound(r) /\ c = WithComm(r) /\ Sound(c)
  BY <1>1, <1>2, CallFine
<1>4. LeftFine(left', blame')
  BY <1>1, GrpParts
<1>5. PICK bad \in CallFails(r) :
        IF r.kind = "dist" /\ r.dist # <<>> /\ Expected(r) # Len(c.comm)
        THEN lib' = "aborted" /\ told' = Silent
        ELSE /\ lib' = lib
             /\ told' = [op |-> "get", want |-> Members(r), got |-> Buffer(r, bad),
                         errs |-> bad, odd |-> r.odd]
  BY <1>2, Zenon DEF GrpAttrGetValues
<1>6. CASE r.kind = "dist" /\ r.dist # <<>> /\ Expected(r) # Len(c.comm)
  <2>1. lib' = "aborted" /\ told' = Silent
    BY <1>5, <1>6
  <2>2. "late" \in c.odd
    BY <1>3, <1>6, WithCommSound DEF Expected
  <2>3. LibFine(lib', heap', blame')
    BY <1>2, <1>3, <2>1, <2>2, SoundFacts DEF LibFine
  <2>4. ToldFine(told')
    BY <2>1, SilentFine
  <2> QED BY <1>1, <1>3, <1>4, <2>3, <2>4, GrpPartsNext
<1>7. CASE ~(r.kind = "dist" /\ r.dist # <<>> /\ Expected(r) # Len(c.comm))
  <2>1. /\ lib' = lib
        /\ told' = [op |-> "get", want |-> Members(r), got |-> Buffer(r, bad), errs |-> bad, odd |-> r.odd]
    BY <1>5, <1>7
  <2>2. ToldFine(told')
    BY <1>3, <2>1, GetTold
  <2>3. LibFine(lib', heap', blame')
    BY <1>1, <2>1 DEF LibFine
  <2> QED BY <1>1, <1>3, <1>4, <2>2, <2>3, GrpPartsNext
<1> QED BY <1>6, <1>7

LEMMA GrpAttrSetValuesInv ==
  ASSUME GrpIInv, NEW g \in GrpId, GrpAttrSetValues(g)
  PROVE  GrpIInv'
<1>1. /\ lib = "runs" /\ heap[g] # NoGrp /\ heap' = [heap EXCEPT ![g] = WithComm(@)]
      /\ kids' = kids /\ stat' = stat /\ left' = left /\ lib' = lib /\ blame' = blame
  BY DEF GrpAttrSetValues, Groups
<1>2. PICK r : r = heap[g]
  OBVIOUS
<1>3. /\ HeapFine(heap') /\ KidsFine(kids, heap', blame) /\ StatsFine(stat, heap', blame) /\ Sound(r)
  BY <1>1, <1>2, CallFine
<1>4. LeftFine(left', blame') /\ LibFine(lib', heap', blame')
  BY <1>1, GrpParts DEF LibFine
<1>5. PICK bad : told' = [op |-> "set", want |-> Members(r), got |-> SetOn(r, bad),
                          errs |-> bad, odd |-> r.odd]
  BY <1>2, Zenon DEF GrpAttrSetValues
<1>6. ToldFine(told')
  BY <1>3, <1>5, SetTold
<1> QED BY <1>1, <1>3, <1>4, <1>6, GrpPartsNext

-----------------------------------------------------------------------------
(* The statistics' calls.                                                  *)

(* A call that uses a group that is gone: the application's fault.         *)
LEMMA UndefinedInv ==
  ASSUME GrpIInv, blame' # {}, blame \subseteq blame', lib' = "undefined",
         heap' = heap, kids' = kids, stat' = stat, left' = left, told' = Silent
  PROVE  GrpIInv'
<1>1. /\ HeapFine(heap) /\ KidsFine(kids, heap, blame) /\ StatsFine(stat, heap, blame)
      /\ LeftFine(left, blame)
  BY GrpParts
<1>2. KidsFine(kids, heap, blame') /\ LeftFine(left, blame') /\ LibFine("undefined", heap, blame')
  BY <1>1 DEF KidsFine, LeftFine, LibFine
<1>3. StatsFine(stat, heap, blame')
  <2>1. SUFFICES ASSUME NEW s \in StatId, stat[s] # NoStat PROVE StatFine(stat[s], heap, blame')
    BY <1>1 DEF StatsFine
  <2>2. StatFine(stat[s], heap, blame)
    BY <1>1, <2>1 DEF StatsFine
  <2> QED BY <2>2 DEF StatFine
<1>4. ToldFine(told')
  BY SilentFine
<1> QED BY <1>1, <1>2, <1>3, <1>4, GrpPartsNext

LEMMA GoneIsBlamed ==
  ASSUME GrpIInv, NEW s \in StatId, stat[s] # NoStat, UsesGone(stat[s])
  PROVE  blame # {}
<1>1. StatFine(stat[s], heap, blame)
  BY GrpParts DEF StatsFine
<1> QED BY <1>1 DEF StatFine, Gone, UsesGone

(* What a statistic covers, and what it has turned on.                     *)
LEMMA StatFacts ==
  ASSUME GrpIInv, NEW s \in StatId, stat[s] # NoStat
  PROVE  /\ StatFine(stat[s], heap, blame)
         /\ Gone(stat[s], heap) <=> UsesGone(stat[s])
         /\ Cov(stat[s], heap) = Covered(stat[s])
         /\ ~UsesGone(stat[s]) => Covered(stat[s]) \in Seq(Leaf)
<1>1. StatFine(stat[s], heap, blame)
  BY GrpParts DEF StatsFine
<1>2. PICK t : t = stat[s]
  OBVIOUS
<1>3. /\ Gone(stat[s], heap) <=> UsesGone(stat[s])
      /\ Cov(stat[s], heap) = Covered(stat[s])
  BY DEF Gone, UsesGone, Cov, Covered
<1>4. t \in StatOf
  BY <1>1, <1>2 DEF StatFine
<1>5. ASSUME ~UsesGone(t) PROVE Covered(t) \in Seq(Leaf)
  <2>1. CASE t.grp = NULL
    <3>1. t.obj \in Leaf
      BY <1>4, <2>1, GroupsAssumption DEF StatOf
    <3>2. <<t.obj>> \in Seq(Leaf)
      BY <3>1
    <3> QED BY <2>1, <3>2 DEF Covered
  <2>2. CASE t.grp # NULL
    <3>1. t.grp \in GrpId /\ heap[t.grp] # NoGrp
      BY <1>4, <1>5, <2>2 DEF StatOf, UsesGone
    <3>2. Sound(heap[t.grp])
      BY <3>1, GrpParts DEF HeapFine
    <3> QED BY <2>2, <3>2, SoundFacts DEF Covered
  <2> QED BY <2>1, <2>2
<1> QED BY <1>1, <1>2, <1>3, <1>5

(* A statistic that has no more on than what it may have.                  *)
LEMMA StatFineIf ==
  ASSUME GrpIInv, NEW s \in StatId, stat[s] # NoStat, ~UsesGone(stat[s]),
         NEW log \in BOOLEAN, NEW on \in SUBSET Leaf,
         Taken \notin blame => (~log => on = {}) /\ (log => on \subseteq UpToFailure(Covered(stat[s]))),
         NEW st, st = [stat EXCEPT ![s].logging = log, ![s].has = on]
  PROVE  StatsFine(st, heap, blame)
<1>1. PICK t : t = stat[s]
  OBVIOUS
<1>2. t \in StatOf /\ ~Gone(t, heap) /\ Cov(t, heap) = Covered(stat[s])
  BY <1>1, StatFacts DEF StatFine
<1>3. PICK u : u = [t EXCEPT !.logging = log, !.has = on]
  OBVIOUS
<1>4. u \in StatOf /\ u.grp = t.grp /\ u.obj = t.obj /\ u.logging = log /\ u.has = on
  BY <1>2, <1>3 DEF StatOf
<1>5. ~Gone(u, heap) /\ Cov(u, heap) = Cov(t, heap)
  BY <1>2, <1>4 DEF Gone, Cov
<1>6. StatFine(u, heap, blame)
  BY <1>2, <1>4, <1>5 DEF StatFine
<1>7. st = [stat EXCEPT ![s] = u]
  BY <1>1, <1>3
<1> QED BY <1>6, <1>7, StatChanges

LEMMA StatStartInv ==
  ASSUME GrpIInv, NEW s \in StatId, StatStart(s)
  PROVE  GrpIInv'
<1>1. Runs /\ stat[s] # NoStat
  BY DEF StatStart
<1>2. CASE UsesGone(stat[s]) /\ Undefined
  <2>1. blame # {}
    BY <1>1, <1>2, GoneIsBlamed
  <2> QED BY <1>1, <1>2, <2>1, UndefinedInv DEF Undefined, Runs
<1>3. CASE ~UsesGone(stat[s])
  <2>1. PICK on : on = stat[s].has \union UpToFailure(Covered(stat[s]))
    OBVIOUS
  <2>2. /\ stat' = [stat EXCEPT ![s].logging = TRUE, ![s].has = on]
        /\ heap' = heap /\ kids' = kids /\ left' = left /\ lib' = lib /\ blame' = blame
    BY <1>3, <2>1 DEF StatStart
  <2>3. PICK t : t = stat[s]
    OBVIOUS
  <2>4. t \in StatOf /\ (Taken \notin blame => t.has \subseteq UpToFailure(Covered(stat[s])))
    BY <1>1, <1>3, <2>3, StatFacts DEF StatFine, StatOf
  <2>5. on \in SUBSET Leaf /\ (Taken \notin blame => on \subseteq UpToFailure(Covered(stat[s])))
    <3>1. t.has \in SUBSET Leaf
      BY <2>4 DEF StatOf
    <3>2. UpToFailure(Covered(stat[s])) \subseteq Leaf
      BY <1>1, <1>3, StatFacts, UpToFailureFacts
    <3> QED BY <2>1, <2>3, <2>4, <3>1, <3>2
  <2>6. StatsFine(stat', heap, blame)
    <3>1. PICK log \in BOOLEAN : log = TRUE
      OBVIOUS
    <3>2. stat' = [stat EXCEPT ![s].logging = log, ![s].has = on]
      BY <2>2, <3>1
    <3>3. Taken \notin blame => (~log => on = {}) /\ (log => on \subseteq UpToFailure(Covered(stat[s])))
      BY <2>5, <3>1
    <3> QED BY <1>1, <1>3, <2>5, <3>2, <3>3, StatFineIf
  <2>7. HeapFine(heap') /\ KidsFine(kids', heap', blame') /\ StatsFine(stat', heap', blame')
    BY <2>2, <2>6, GrpParts
  <2> QED BY <1>1, <2>2, <2>7, RunsOn
<1> QED BY <1>2, <1>3 DEF StatStart

(* A stop leaves nothing on.                                               *)
LEMMA StillOnNone ==
  ASSUME GrpIInv, NEW s \in StatId, stat[s] # NoStat, ~UsesGone(stat[s])
  PROVE  StillOn(stat[s]) \in SUBSET Leaf /\ (Taken \notin blame => StillOn(stat[s]) = {})
<1>1. PICK t : t = stat[s]
  OBVIOUS
<1>2. StatFine(t, heap, blame) /\ ~Gone(t, heap) /\ Cov(t, heap) = Covered(t)
  BY <1>1, StatFacts
<1>3. t \in StatOf /\ (Taken \notin blame => t.has \subseteq UpToFailure(Covered(t)))
  BY <1>2 DEF StatFine, StatOf
<1>4. t.has \in SUBSET Leaf
  BY <1>3 DEF StatOf
<1>5. StillOn(t) = t.has \ UpToFailure(Covered(t))
  BY DEF StillOn
<1> QED BY <1>1, <1>3, <1>4, <1>5

LEMMA StatStopInv ==
  ASSUME GrpIInv, NEW s \in StatId, StatStop(s)
  PROVE  GrpIInv'
<1>1. Runs /\ stat[s] # NoStat
  BY DEF StatStop
<1>2. CASE UsesGone(stat[s]) /\ Undefined
  <2>1. blame # {}
    BY <1>1, <1>2, GoneIsBlamed
  <2> QED BY <1>1, <1>2, <2>1, UndefinedInv DEF Undefined, Runs
<1>3. CASE ~UsesGone(stat[s])
  <2>1. PICK on : on = StillOn(stat[s])
    OBVIOUS
  <2>2. /\ stat' = [stat EXCEPT ![s].logging = FALSE, ![s].has = on]
        /\ heap' = heap /\ kids' = kids /\ left' = left /\ lib' = lib /\ blame' = blame
    BY <1>3, <2>1 DEF StatStop
  <2>3. on \in SUBSET Leaf /\ (Taken \notin blame => on = {})
    BY <1>1, <1>3, <2>1, StillOnNone
  <2>4. StatsFine(stat', heap, blame)
    <3>1. PICK log \in BOOLEAN : log = FALSE
      OBVIOUS
    <3>2. stat' = [stat EXCEPT ![s].logging = log, ![s].has = on]
      BY <2>2, <3>1
    <3>3. Taken \notin blame => (~log => on = {}) /\ (log => on \subseteq UpToFailure(Covered(stat[s])))
      BY <2>3, <3>1
    <3> QED BY <1>1, <1>3, <2>3, <3>2, <3>3, StatFineIf
  <2>5. HeapFine(heap') /\ KidsFine(kids', heap', blame') /\ StatsFine(stat', heap', blame')
    BY <2>2, <2>4, GrpParts
  <2> QED BY <1>1, <2>2, <2>5, RunsOn
<1> QED BY <1>2, <1>3 DEF StatStop

LEMMA StatDestroyInv ==
  ASSUME GrpIInv, NEW s \in StatId, StatDestroy(s)
  PROVE  GrpIInv'
<1>1. Runs /\ stat[s] # NoStat
  BY DEF StatDestroy
<1>2. CASE UsesGone(stat[s]) /\ Undefined
  <2>1. blame # {}
    BY <1>1, <1>2, GoneIsBlamed
  <2> QED BY <1>1, <1>2, <2>1, UndefinedInv DEF Undefined, Runs
<1>3. CASE /\ stat[s].logging => ~UsesGone(stat[s])
           /\ left' = left \union (IF stat[s].logging THEN StillOn(stat[s]) ELSE stat[s].has)
           /\ stat' = [stat EXCEPT ![s] = NoStat]
           /\ heap' = heap /\ kids' = kids /\ lib' = lib /\ blame' = blame
  <2>1. StatsFine(stat', heap, blame)
    BY <1>3, StatChanges
  <2>2. HeapFine(heap) /\ KidsFine(kids, heap, blame) /\ LeftFine(left, blame)
    BY GrpParts
  <2>3. Taken \notin blame => left' = {}
    <3>1. SUFFICES ASSUME Taken \notin blame PROVE left' = {}
      OBVIOUS
    <3>2. left = {}
      BY <2>2, <3>1 DEF LeftFine
    <3>3. StatFine(stat[s], heap, blame)
      BY <1>1, StatFacts
    <3>4. CASE stat[s].logging
      BY <1>1, <1>3, <3>1, <3>2, <3>4, StillOnNone
    <3>5. CASE ~stat[s].logging
      BY <1>3, <3>1, <3>2, <3>3, <3>5 DEF StatFine
    <3> QED BY <3>4, <3>5
  <2>4. lib' = "runs" /\ told' = Silent
    BY <1>1, <1>3 DEF Runs
  <2>5. LibFine(lib', heap', blame') /\ ToldFine(told')
    BY <2>4, SilentFine DEF LibFine
  <2>6. LeftFine(left', blame')
    BY <1>3, <2>3 DEF LeftFine
  <2> QED BY <1>3, <2>1, <2>2, <2>5, <2>6, GrpPartsNext
<1>4. \/ UsesGone(stat[s]) /\ Undefined
      \/ /\ stat[s].logging => ~UsesGone(stat[s])
         /\ left' = left \union (IF stat[s].logging THEN StillOn(stat[s]) ELSE stat[s].has)
         /\ stat' = [stat EXCEPT ![s] = NoStat]
         /\ heap' = heap /\ kids' = kids /\ lib' = lib /\ blame' = blame
  BY Zenon DEF StatDestroy
<1> QED BY <1>2, <1>3, <1>4

(* A statistic that is new has turned nothing on.                          *)
LEMMA NewStatFine ==
  ASSUME GrpIInv, NEW s \in StatId, NEW g, NEW o,
         (g = NULL /\ o \in Leaf) \/ (g \in GrpId /\ o = NULL /\ heap[g] # NoGrp),
         NEW st, st = [stat EXCEPT ![s] = NewStat(g, o)]
  PROVE  StatsFine(st, heap, blame)
<1>1. PICK t : t = NewStat(g, o)
  OBVIOUS
<1>2. PICK no \in SUBSET Leaf : no = {}
  OBVIOUS
<1>3. t = [grp |-> g, obj |-> o, logging |-> FALSE, has |-> no]
  BY <1>1, <1>2 DEF NewStat
<1>4. t \in StatOf /\ t.grp = g /\ ~t.logging /\ t.has = {}
  BY <1>2, <1>3 DEF StatOf
<1>5. ~Gone(t, heap)
  BY <1>4, GroupsAssumption DEF Gone
<1>6. StatFine(t, heap, blame)
  BY <1>4, <1>5 DEF StatFine
<1> QED BY <1>1, <1>6, StatChanges

LEMMA ObjCreateStatInv ==
  ASSUME GrpIInv, NEW s \in StatId, NEW o, ObjCreateStat(s, o)
  PROVE  GrpIInv'
<1>1. Runs
  BY DEF ObjCreateStat
<1>2. CASE /\ o \in Leaf
           /\ stat' = IF Where[o] = "none" THEN stat ELSE [stat EXCEPT ![s] = NewStat(NULL, o)]
           /\ heap' = heap /\ kids' = kids /\ left' = left /\ lib' = lib /\ blame' = blame
  <2>1. stat' = stat \/ stat' = [stat EXCEPT ![s] = NewStat(NULL, o)]
    BY <1>2
  <2>2. StatsFine(stat', heap, blame)
    BY <1>2, <2>1, NewStatFine, GrpParts
  <2>3. HeapFine(heap') /\ KidsFine(kids', heap', blame') /\ StatsFine(stat', heap', blame')
    BY <1>2, <2>2, GrpParts
  <2> QED BY <1>1, <1>2, <2>3, RunsOn
<1>3. CASE Dangling /\ Undefined
  <2>1. blame # {}
    BY <1>3, GrpParts DEF KidsFine, Dangling
  <2> QED BY <1>1, <1>3, <2>1, UndefinedInv DEF Undefined, Runs
<1>4. CASE /\ \E g \in GrpId : Children(g)
           /\ stat' = stat /\ left' = left /\ lib' = lib /\ blame' = blame
  BY <1>1, <1>4, ChildrenFine, RunsOn
<1> QED BY <1>2, <1>3, <1>4 DEF ObjCreateStat

LEMMA GrpCreateStatInv ==
  ASSUME GrpIInv, NEW s \in StatId, NEW g \in GrpId, GrpCreateStat(s, g)
  PROVE  GrpIInv'
<1>1. Runs /\ heap[g] # NoGrp
  BY DEF GrpCreateStat, Groups
<1>2. CASE /\ lib' = "undefined" /\ blame' = blame \union {"statistic of an empty group"}
           /\ heap' = heap /\ kids' = kids /\ stat' = stat /\ left' = left
  BY <1>1, <1>2, UndefinedInv DEF Runs
<1>3. CASE /\ stat' = [stat EXCEPT ![s] = NewStat(g, NULL)] \/ stat' = stat
           /\ heap' = heap /\ kids' = kids /\ left' = left /\ lib' = lib /\ blame' = blame
  <2>1. stat' = [stat EXCEPT ![s] = NewStat(g, NULL)] \/ stat' = stat
    BY <1>3
  <2>2. StatsFine(stat', heap, blame)
    BY <1>1, <2>1, NewStatFine, GrpParts
  <2>3. HeapFine(heap') /\ KidsFine(kids', heap', blame') /\ StatsFine(stat', heap', blame')
    BY <1>3, <2>2, GrpParts
  <2> QED BY <1>1, <1>3, <2>3, RunsOn
<1>4. \/ /\ lib' = "undefined" /\ blame' = blame \union {"statistic of an empty group"}
         /\ heap' = heap /\ kids' = kids /\ stat' = stat /\ left' = left
      \/ /\ stat' = [stat EXCEPT ![s] = NewStat(g, NULL)] \/ stat' = stat
         /\ heap' = heap /\ kids' = kids /\ left' = left /\ lib' = lib /\ blame' = blame
  BY DEF GrpCreateStat
<1> QED BY <1>2, <1>3, <1>4

(* A call that only tells.                                                 *)
LEMMA TellsOnly ==
  ASSUME GrpIInv, ToldFine(told'), UNCHANGED <<heap, kids, stat, left, lib, blame>>
  PROVE  GrpIInv'
  BY GrpParts, GrpPartsNext

LEMMA StatGetValueInv ==
  ASSUME GrpIInv, NEW s \in StatId, StatGetValue(s)
  PROVE  GrpIInv'
<1>1. CASE /\ told' = Silent /\ lib' = "undefined"
           /\ blame' = blame \union {"one value of a group"}
           /\ heap' = heap /\ kids' = kids /\ stat' = stat /\ left' = left
  BY <1>1, UndefinedInv
<1>2. CASE /\ told' = [op |-> "get", want |-> <<stat[s].obj>>, got |-> <<stat[s].obj>>,
                       errs |-> {}, odd |-> {}]
           /\ UNCHANGED <<heap, kids, stat, left, lib, blame>>
  <2>1. PICK w : w = <<stat[s].obj>>
    OBVIOUS
  <2>2. told' = [op |-> "get", want |-> w, got |-> w, errs |-> {}, odd |-> {}]
    BY <1>2, <2>1
  <2>3. ToldFine(told')
    BY <2>2 DEF ToldFine
  <2> QED BY <1>2, <2>3, TellsOnly
<1> QED BY <1>1, <1>2 DEF StatGetValue

LEMMA StatGetValuesInv ==
  ASSUME GrpIInv, NEW s \in StatId, StatGetValues(s)
  PROVE  GrpIInv'
<1>1. stat[s] # NoStat /\ lib = "runs"
  BY DEF StatGetValues
<1>2. CASE UsesGone(stat[s]) /\ told' = Silent /\ Undefined
  <2>1. blame # {}
    BY <1>1, <1>2, GoneIsBlamed
  <2> QED BY <1>2, <2>1, UndefinedInv DEF Undefined
<1>3. CASE ~UsesGone(stat[s])
  <2>1. PICK os, ok : os = Members(heap[stat[s].grp]) /\ ok = UpToFailure(os)
    OBVIOUS
  <2>2. /\ told' = [op |-> "get", want |-> os,
                    got |-> [i \in DOMAIN os |-> IF os[i] \in ok THEN os[i] ELSE Nothing],
                    errs |-> Range(os) \ ok, odd |-> {}]
        /\ UNCHANGED <<heap, kids, stat, left, lib, blame>>
    BY <1>3, <2>1, Zenon DEF StatGetValues
  <2>3. ToldFine(told')
    <3>1. PICK got : got = [i \in DOMAIN os |-> IF os[i] \in ok THEN os[i] ELSE Nothing]
      OBVIOUS
    <3>2. \A i \in DOMAIN os : got[i] = os[i] \/ (got[i] = Nothing /\ os[i] \in Range(os) \ ok)
      BY <3>1 DEF Range
    <3>3. told' = [op |-> "get", want |-> os, got |-> got, errs |-> Range(os) \ ok, odd |-> {}]
      BY <2>2, <3>1, Zenon
    <3> QED BY <3>2, <3>3 DEF ToldFine
  <2> QED BY <2>2, <2>3, TellsOnly
<1> QED BY <1>2, <1>3 DEF StatGetValues

-----------------------------------------------------------------------------
(* Groups and statistics: the inductive invariant, of any objects, groups  *)
(* and statistics, and of any application (DistGrp, DeviceStat, DistCntxt). *)
THEOREM GroupsInductive == GrpSpec => []GrpIInv
<1>1. GrpInit => GrpIInv
  BY GrpInitInv
<1>2. GrpIInv /\ [GrpNext]_grpVars => GrpIInv'
  <2>1. SUFFICES ASSUME GrpIInv, [GrpNext]_grpVars PROVE GrpIInv'
    OBVIOUS
  <2>2. CASE UNCHANGED grpVars
    BY <2>1, <2>2, GrpParts, GrpPartsNext DEF grpVars
  <2>3. CASE \E g \in GrpId : GrpCreate(g) \/ ObjGetChildren(g) \/ GrpDestroy(g)
                              \/ GrpAttrGetValues(g) \/ GrpAttrSetValues(g)
    BY <2>1, <2>3, GrpCreateInv, ObjGetChildrenInv, GrpDestroyInv, GrpAttrGetValuesInv, GrpAttrSetValuesInv
  <2>4. CASE \E t \in Range(TypeOf), g \in GrpId : GetGrpByType(t, g)
    BY <2>1, <2>4, GetGrpByTypeInv
  <2>5. CASE \E g \in GrpId, o \in Leaf : GrpAddObj(g, o) \/ GrpRemoveObj(g, o)
    BY <2>1, <2>5, GrpAddObjInv, GrpRemoveObjInv
  <2>6. CASE \E s \in StatId : StatStart(s) \/ StatStop(s) \/ StatDestroy(s)
                               \/ StatGetValue(s) \/ StatGetValues(s)
    BY <2>1, <2>6, StatStartInv, StatStopInv, StatDestroyInv, StatGetValueInv, StatGetValuesInv
  <2>7. CASE \E s \in StatId, o \in Leaf \union {Root} : ObjCreateStat(s, o)
    BY <2>1, <2>7, ObjCreateStatInv
  <2>8. CASE \E s \in StatId, g \in GrpId : GrpCreateStat(s, g)
    BY <2>1, <2>8, GrpCreateStatInv
  <2> QED BY <2>1, <2>2, <2>3, <2>4, <2>5, <2>6, <2>7, <2>8 DEF GrpNext
<1> QED BY <1>1, <1>2, PTL DEF GrpSpec

(* The places of a group's values hold the members' values or name them in *)
(* an error (DistGrp::attrGetValues, DeviceStat::getValues).               *)
THEOREM ValuesArePlaced == GrpSpec => []Placed
<1>1. GrpIInv => Placed
  BY DEF GrpIInv
<1> QED BY <1>1, GroupsInductive, PTL

(* A set reaches the members no error names (DistGrp::attrSetValues).      *)
THEOREM SetsReach == GrpSpec => []SetReaches
<1>1. GrpIInv => SetReaches
  BY DEF GrpIInv
<1> QED BY <1>1, GroupsInductive, PTL

(* A statistic that has stopped or is gone logs nothing (DeviceStat).      *)
THEOREM StatisticsStop == GrpSpec => []LogsEnd
<1>1. GrpIInv => LogsEnd
  BY DEF GrpIInv, LogsEnd, StatsOK, StatOK, NoneGone
<1> QED BY <1>1, GroupsInductive, PTL

(* What goes wrong is the application's fault or a member that came late   *)
(* (DistCntxt::destroyGrp, DeviceStat, DistRequest::getValue).             *)
THEOREM FaultsAreBlamed == GrpSpec => []Blameless
<1>1. GrpIInv => Blameless
  BY DEF GrpIInv
<1> QED BY <1>1, GroupsInductive, PTL

-----------------------------------------------------------------------------
(* The logger: whatever the objects, the attributes and the readings.      *)

(* Row by row, the place of a value tells its row and its column.          *)
LEMMA RowAndColumn ==
  ASSUME NEW n \in Nat \ {0}, NEW q \in Nat, NEW r \in 0..(n - 1)
  PROVE  (q * n + r) \div n = q /\ (q * n + r) % n = r
<1> DEFINE x == q * n + r
<1> DEFINE d == x \div n
<1> DEFINE m == x % n
<1>1. q * n \in Nat /\ x \in Nat
  OBVIOUS
<1>2. d \in Int /\ m \in 0..(n - 1) /\ x = n * d + m
  BY <1>1
<1>3. (q - d) * n = m - r
  <2>1. q * n - n * d = (q - d) * n
    BY <1>2
  <2> QED BY <1>1, <1>2, <2>1
<1>4. m - r < n /\ r - m < n
  BY <1>2
<1>5. q - d = 0
  <2> DEFINE e == q - d
  <2>1. e \in Int
    BY <1>2
  <2>2. ~(e >= 1)
    <3>1. e >= 1 => e * n >= n
      BY <2>1
    <3> QED BY <1>3, <1>4, <3>1
  <2>3. ~(e <= -1)
    <3>1. e <= -1 => e * n <= -n
      BY <2>1
    <3> QED BY <1>2, <1>3, <1>4, <3>1
  <2> HIDE DEF e
  <2>4. e = 0
    BY <2>1, <2>2, <2>3
  <2> QED BY <2>4 DEF e
<1>6. d = q
  BY <1>2, <1>5
<1>7. m = r
  BY <1>1, <1>2, <1>6
<1> QED BY <1>6, <1>7

(* Of m rows of n values, place k is in row j and in column i.             *)
IsPlace(k, m, n, j, i) == k \in 1..(m * n) /\ (k - 1) \div n = j - 1 /\ (k - 1) % n = i - 1

LEMMA PlaceOf ==
  ASSUME NEW m \in Nat, NEW n \in Nat \ {0}, NEW j \in 1..m, NEW i \in 1..n
  PROVE  IsPlace((j - 1) * n + i, m, n, j, i)
<1> DEFINE k == (j - 1) * n + i
<1> DEFINE q == j - 1
<1> DEFINE r == i - 1
<1>1. q \in Nat /\ r \in 0..(n - 1) /\ q + 1 <= m /\ q * n \in Nat /\ m * n \in Nat
  OBVIOUS
<1>2. k - 1 = q * n + r /\ k = q * n + i
  OBVIOUS
<1>3. (k - 1) \div n = q /\ (k - 1) % n = r
  <2>1. (q * n + r) \div n = q /\ (q * n + r) % n = r
    BY <1>1, RowAndColumn
  <2> QED BY <1>2, <2>1
<1>4. q * n + n <= m * n
  <2> DEFINE d == m - (q + 1)
  <2>1. d \in Nat /\ m = q + 1 + d
    BY <1>1
  <2> HIDE DEF q, d
  <2>2. (q + 1 + d) * n = q * n + n + d * n /\ d * n >= 0
    BY <1>1, <2>1
  <2> QED BY <1>1, <2>1, <2>2
<1> HIDE DEF q, r
<1>5. k \in 1..(m * n)
  BY <1>1, <1>2, <1>4
<1> QED BY <1>3, <1>5 DEF q, r, IsPlace

RightLines(lines) == \A l \in lines : l.value = [obj |-> l.obj, attr |-> l.attr]

LEMMA LinesTell ==
  ASSUME NEW S, NEW T, NEW os \in Seq(S), NEW as \in Seq(T)
  PROVE  RightLines(Lines(os, as))
<1> USE DEF RightLines
<1> SUFFICES ASSUME NEW l \in Lines(os, as) PROVE l.value = [obj |-> l.obj, attr |-> l.attr]
  OBVIOUS
<1>1. PICK j, i : j \in DOMAIN os /\ i \in DOMAIN as /\
        l = [obj |-> os[j], attr |-> as[i], value |-> Values(os, as)[LineIndex(j, i, os, as)]]
  <2>1. l \in Lines(os, as)
    OBVIOUS
  <2> QED BY <2>1, Zenon DEF Lines
<1>2. PICK m \in Nat : m = Len(os)
  BY LenProperties
<1>3. PICK n \in Nat : n = Len(as)
  BY LenProperties
<1>4. j \in 1..m /\ i \in 1..n /\ n # 0
  <2>1. DOMAIN os = 1..m /\ DOMAIN as = 1..n
    BY <1>2, <1>3, LenProperties
  <2> QED BY <1>1, <2>1
<1> DEFINE k == (j - 1) * n + i
<1>6. LineIndex(j, i, os, as) = k
  BY <1>3 DEF LineIndex
<1>7. k \in 1..(m * n) /\ (k - 1) \div n = j - 1 /\ (k - 1) % n = i - 1
  <2>1. n \in Nat \ {0}
    BY <1>4
  <2>2. IsPlace(k, m, n, j, i)
    BY <1>4, <2>1, PlaceOf, Zenon
  <2> HIDE DEF k
  <2> QED BY <2>2 DEF IsPlace
<1> HIDE DEF k
<1>8. Values(os, as)[k] = [obj |-> os[((k - 1) \div n) + 1], attr |-> as[((k - 1) % n) + 1]]
  BY <1>2, <1>3, <1>7, Zenon DEF Values
<1>9. Values(os, as)[k] = [obj |-> os[j], attr |-> as[i]]
  <2>1. (j - 1) + 1 = j /\ (i - 1) + 1 = i
    BY <1>4
  <2> QED BY <1>7, <1>8, <2>1, Zenon
<1> QED BY <1>1, <1>6, <1>9

LEMMA LgrInitInv == LgrInit => LgrIInv
<1> SUFFICES ASSUME LgrInit PROVE LgrIInv
  OBVIOUS
<1>1. lgrArgs \in LgrArg /\ lgrEnergy \in Nat
  BY LgrAssumption DEF LgrInit
<1>2. <<>> \in Seq(STRING) /\ <<>> \in Seq(Nat) /\ On(<<>>) = {} /\ DOMAIN <<>> = {}
  BY DEF On
<1> QED BY <1>1, <1>2 DEF LgrInit, LgrIInv, LogTells

LEMMA EnergyRoundInv ==
  ASSUME LgrIInv, EnergyRound
  PROVE  LgrIInv'
<1> DEFINE n == Len(lgrRead)
<1> DEFINE v == lgrEnergy
<1>1. lgrRead \in Seq(Nat) /\ v \in Nat /\ n \in Nat /\ lgrSum \in Int /\ lgrStart \in Nat
  BY LenProperties DEF LgrIInv
<1>2. /\ lgrRead' \in Seq(Nat) /\ Len(lgrRead') = n + 1 /\ lgrRead'[n + 1] = v
      /\ \A i \in 1..n : lgrRead'[i] = lgrRead[i]
  <2>1. lgrRead' = Append(lgrRead, v)
    BY DEF EnergyRound
  <2> QED BY <1>1, <2>1, AppendProperties
<1>3. DOMAIN lgrRead = 1..n /\ DOMAIN lgrRead' = 1..(n + 1)
  BY <1>1, <1>2, LenProperties
<1>4. /\ lgrStart' = v /\ lgrEnergy' = v
      /\ lgrSum' = IF lgrStart = 0 THEN lgrSum ELSE lgrSum + (v - lgrStart)
  BY DEF EnergyRound, EnergyPrints
<1>5. /\ n = 0 => lgrStart = 0
      /\ n # 0 => lgrStart = lgrRead[n]
  <2>1. lgrRead = <<>> <=> n = 0
    BY <1>1, EmptySeq
  <2> QED BY <2>1 DEF LgrIInv
<1>6. lgrStart <= v /\ \A i, j \in 1..n : i <= j => lgrRead[i] <= lgrRead[j]
  BY <1>3 DEF LgrIInv
<1>7. \A i \in 1..n : lgrRead[i] \in Nat /\ lgrRead[i] <= lgrStart
  <2> TAKE i \in 1..n
  <2>1. n \in 1..n /\ i <= n /\ n # 0
    BY <1>1
  <2> QED BY <1>1, <1>3, <1>5, <1>6, <2>1
<1>8. \A i, j \in 1..(n + 1) : i <= j => lgrRead'[i] <= lgrRead'[j]
  <2> SUFFICES ASSUME NEW i \in 1..(n + 1), NEW j \in 1..(n + 1), i <= j
               PROVE  lgrRead'[i] <= lgrRead'[j]
    OBVIOUS
  <2>1. CASE j \in 1..n
    <3>1. i \in 1..n
      BY <1>1, <2>1
    <3> QED BY <1>2, <1>6, <2>1, <3>1
  <2>2. CASE j = n + 1
    <3>1. CASE i = n + 1
      BY <1>1, <1>2, <2>2, <3>1
    <3>2. CASE i \in 1..n
      <4>1. lgrRead'[i] = lgrRead[i] /\ lgrRead'[j] = v
        BY <1>1, <1>2, <2>2, <3>2
      <4>2. lgrRead[i] \in Nat /\ lgrRead[i] <= lgrStart /\ lgrStart <= v
        BY <1>6, <1>7, <3>2
      <4>3. lgrStart \in Nat /\ v \in Nat
        BY <1>1
      <4> QED BY <4>1, <4>2, <4>3
    <3> QED BY <1>1, <3>1, <3>2
  <2> QED BY <1>1, <2>1, <2>2
<1>9. \A i \in 1..(n + 1) : i \in On(lgrRead') <=> (IF i = n + 1 THEN v > 0 ELSE i \in On(lgrRead))
  BY <1>1, <1>2, <1>3 DEF On
<1>10. On(lgrRead') \subseteq 1..(n + 1) /\ On(lgrRead) \subseteq 1..n
  BY <1>3 DEF On
<1>11. lgrStart = 0 => On(lgrRead) = {}
  <2> SUFFICES ASSUME lgrStart = 0, NEW i \in On(lgrRead) PROVE FALSE
    OBVIOUS
  <2>1. lgrRead[i] > 0 /\ i \in 1..n
    BY <1>3 DEF On
  <2>2. lgrRead[i] \in Nat /\ lgrRead[i] <= lgrStart
    BY <1>7, <2>1
  <2> QED BY <2>1, <2>2
<1>12. lgrStart > 0 => n \in On(lgrRead)
  <2> SUFFICES ASSUME lgrStart > 0 PROVE n \in On(lgrRead)
    OBVIOUS
  <2>1. n # 0 /\ n \in 1..n
    BY <1>1, <1>5
  <2>2. lgrRead[n] > 0
    BY <1>5, <2>1
  <2> QED BY <1>3, <2>1, <2>2 DEF On
<1>13. On(lgrRead') = {} => lgrSum' = 0
  <2> SUFFICES ASSUME On(lgrRead') = {} PROVE lgrSum' = 0
    OBVIOUS
  <2>1. v = 0 /\ lgrStart = 0
    BY <1>1, <1>6, <1>9
  <2>2. lgrSum = 0
    BY <1>11, <2>1 DEF LgrIInv, LogTells
  <2> QED BY <1>4, <2>1, <2>2
<1>14. ASSUME NEW f \in On(lgrRead'), NEW l \in On(lgrRead'), \A i \in On(lgrRead') : i \in f..l
       PROVE  lgrSum' = lgrRead'[l] - lgrRead'[f]
  <2>1. v > 0
    <3>1. CASE lgrStart = 0
      <4>1. f = n + 1
        BY <1>9, <1>10, <1>11, <3>1
      <4> QED BY <1>9, <1>10, <4>1
    <3>2. CASE lgrStart > 0
      BY <1>1, <1>6, <3>2
    <3> QED BY <1>1, <3>1, <3>2
  <2>2. n + 1 \in On(lgrRead')
    BY <1>1, <1>9, <2>1
  <2>3. l = n + 1
    <3>1. n + 1 \in f..l /\ l \in 1..(n + 1)
      BY <1>10, <1>14, <2>2
    <3> QED BY <1>1, <3>1
  <2>4. CASE lgrStart = 0
    <3>1. On(lgrRead) = {} /\ lgrSum = 0
      BY <1>11, <2>4 DEF LgrIInv, LogTells
    <3>2. f = n + 1
      BY <1>9, <1>10, <3>1
    <3> QED BY <1>1, <1>2, <1>4, <2>3, <2>4, <3>1, <3>2
  <2>5. CASE lgrStart > 0
    <3>1. n \in On(lgrRead) /\ n \in 1..n /\ n # n + 1 /\ n \in On(lgrRead')
      BY <1>1, <1>9, <1>10, <1>12, <2>5
    <3>2. f \in 1..n
      <4>1. n \in f..l /\ f \in 1..(n + 1)
        BY <1>10, <1>14, <3>1
      <4> QED BY <1>1, <4>1
    <3>3. f \in On(lgrRead)
      BY <1>1, <1>9, <3>2
    <3>4. \A i \in On(lgrRead) : i \in f..n
      <4> TAKE i \in On(lgrRead)
      <4>1. i \in 1..n /\ i \in On(lgrRead')
        BY <1>1, <1>9, <1>10
      <4>2. i \in f..l
        BY <1>14, <4>1
      <4> QED BY <1>1, <3>2, <4>1, <4>2
    <3>5. lgrSum = lgrRead[n] - lgrRead[f]
      BY <3>1, <3>3, <3>4 DEF LgrIInv, LogTells
    <3>6. lgrRead'[f] = lgrRead[f] /\ lgrRead[f] \in Nat /\ lgrRead'[l] = v /\ lgrRead[n] = lgrStart
      BY <1>1, <1>2, <1>5, <1>7, <2>3, <3>2, <3>1
    <3>7. lgrSum' = lgrSum + (v - lgrStart)
      BY <1>4, <2>5
    <3> QED BY <1>1, <3>5, <3>6, <3>7
  <2> QED BY <1>1, <2>4, <2>5
<1>15. UNCHANGED lgrLines
  BY DEF EnergyRound
<1>16. LogTells'
  <2>1. \A l \in lgrLines' : l.value = [obj |-> l.obj, attr |-> l.attr]
    BY <1>15 DEF LgrIInv, LogTells
  <2> QED BY <1>13, <1>14, <2>1 DEF LogTells
<1>17. lgrStart' = IF lgrRead' = <<>> THEN 0 ELSE lgrRead'[Len(lgrRead')]
  <2>1. lgrRead' # <<>>
    BY <1>1, <1>2, EmptySeq
  <2> QED BY <1>2, <1>4, <2>1
<1>18. lgrSum' \in Int
  BY <1>1, <1>4
<1>19. UNCHANGED <<lgrArgs, lgrAttrs>>
  BY DEF EnergyRound
<1> HIDE DEF n, v
<1>20. lgrStart' <= lgrEnergy' /\ lgrStart' \in Nat /\ lgrEnergy' \in Nat
  BY <1>1, <1>4
<1>21. \A i, j \in DOMAIN lgrRead' : i <= j => lgrRead'[i] <= lgrRead'[j]
  BY <1>3, <1>8
<1> QED BY <1>2, <1>16, <1>17, <1>18, <1>19, <1>20, <1>21 DEF LgrIInv

(* The steps that print values or nothing.                                 *)
LEMMA OtherLgrInv ==
  ASSUME LgrIInv, LgrMake \/ LgrFail \/ PowerRound \/ RateEnds \/ SetMultEnds \/ StatRound
  PROVE  LgrIInv'
<1>1. UNCHANGED <<lgrArgs, lgrEnergy, lgrStart, lgrRead, lgrSum>>
  BY DEF LgrMake, LgrFail, PowerRound, RateEnds, SetMultEnds, StatRound
<1>2. lgrArgs \in LgrArg /\ lgrArgs.attrs \in Seq(STRING) /\ lgrArgs.name \in STRING
      /\ lgrAttrs \in Seq(STRING) /\ LgrObj \in Seq(STRING)
  BY LgrAssumption DEF LgrIInv, LgrArg
<1>3. lgrAttrs' \in Seq(STRING)
  <2>1. lgrAttrs' \in {lgrAttrs, <<>>, lgrArgs.attrs}
    BY DEF LgrMake, LgrFail, PowerRound, RateEnds, SetMultEnds, StatRound
  <2>2. <<>> \in Seq(STRING)
    OBVIOUS
  <2> QED BY <1>2, <2>1, <2>2
<1>4. Group \in Seq(STRING)
  <2>1. <<lgrArgs.name>> \in Seq(STRING)
    BY <1>2
  <2> QED BY <1>2, <2>1 DEF Group
<1>5. \A l \in lgrLines' : l.value = [obj |-> l.obj, attr |-> l.attr]
  <2>1. CASE UNCHANGED lgrLines
    BY <2>1 DEF LgrIInv, LogTells
  <2>2. CASE PowerRound
    <3> DEFINE as == IF Kind = "power" THEN <<"power">> ELSE lgrAttrs
    <3>1. as \in Seq(STRING) \/ as \in Seq({"power"})
      <4>1. <<"power">> \in Seq({"power"})
        OBVIOUS
      <4> QED BY <1>2, <4>1
    <3>2. lgrLines' = Lines(Group, as)
      BY <2>2 DEF PowerRound
    <3> HIDE DEF as
    <3>3. RightLines(Lines(Group, as))
      BY <1>4, <3>1, LinesTell, Zenon
    <3> QED BY <3>2, <3>3 DEF RightLines
  <2>3. CASE StatRound
    <3>1. <<lgrAttrs[1]>> \in Seq({lgrAttrs[1]})
      OBVIOUS
    <3>2. lgrLines' = {} \/ lgrLines' = Lines(Group, <<lgrAttrs[1]>>)
      BY <2>3 DEF StatRound
    <3>3. RightLines(Lines(Group, <<lgrAttrs[1]>>))
      BY <1>4, <3>1, LinesTell, Zenon
    <3> QED BY <3>2, <3>3 DEF RightLines
  <2> QED BY <2>1, <2>2, <2>3 DEF LgrMake, LgrFail, RateEnds, SetMultEnds
<1>6. On(lgrRead)' = On(lgrRead)
  BY <1>1 DEF On
<1>7. LogTells'
  BY <1>1, <1>5, <1>6 DEF LgrIInv, LogTells
<1> QED BY <1>1, <1>3, <1>7 DEF LgrIInv

LEMMA ConsumeInv ==
  ASSUME LgrIInv, Consume
  PROVE  LgrIInv'
<1>1. /\ UNCHANGED <<lgrArgs, lgrAttrs, lgrStart, lgrRead, lgrSum, lgrLines>>
      /\ lgrEnergy' = lgrEnergy + 1
  BY DEF Consume
<1>2. lgrEnergy' \in Nat /\ lgrStart' <= lgrEnergy'
  BY <1>1 DEF LgrIInv
<1>3. LogTells'
  BY <1>1 DEF LgrIInv, LogTells, On
<1> QED BY <1>1, <1>2, <1>3 DEF LgrIInv

(* The inductive invariant of the logger (tools/pwrdaemon/logger).         *)
THEOREM LgrInductive == LgrSpec => []LgrIInv
<1>1. LgrInit => LgrIInv
  BY LgrInitInv
<1>2. LgrIInv /\ [LgrNext]_lgrVars => LgrIInv'
  <2> SUFFICES ASSUME LgrIInv, [LgrNext]_lgrVars PROVE LgrIInv'
    OBVIOUS
  <2>1. CASE UNCHANGED lgrVars
    BY <2>1 DEF lgrVars, LgrIInv, LogTells, On
  <2>2. CASE LgrNext
    BY <2>2, EnergyRoundInv, OtherLgrInv, ConsumeInv DEF LgrNext
  <2> QED BY <2>1, <2>2
<1> QED BY <1>1, <1>2, PTL DEF LgrSpec

(* Whatever is read in whatever order, the lines of an energy log add up   *)
(* to what was used between the first reading that was not zero and the    *)
(* last, and every line of a log of several attributes has the value of    *)
(* its own object and attribute (Energy::work, Mult::work, Stat::work).    *)
THEOREM LogIsTrue == LgrSpec => []LogTells
<1>1. LgrIInv => LogTells
  BY DEF LgrIInv
<1> QED BY <1>1, LgrInductive, PTL

-----------------------------------------------------------------------------
(* FlattenSeq.  Flat(ss, f) says that f has the flattened beginnings of ss.*)
Flat(ss, n, f) == f = [i \in 1..n |-> IF i = 1 THEN ss[i] ELSE f[i-1] \o ss[i]]

LEMMA FlatExists ==
  ASSUME NEW ss, NEW n \in Nat
  PROVE  \E f : Flat(ss, n, f)
<1> DEFINE T == {m \in Nat : ~\E f : Flat(ss, m, f)}
<1>1. SUFFICES ASSUME T # {} PROVE FALSE
  OBVIOUS
<1>2. PICK m \in T : \A y \in T : m <= y
  BY <1>1, LeastOf
<1>3. m # 0
  <2>1. Flat(ss, 0, [i \in 1..0 |-> <<>>])
    BY DEF Flat
  <2> QED BY <1>2, <2>1
<1>4. PICK f : Flat(ss, m - 1, f)
  BY <1>2, <1>3
<1> DEFINE g == [i \in 1..m |-> IF i = m THEN IF i = 1 THEN ss[i] ELSE f[i-1] \o ss[i] ELSE f[i]]
<1>5. \A i \in 1..m : g[i] = IF i = 1 THEN ss[i] ELSE g[i-1] \o ss[i]
  <2> SUFFICES ASSUME NEW i \in 1..m PROVE g[i] = IF i = 1 THEN ss[i] ELSE g[i-1] \o ss[i]
    OBVIOUS
  <2>1. f = [j \in 1..(m - 1) |-> IF j = 1 THEN ss[j] ELSE f[j-1] \o ss[j]]
    BY <1>4 DEF Flat
  <2>2. i # 1 => g[i-1] = f[i-1]
    BY <1>2
  <2>3. CASE i = m
    BY <2>2, <2>3
  <2>4. CASE i # m
    <3>1. i \in 1..(m - 1)
      BY <1>2, <2>4
    <3>2. f[i] = IF i = 1 THEN ss[i] ELSE f[i-1] \o ss[i]
      BY <2>1, <3>1
    <3> QED BY <2>2, <2>4, <3>2
  <2> QED BY <2>3, <2>4
<1>6. Flat(ss, m, g)
  BY <1>5 DEF Flat
<1> QED BY <1>2, <1>6

LEMMA FlattenIs ==
  ASSUME NEW ss, Len(ss) \in Nat, Len(ss) # 0
  PROVE  \E f : Flat(ss, Len(ss), f) /\ FlattenSeq(ss) = f[Len(ss)]
<1> DEFINE f == CHOOSE h : Flat(ss, Len(ss), h)
<1>1. Flat(ss, Len(ss), f)
  BY FlatExists
<1>2. FlattenSeq(ss) = f[Len(ss)]
  BY DEF FlattenSeq, Flat
<1> QED BY <1>1, <1>2

(* What FlattenSeq returns: a sequence of what is in the parts, and with   *)
(* nothing twice if nothing is twice in the parts.                         *)
FlatUpTo(ss, n, T, q) ==
  /\ q \in Seq(T)
  /\ \A x : x \in Range(q) <=> \E i \in 1..n : x \in Range(ss[i])
  /\ (\A i \in 1..n : IsInjective(ss[i]))
     /\ (\A i, j \in 1..n : i # j => Range(ss[i]) \cap Range(ss[j]) = {})
     => IsInjective(q)

LEMMA JoinFacts ==
  ASSUME NEW T, NEW p \in Seq(T), NEW q \in Seq(T)
  PROVE  /\ p \o q \in Seq(T) /\ Len(p \o q) = Len(p) + Len(q)
         /\ Range(p \o q) = Range(p) \cup Range(q)
         /\ IsInjective(p) /\ IsInjective(q) /\ Range(p) \cap Range(q) = {} => IsInjective(p \o q)
<1> DEFINE r == p \o q
<1>1. /\ r \in Seq(T) /\ Len(r) = Len(p) + Len(q) /\ Len(p) \in Nat /\ Len(q) \in Nat
      /\ DOMAIN r = 1..(Len(p) + Len(q)) /\ DOMAIN p = 1..Len(p) /\ DOMAIN q = 1..Len(q)
  OBVIOUS
<1>2. \A i \in 1..(Len(p) + Len(q)) :
        \/ i \in 1..Len(p) /\ r[i] = p[i]
        \/ i - Len(p) \in 1..Len(q) /\ r[i] = q[i - Len(p)]
  OBVIOUS
<1>3. \A i \in 1..Len(p) : i \in DOMAIN r /\ r[i] = p[i]
  OBVIOUS
<1>4. \A i \in 1..Len(q) : i + Len(p) \in DOMAIN r /\ r[i + Len(p)] = q[i]
  OBVIOUS
<1> HIDE DEF r
<1>5. Range(r) = Range(p) \cup Range(q)
  <2>1. ASSUME NEW x \in Range(r) PROVE x \in Range(p) \cup Range(q)
    BY <1>1, <1>2 DEF Range
  <2>2. ASSUME NEW x \in Range(p) PROVE x \in Range(r)
    BY <1>1, <1>3 DEF Range
  <2>3. ASSUME NEW x \in Range(q) PROVE x \in Range(r)
    BY <1>1, <1>4 DEF Range
  <2> QED BY <2>1, <2>2, <2>3
<1>6. ASSUME IsInjective(p), IsInjective(q), Range(p) \cap Range(q) = {}
      PROVE  IsInjective(r)
  <2> SUFFICES ASSUME NEW i \in DOMAIN r, NEW j \in DOMAIN r, r[i] = r[j] PROVE i = j
    BY DEF IsInjective
  <2>1. CASE i \in 1..Len(p) /\ r[i] = p[i] /\ j \in 1..Len(p) /\ r[j] = p[j]
    BY <1>1, <1>6, <2>1 DEF IsInjective
  <2>2. CASE i - Len(p) \in 1..Len(q) /\ r[i] = q[i - Len(p)] /\ j - Len(p) \in 1..Len(q) /\ r[j] = q[j - Len(p)]
    <3>1. i - Len(p) = j - Len(p)
      BY <1>1, <1>6, <2>2 DEF IsInjective
    <3> QED BY <1>1, <3>1
  <2>3. \A k \in 1..Len(p), l \in 1..Len(q) : p[k] # q[l]
    BY <1>1, <1>6 DEF Range
  <2> QED BY <1>1, <1>2, <2>1, <2>2, <2>3
<1> QED BY <1>1, <1>5, <1>6 DEF r

LEMMA FlatFacts ==
  ASSUME NEW T, NEW ss \in Seq(Seq(T))
  PROVE  FlatUpTo(ss, Len(ss), T, FlattenSeq(ss))
<1>1. Len(ss) \in Nat /\ \A i \in 1..Len(ss) : ss[i] \in Seq(T)
  OBVIOUS
<1>2. CASE Len(ss) = 0
  <2>1. FlattenSeq(ss) = ss /\ ss = <<>>
    BY <1>2 DEF FlattenSeq
  <2> QED BY <1>2, <2>1 DEF FlatUpTo, Range, IsInjective
<1>3. CASE Len(ss) # 0
  <2>1. PICK f : Flat(ss, Len(ss), f) /\ FlattenSeq(ss) = f[Len(ss)]
    BY <1>1, <1>3, FlattenIs
  <2>2. \A i \in 1..Len(ss) : f[i] = IF i = 1 THEN ss[i] ELSE f[i - 1] \o ss[i]
    BY <2>1 DEF Flat
  <2> DEFINE Bad == {n \in 1..Len(ss) : ~FlatUpTo(ss, n, T, f[n])}
  <2>3. ASSUME Bad # {} PROVE FALSE
    <3>1. PICK m \in Bad : \A y \in Bad : m <= y
      <4>1. Bad \subseteq Nat
        BY <1>1
      <4> QED BY <2>3, <4>1, LeastOf
    <3>2. m \in 1..Len(ss) /\ ~FlatUpTo(ss, m, T, f[m])
      BY <3>1
    <3>3. CASE m = 1
      <4>1. f[m] = ss[1] /\ 1..m = {1}
        BY <2>2, <3>2, <3>3
      <4> QED BY <1>1, <3>2, <3>3, <4>1 DEF FlatUpTo
    <3>4. CASE m # 1
      <4>1. m - 1 \in 1..Len(ss) /\ m - 1 \notin Bad
        BY <1>1, <3>1, <3>2, <3>4
      <4>2. FlatUpTo(ss, m - 1, T, f[m - 1])
        BY <4>1
      <4> HIDE DEF Bad
      <4> DEFINE p == f[m - 1]
                 q == ss[m]
      <4>3. p \in Seq(T) /\ q \in Seq(T) /\ f[m] = p \o q
        BY <1>1, <2>2, <3>2, <3>4, <4>2 DEF FlatUpTo
      <4>4. 1..m = (1..(m - 1)) \cup {m} /\ m \notin 1..(m - 1)
        BY <3>2, <3>4
      <4>5. \A x : x \in Range(p) <=> \E i \in 1..(m - 1) : x \in Range(ss[i])
        BY <4>2 DEF FlatUpTo
      <4>6. (\A i \in 1..(m - 1) : IsInjective(ss[i]))
            /\ (\A i, j \in 1..(m - 1) : i # j => Range(ss[i]) \cap Range(ss[j]) = {})
            => IsInjective(p)
        BY <4>2 DEF FlatUpTo
      <4> HIDE DEF p, q
      <4>7. /\ p \o q \in Seq(T) /\ Range(p \o q) = Range(p) \cup Range(q)
            /\ IsInjective(p) /\ IsInjective(q) /\ Range(p) \cap Range(q) = {} => IsInjective(p \o q)
        BY <4>3, JoinFacts
      <4>8. \A x : x \in Range(p \o q) <=> \E i \in 1..m : x \in Range(ss[i])
        BY <4>4, <4>5, <4>7 DEF q
      <4>9. ASSUME \A i \in 1..m : IsInjective(ss[i]),
                   \A i, j \in 1..m : i # j => Range(ss[i]) \cap Range(ss[j]) = {}
            PROVE  IsInjective(p \o q)
        <5>1. IsInjective(p) /\ IsInjective(q)
          BY <4>4, <4>6, <4>9 DEF q
        <5>2. \A i \in 1..(m - 1) : Range(ss[i]) \cap Range(q) = {}
          BY <4>4, <4>9 DEF q
        <5>3. Range(p) \cap Range(q) = {}
          BY <4>5, <5>2
        <5> QED BY <4>7, <5>1, <5>3
      <4> QED BY <3>2, <4>3, <4>7, <4>8, <4>9 DEF FlatUpTo
    <3> QED BY <3>3, <3>4
  <2>4. Len(ss) \in 1..Len(ss)
    BY <1>1, <1>3
  <2> QED BY <2>1, <2>3, <2>4
<1> QED BY <1>2, <1>3

-----------------------------------------------------------------------------
(* The context.  A document is finite, so its names are no longer than some*)
(* number, and what traverse computes is defined.                          *)
DocIsOk ==
  /\ IsFiniteSet(DOMAIN ctxDoc) /\ DOMAIN ctxDoc \subseteq Seq(STRING)
  /\ \A o \in DOMAIN ctxDoc : ctxDoc[o] \in CtxElem

LEMMA BoundOf ==
  ASSUME NEW n \in Nat, NEW l \in [1..n -> Nat]
  PROVE  \E h \in Nat : \A i \in 1..n : l[i] <= h
<1> DEFINE Fine(m) == \E h \in Nat : \A i \in 1..n : i <= m => l[i] <= h
           Bad == {m \in Nat : ~Fine(m)}
<1>1. ASSUME Bad # {} PROVE FALSE
  <2>1. PICK m \in Bad : \A y \in Bad : m <= y
    BY <1>1, LeastOf
  <2>2. m \in Nat /\ ~Fine(m)
    BY <2>1
  <2>3. Fine(0)
    <3>1. \A i \in 1..n : i <= 0 => l[i] <= 0
      OBVIOUS
    <3> QED BY <3>1
  <2>4. ASSUME NEW k \in Nat, Fine(k) PROVE Fine(k + 1)
    <3>1. PICK h \in Nat : \A i \in 1..n : i <= k => l[i] <= h
      BY <2>4
    <3>2. CASE k + 1 \in 1..n
      <4>1. PICK b \in 1..n : b = k + 1
        BY <3>2
      <4>2. PICK x \in Nat : x = l[b]
        OBVIOUS
      <4>3. ASSUME NEW i \in 1..n, i <= k + 1 PROVE l[i] <= h + x
        <5>1. l[i] \in Nat
          OBVIOUS
        <5>2. CASE i = b
          BY <4>2, <5>2
        <5>3. CASE i # b
          <6>1. l[i] <= h
            BY <3>1, <4>1, <4>3, <5>3
          <6> QED BY <5>1, <6>1
        <5> QED BY <5>2, <5>3
      <4>4. h + x \in Nat
        OBVIOUS
      <4> QED BY <4>3, <4>4
    <3>3. CASE k + 1 \notin 1..n
      <4>1. \A i \in 1..n : i <= k + 1 => l[i] <= h
        BY <3>1, <3>3
      <4> QED BY <4>1
    <3> QED BY <3>2, <3>3
  <2> HIDE DEF Fine
  <2>5. m # 0
    BY <2>2, <2>3
  <2>6. m - 1 \in Nat /\ (m - 1) + 1 = m /\ ~(m <= m - 1)
    BY <2>2, <2>5
  <2>7. Fine(m - 1)
    BY <2>1, <2>6
  <2>8. Fine((m - 1) + 1)
    BY <2>4, <2>6, <2>7
  <2> QED BY <2>2, <2>6, <2>8
<1>2. PICK h \in Nat : \A i \in 1..n : i <= n => l[i] <= h
  BY <1>1
<1> QED BY <1>2

LEMMA LongestOf ==
  ASSUME NEW S, IsFiniteSet(S), S \subseteq Seq(STRING)
  PROVE  \E h \in Nat : \A o \in S : Len(o) <= h
<1>1. PICK n \in Nat : ExistsBijection(1..n, S)
  BY FS_CardinalityType
<1>2. PICK f \in [1..n -> S] : \A o \in S : \E i \in 1..n : f[i] = o
  BY <1>1 DEF ExistsBijection, Bijection, Surjection, Injection
<1>3. \A i \in 1..n : Len(f[i]) \in Nat
  BY <1>2
<1>4. PICK l \in [1..n -> Nat] : \A i \in 1..n : l[i] = Len(f[i])
  <2>1. [i \in 1..n |-> Len(f[i])] \in [1..n -> Nat]
    BY <1>3
  <2> QED BY <2>1
<1>5. PICK h \in Nat : \A i \in 1..n : l[i] <= h
  BY BoundOf
<1>6. \A o \in S : Len(o) <= h
  <2> SUFFICES ASSUME NEW o \in S PROVE Len(o) <= h
    OBVIOUS
  <2>1. PICK i \in 1..n : f[i] = o
    BY <1>2
  <2> QED BY <1>4, <1>5, <2>1
<1> QED BY <1>6

(* What a child for an attribute is called.                                *)
LEMMA NameBelow ==
  ASSUME NEW o \in Seq(STRING), NEW c \in STRING
  PROVE  /\ Append(o, c) \in Seq(STRING) /\ Len(o) \in Nat
         /\ Len(Append(o, c)) = Len(o) + 1 /\ Append(o, c)[Len(o) + 1] = c
         /\ \A i \in 1..Len(o) : Append(o, c)[i] = o[i]
BY AppendProperties

ChildNames(o, a, c) ==
  /\ o \in Seq(STRING) /\ c \in Seq(STRING) /\ c = Sources(o, a, "child")
  /\ DOMAIN c = 1..Len(c) /\ DOMAIN AttrChildren(o, a) = 1..Len(c)
  /\ \A i \in 1..Len(c) : /\ AttrChildren(o, a)[i] = Append(o, c[i])
                          /\ c[i] \in STRING /\ AttrChildren(o, a)[i] \in Seq(STRING)

LEMMA ChildNamesAre ==
  ASSUME DocIsOk, NEW o, Has(o), NEW a \in CtxAttr
  PROVE  ChildNames(o, a, Sources(o, a, "child"))
<1>1. o \in Seq(STRING) /\ ctxDoc[o] \in CtxElem
  BY DEF DocIsOk, Has
<1>2. Sources(o, a, "child") \in Seq(STRING)
  BY <1>1 DEF CtxElem, Sources
<1>3. PICK c \in Seq(STRING) : c = Sources(o, a, "child")
  BY <1>2
<1>4. AttrChildren(o, a) = [i \in DOMAIN c |-> Append(o, c[i])]
  BY <1>3 DEF AttrChildren
<1>5. DOMAIN c = 1..Len(c) /\ \A i \in 1..Len(c) : c[i] \in STRING
  OBVIOUS
<1>6. \A i \in 1..Len(c) : AttrChildren(o, a)[i] = Append(o, c[i]) /\ Append(o, c[i]) \in Seq(STRING)
  BY <1>1, <1>4, <1>5, NameBelow
<1>7. DOMAIN AttrChildren(o, a) = 1..Len(c)
  BY <1>4, <1>5
<1> QED BY <1>1, <1>3, <1>5, <1>6, <1>7 DEF ChildNames

(* The function of traverse, on the names of at least m parts.             *)
TravSubs(o, a, f) == [i \in DOMAIN AttrChildren(o, a) |-> f[AttrChildren(o, a)[i]]]

Names(m) == {x \in Seq(STRING) : Len(x) >= m}

TravFrom(root, a, m, f) == f = [o \in Names(m) |-> TraverseOne(root, o, a, TravSubs(o, a, f))]

LEMMA NothingThere ==
  ASSUME NEW root, NEW o, NEW a, NEW subs, ~Has(o)
  PROVE  TraverseOne(root, o, a, subs) = Resolved(FALSE, <<>>, {})
BY DEF TraverseOne

LEMMA SubsAgree ==
  ASSUME DocIsOk, NEW o, Has(o), NEW a \in CtxAttr, NEW m \in Nat, Len(o) + 1 >= m, NEW f, NEW g,
         \A x \in Names(m) : g[x] = f[x]
  PROVE  TravSubs(o, a, g) = TravSubs(o, a, f)
<1>1. PICK c : ChildNames(o, a, c)
  BY ChildNamesAre
<1>2. \A i \in DOMAIN AttrChildren(o, a) : AttrChildren(o, a)[i] \in Names(m)
  <2> SUFFICES ASSUME NEW i \in 1..Len(c) PROVE AttrChildren(o, a)[i] \in Names(m)
    BY <1>1 DEF ChildNames
  <2>1. /\ o \in Seq(STRING) /\ c[i] \in STRING /\ AttrChildren(o, a)[i] \in Seq(STRING)
        /\ AttrChildren(o, a)[i] = Append(o, c[i])
    BY <1>1 DEF ChildNames
  <2>2. Len(AttrChildren(o, a)[i]) = Len(o) + 1
    BY <2>1, NameBelow
  <2> QED BY <2>1, <2>2 DEF Names
<1> QED BY <1>2 DEF TravSubs

LEMMA TravExists ==
  ASSUME DocIsOk, NEW root, NEW a \in CtxAttr
  PROVE  \E f : TravFrom(root, a, 0, f)
<1>1. PICK h \in Nat : \A o \in DOMAIN ctxDoc : Len(o) <= h
  BY LongestOf DEF DocIsOk
<1> DEFINE Bad == {n \in Nat : n <= h + 1 /\ ~\E f : TravFrom(root, a, h + 1 - n, f)}
<1>2. ASSUME Bad # {} PROVE FALSE
  <2>1. PICK n \in Bad : \A y \in Bad : n <= y
    BY <1>2, LeastOf
  <2>2. n \in Nat /\ n <= h + 1 /\ ~\E f : TravFrom(root, a, h + 1 - n, f)
    BY <2>1
  <2>3. n # 0
    <3> DEFINE f == [o \in Names(h + 1) |-> Resolved(FALSE, <<>>, {})]
    <3>1. ASSUME NEW o \in Names(h + 1) PROVE TraverseOne(root, o, a, TravSubs(o, a, f)) = Resolved(FALSE, <<>>, {})
      <4>1. ~Has(o)
        <5>1. Len(o) >= h + 1 /\ Len(o) \in Nat
          BY DEF Names
        <5>2. ASSUME o \in DOMAIN ctxDoc PROVE FALSE
          BY <1>1, <5>1, <5>2
        <5> QED BY <5>2 DEF Has
      <4> QED BY <4>1, NothingThere
    <3>2. TravFrom(root, a, h + 1, f)
      BY <3>1 DEF TravFrom
    <3>3. h + 1 - 0 = h + 1
      OBVIOUS
    <3> HIDE DEF f
    <3> QED BY <2>2, <3>2, <3>3
  <2>4. n - 1 \in Nat /\ n - 1 <= h + 1 /\ n - 1 \notin Bad
    BY <2>1, <2>2, <2>3
  <2>5. PICK f : TravFrom(root, a, h + 1 - (n - 1), f)
    BY <2>4
  <2>6. PICK m \in Nat : m = h + 1 - n
    BY <2>2
  <2>7. h + 1 - (n - 1) = m + 1
    BY <2>2, <2>6
  <2>8. f = [o \in Names(m + 1) |-> TraverseOne(root, o, a, TravSubs(o, a, f))]
    BY <2>5, <2>7 DEF TravFrom
  <2> DEFINE g == [o \in Names(m) |-> IF o \in Names(m + 1) THEN f[o]
                                     ELSE TraverseOne(root, o, a, TravSubs(o, a, f))]
  <2>9. Names(m + 1) \subseteq Names(m)
    BY DEF Names
  <2>10. \A x \in Names(m + 1) : g[x] = f[x]
    BY <2>9
  <2>11. \A o \in Names(m) : g[o] = TraverseOne(root, o, a, TravSubs(o, a, f))
    BY <2>8
  <2>12. g = [o \in Names(m) |-> g[o]]
    OBVIOUS
  <2> HIDE DEF g
  <2>13. ASSUME NEW o \in Names(m) PROVE g[o] = TraverseOne(root, o, a, TravSubs(o, a, g))
    <3>1. CASE Has(o)
      <4>1. PICK k \in Nat : k = m + 1
        OBVIOUS
      <4>2. Len(o) + 1 >= k
        BY <4>1 DEF Names
      <4>3. \A x \in Names(k) : g[x] = f[x]
        BY <2>10, <4>1
      <4>4. TravSubs(o, a, g) = TravSubs(o, a, f)
        BY <3>1, <4>2, <4>3, SubsAgree
      <4> QED BY <2>11, <4>4
    <3>2. CASE ~Has(o)
      BY <2>11, <3>2, NothingThere
    <3> QED BY <3>1, <3>2
  <2>14. TravFrom(root, a, m, g)
    BY <2>12, <2>13 DEF TravFrom
  <2> QED BY <2>2, <2>6, <2>14
<1>3. h + 1 \in Nat /\ h + 1 <= h + 1 /\ h + 1 - (h + 1) = 0
  OBVIOUS
<1> QED BY <1>2, <1>3

LEMMA TraverseIs ==
  ASSUME DocIsOk, NEW root, NEW a \in CtxAttr, NEW o \in Seq(STRING)
  PROVE  Traverse(root, o, a) =
           TraverseOne(root, o, a,
             [i \in DOMAIN AttrChildren(o, a) |-> Traverse(root, AttrChildren(o, a)[i], a)])
<1> DEFINE F == CHOOSE f : f = [x \in Seq(STRING) |->
                   TraverseOne(root, x, a, [i \in DOMAIN AttrChildren(x, a) |-> f[AttrChildren(x, a)[i]]])]
<1>1. Names(0) = Seq(STRING)
  BY DEF Names
<1>2. \E f : f = [x \in Seq(STRING) |->
                   TraverseOne(root, x, a, [i \in DOMAIN AttrChildren(x, a) |-> f[AttrChildren(x, a)[i]]])]
  <2>1. PICK f : TravFrom(root, a, 0, f)
    BY TravExists
  <2>2. f = [x \in Seq(STRING) |-> TraverseOne(root, x, a, TravSubs(x, a, f))]
    BY <1>1, <2>1 DEF TravFrom
  <2>3. f = [x \in Seq(STRING) |->
              TraverseOne(root, x, a, [i \in DOMAIN AttrChildren(x, a) |-> f[AttrChildren(x, a)[i]]])]
    BY <2>2, Zenon DEF TravSubs
  <2> QED BY <2>3, Zenon
<1>3. F = [x \in Seq(STRING) |->
            TraverseOne(root, x, a, [i \in DOMAIN AttrChildren(x, a) |-> F[AttrChildren(x, a)[i]]])]
  BY <1>2, Zenon
<1>4. \A x : Traverse(root, x, a) = F[x]
  BY Zenon DEF Traverse
<1> HIDE DEF F
<1>5. F[o] = TraverseOne(root, o, a, [i \in DOMAIN AttrChildren(o, a) |-> F[AttrChildren(o, a)[i]]])
  BY <1>3, Zenon
<1>6. [i \in DOMAIN AttrChildren(o, a) |-> F[AttrChildren(o, a)[i]]]
      = [i \in DOMAIN AttrChildren(o, a) |-> Traverse(root, AttrChildren(o, a)[i], a)]
  BY <1>4
<1> QED BY <1>4, <1>5, <1>6, Zenon

-----------------------------------------------------------------------------
(* Names that begin with a name, and what is listed below it.              *)
LEMMA PartsOf ==
  ASSUME NEW p \in Seq(STRING), NEW n \in 0..Len(p)
  PROVE  /\ SubSeq(p, 1, n) \in Seq(STRING) /\ Len(SubSeq(p, 1, n)) = n
         /\ \A i \in 1..n : SubSeq(p, 1, n)[i] = p[i]
<1>1. /\ Len(p) \in Nat /\ n \in Int /\ n \in Nat /\ 1 \in Int /\ n <= Len(p)
      /\ \A i \in 1..n : p[i] \in STRING
  OBVIOUS
<1>2. /\ SubSeq(p, 1, n) \in Seq(STRING)
      /\ Len(SubSeq(p, 1, n)) = (IF 1 <= n THEN n - 1 + 1 ELSE 0)
      /\ \A i \in 1..(n - 1 + 1) : SubSeq(p, 1, n)[i] = p[1 + i - 1]
  BY <1>1, SubSeqProperties
<1>3. n - 1 + 1 = n /\ \A i \in 1..n : 1 + i - 1 = i
  BY <1>1
<1> QED BY <1>1, <1>2, <1>3

LEMMA PrefixIs ==
  ASSUME NEW o \in Seq(STRING), NEW p \in Seq(STRING)
  PROVE  /\ IsPrefix(o, p) <=> Len(o) <= Len(p) /\ \A i \in 1..Len(o) : p[i] = o[i]
         /\ IsPrefix(o, p) => SubSeq(p, 1, Len(o)) = o
<1>1. SubSeq(o, 1, Len(o)) = o /\ Len(o) \in Nat /\ Len(p) \in Nat
  BY SubSeqFull
<1>2. IsPrefix(o, p) <=> Len(o) <= Len(p) /\ SubSeq(p, 1, Len(o)) = o
  BY <1>1 DEF IsPrefix
<1>3. ASSUME Len(o) <= Len(p)
      PROVE  SubSeq(p, 1, Len(o)) = o <=> \A i \in 1..Len(o) : p[i] = o[i]
  <2>1. PICK q \in Seq(STRING) : /\ q = SubSeq(p, 1, Len(o)) /\ Len(q) = Len(o)
                                 /\ \A i \in 1..Len(o) : q[i] = p[i]
    <3>1. Len(o) \in 0..Len(p)
      BY <1>1, <1>3
    <3> QED BY <3>1, PartsOf
  <2>2. ASSUME \A i \in 1..Len(o) : p[i] = o[i] PROVE q = o
    <3>1. Len(q) = Len(o) /\ \A i \in 1..Len(q) : q[i] = o[i]
      BY <2>1, <2>2
    <3> QED BY <3>1, SeqEqual
  <2> QED BY <2>1, <2>2
<1> QED BY <1>2, <1>3

LEMMA PrefixBelow ==
  ASSUME NEW o \in Seq(STRING), NEW p \in Seq(STRING), NEW k \in STRING
  PROVE  IsPrefix(Append(o, k), p) <=>
           IsPrefix(o, p) /\ Len(o) + 1 <= Len(p) /\ p[Len(o) + 1] = k
<1>1. PICK b \in Seq(STRING) : b = Append(o, k)
  BY NameBelow
<1>2. /\ Len(o) \in Nat /\ Len(b) = Len(o) + 1 /\ b[Len(o) + 1] = k /\ Len(p) \in Nat
      /\ \A i \in 1..Len(o) : b[i] = o[i]
  BY <1>1, NameBelow
<1>3. 1..(Len(o) + 1) = 1..Len(o) \cup {Len(o) + 1}
  BY <1>2
<1>4. IsPrefix(o, p) <=> Len(o) <= Len(p) /\ \A i \in 1..Len(o) : p[i] = o[i]
  BY PrefixIs
<1>5. IsPrefix(b, p) <=> Len(b) <= Len(p) /\ \A i \in 1..Len(b) : p[i] = b[i]
  BY PrefixIs
<1>6. (\A i \in 1..Len(b) : p[i] = b[i]) <=> p[Len(o) + 1] = k /\ \A i \in 1..Len(o) : p[i] = o[i]
  BY <1>2, <1>3
<1> DEFINE Same == \A i \in 1..Len(o) : p[i] = o[i]
<1>7. IsPrefix(o, p) <=> Len(o) <= Len(p) /\ Same
  BY <1>4
<1>8. IsPrefix(b, p) <=> Len(b) <= Len(p) /\ p[Len(o) + 1] = k /\ Same
  BY <1>5, <1>6
<1> HIDE DEF Same
<1>9. Len(b) <= Len(p) <=> Len(o) <= Len(p) /\ Len(o) + 1 <= Len(p)
  BY <1>2
<1>10. IsPrefix(b, p) <=> IsPrefix(o, p) /\ Len(o) + 1 <= Len(p) /\ p[Len(o) + 1] = k
  BY <1>2, <1>7, <1>8, <1>9
<1> QED BY <1>1, <1>10

StepOf(p, n, a) ==
  Has(SubSeq(p, 1, n)) /\ p[n+1] \in Range(Sources(SubSeq(p, 1, n), a, "child"))

LEMMA ListedIs ==
  ASSUME NEW o, NEW a, NEW p
  PROVE  p \in Listed(o, a) <=> /\ p \in DOMAIN ctxDoc /\ IsPrefix(o, p)
                                /\ \A n \in Len(o)..(Len(p)-1) : StepOf(p, n, a)
BY DEF Listed, StepOf

LEMMA ListedBelow ==
  ASSUME DocIsOk, NEW o, Has(o), NEW a \in CtxAttr, NEW k \in STRING, NEW p
  PROVE  /\ p \in Listed(Append(o, k), a) => /\ p \in Seq(STRING) /\ Len(o) + 1 <= Len(p)
                                             /\ p[Len(o) + 1] = k
         /\ p \in Listed(Append(o, k), a) /\ k \in Range(Sources(o, a, "child")) => p \in Listed(o, a)
         /\ p \in Listed(o, a) /\ Len(o) + 1 <= Len(p) /\ p[Len(o) + 1] = k
            => p \in Listed(Append(o, k), a) /\ k \in Range(Sources(o, a, "child"))
<1>1. o \in Seq(STRING) /\ DOMAIN ctxDoc \subseteq Seq(STRING) /\ Len(o) \in Nat
  BY DEF DocIsOk, Has
<1>2. SUFFICES ASSUME p \in DOMAIN ctxDoc, p \in Seq(STRING)
      PROVE  /\ p \in Listed(Append(o, k), a) => Len(o) + 1 <= Len(p) /\ p[Len(o) + 1] = k
             /\ p \in Listed(Append(o, k), a) /\ k \in Range(Sources(o, a, "child")) => p \in Listed(o, a)
             /\ p \in Listed(o, a) /\ Len(o) + 1 <= Len(p) /\ p[Len(o) + 1] = k
                => p \in Listed(Append(o, k), a) /\ k \in Range(Sources(o, a, "child"))
  BY <1>1, ListedIs
<1>3. PICK b : b = Append(o, k) /\ Len(b) = Len(o) + 1
  BY <1>1, NameBelow
<1>4. IsPrefix(b, p) <=> IsPrefix(o, p) /\ Len(o) + 1 <= Len(p) /\ p[Len(o) + 1] = k
  BY <1>1, <1>2, <1>3, PrefixBelow
<1>5. IsPrefix(o, p) => SubSeq(p, 1, Len(o)) = o
  BY <1>1, <1>2, PrefixIs
<1>6. p \in Listed(b, a) <=> IsPrefix(b, p) /\ \A n \in (Len(o) + 1)..(Len(p)-1) : StepOf(p, n, a)
  BY <1>2, <1>3, ListedIs
<1>7. p \in Listed(o, a) <=> IsPrefix(o, p) /\ \A n \in Len(o)..(Len(p)-1) : StepOf(p, n, a)
  BY <1>2, ListedIs
<1>8. IsPrefix(o, p) /\ p[Len(o) + 1] = k =>
        (StepOf(p, Len(o), a) <=> k \in Range(Sources(o, a, "child")))
  BY <1>5 DEF StepOf
<1>9. Len(p) \in Nat
  BY <1>2
<1>10. Len(o) + 1 <= Len(p) =>
         Len(o)..(Len(p)-1) = {Len(o)} \cup ((Len(o) + 1)..(Len(p)-1))
  BY <1>1, <1>9
<1> HIDE DEF StepOf
<1>11. p \in Listed(b, a) => Len(o) + 1 <= Len(p) /\ p[Len(o) + 1] = k
  BY <1>4, <1>6
<1>12. p \in Listed(b, a) /\ k \in Range(Sources(o, a, "child")) => p \in Listed(o, a)
  BY <1>4, <1>6, <1>7, <1>8, <1>10
<1>13. p \in Listed(o, a) /\ Len(o) + 1 <= Len(p) /\ p[Len(o) + 1] = k
       => p \in Listed(b, a) /\ k \in Range(Sources(o, a, "child"))
  BY <1>4, <1>6, <1>7, <1>8, <1>10
<1> QED BY <1>3, <1>11, <1>12, <1>13

LEMMA ListedHere ==
  ASSUME DocIsOk, NEW o, Has(o), NEW a \in CtxAttr
  PROVE  /\ o \in Listed(o, a)
         /\ \A p \in Listed(o, a) : p # o => Len(o) + 1 <= Len(p) /\ p[Len(o) + 1] \in STRING
<1>1. o \in Seq(STRING) /\ o \in DOMAIN ctxDoc /\ DOMAIN ctxDoc \subseteq Seq(STRING) /\ Len(o) \in Nat
  BY DEF DocIsOk, Has
<1>2. IsPrefix(o, o)
  BY <1>1, PrefixIs
<1>3. Len(o)..(Len(o)-1) = {}
  BY <1>1
<1>4. ASSUME NEW p \in Listed(o, a), p # o PROVE Len(o) + 1 <= Len(p) /\ p[Len(o) + 1] \in STRING
  <2>1. p \in Seq(STRING) /\ IsPrefix(o, p)
    BY <1>1, ListedIs
  <2>2. Len(o) <= Len(p) /\ \A i \in 1..Len(o) : p[i] = o[i]
    BY <1>1, <2>1, PrefixIs
  <2>3. Len(o) # Len(p)
    BY <1>1, <1>4, <2>1, <2>2, SeqEqual
  <2>4. Len(p) \in Nat /\ Len(o) + 1 <= Len(p) /\ Len(o) + 1 \in 1..Len(p)
    BY <1>1, <2>1, <2>2, <2>3
  <2> QED BY <2>1, <2>4
<1> QED BY <1>1, <1>2, <1>3, <1>4, ListedIs

-----------------------------------------------------------------------------
(* The devices at and below an object are its own and those of its         *)
(* children for the attribute.                                             *)
LEMMA DevicesAre ==
  ASSUME NEW o, NEW a, NEW x
  PROVE  x \in Devices(o, a) <=>
           \E p \in Listed(o, a) : \E d \in Range(Sources(p, a, "device")) : x = <<p, d>>
BY DEF Devices

LEMMA OwnDevices ==
  ASSUME DocIsOk, NEW o, Has(o), NEW a \in CtxAttr
  PROVE  /\ ObjDevs(o, a) \in Seq(Seq(STRING) \X STRING)
         /\ \A x : x \in Range(ObjDevs(o, a)) <=> \E d \in Range(Sources(o, a, "device")) : x = <<o, d>>
         /\ IsInjective(Sources(o, a, "device")) => IsInjective(ObjDevs(o, a))
<1>1. o \in Seq(STRING) /\ ctxDoc[o] \in CtxElem
  BY DEF DocIsOk, Has
<1>2. Sources(o, a, "device") \in Seq(STRING)
  BY <1>1 DEF CtxElem, Sources
<1>3. PICK s \in Seq(STRING) : s = Sources(o, a, "device")
  BY <1>2
<1>4. ObjDevs(o, a) = [i \in DOMAIN s |-> <<o, s[i]>>]
  BY <1>3 DEF ObjDevs
<1>5. DOMAIN s = 1..Len(s) /\ Len(s) \in Nat /\ \A i \in 1..Len(s) : s[i] \in STRING
  OBVIOUS
<1>6. PICK t : t = ObjDevs(o, a) /\ t = [i \in 1..Len(s) |-> <<o, s[i]>>]
  BY <1>4, <1>5
<1>7. DOMAIN t = 1..Len(s) /\ \A i \in 1..Len(s) : t[i] = <<o, s[i]>>
  BY <1>6
<1>8. \A i \in 1..Len(s) : <<o, s[i]>> \in Seq(STRING) \X STRING
  BY <1>1, <1>5
<1>9. t \in [1..Len(s) -> Seq(STRING) \X STRING]
  BY <1>6, <1>8
<1>10. t \in Seq(Seq(STRING) \X STRING)
  <2>1. PICK T : T = Seq(STRING) \X STRING
    OBVIOUS
  <2>2. t \in [1..Len(s) -> T]
    BY <1>9, <2>1
  <2>3. t \in UNION {[1..m -> T] : m \in Nat}
    BY <1>5, <2>2
  <2>4. t \in Seq(T)
    BY <2>3, SeqDef, Zenon
  <2> QED BY <2>1, <2>4
<1>11. ASSUME NEW x PROVE x \in Range(t) <=> \E d \in Range(s) : x = <<o, d>>
  BY <1>5, <1>7 DEF Range
<1>12. ASSUME IsInjective(s) PROVE IsInjective(t)
  BY <1>5, <1>7, <1>12 DEF IsInjective
<1> QED BY <1>3, <1>6, <1>10, <1>11, <1>12

Kid(o, c, i, a) == Devices(Append(o, c[i]), a)

Parts(o, a, c) ==
  /\ \A x : x \in Devices(o, a) <=> \/ x \in Range(ObjDevs(o, a))
                                    \/ \E i \in 1..Len(c) : x \in Kid(o, c, i, a)
  /\ \A i \in 1..Len(c) : Kid(o, c, i, a) \cap Range(ObjDevs(o, a)) = {}
  /\ \A i, j \in 1..Len(c) : c[i] # c[j] => Kid(o, c, i, a) \cap Kid(o, c, j, a) = {}

LEMMA PartsAre ==
  ASSUME DocIsOk, NEW o, Has(o), NEW a \in CtxAttr, NEW c, ChildNames(o, a, c)
  PROVE  Parts(o, a, c)
<1>1. /\ o \in Seq(STRING) /\ c \in Seq(STRING) /\ c = Sources(o, a, "child") /\ DOMAIN c = 1..Len(c)
      /\ \A i \in 1..Len(c) : c[i] \in STRING /\ c[i] \in Range(Sources(o, a, "child"))
  BY DEF ChildNames, Range
<1>2. ASSUME NEW i \in 1..Len(c), NEW x \in Kid(o, c, i, a)
      PROVE  /\ \E p \in Listed(o, a) : \E d \in Range(Sources(p, a, "device")) : x = <<p, d>>
             /\ x[1] \in Seq(STRING) /\ Len(o) + 1 <= Len(x[1]) /\ x[1][Len(o) + 1] = c[i]
  <2>1. PICK p \in Listed(Append(o, c[i]), a) : \E d \in Range(Sources(p, a, "device")) : x = <<p, d>>
    BY DevicesAre DEF Kid
  <2>2. c[i] \in STRING /\ c[i] \in Range(Sources(o, a, "child"))
    BY <1>1
  <2>3. p \in Listed(o, a) /\ p \in Seq(STRING) /\ Len(o) + 1 <= Len(p) /\ p[Len(o) + 1] = c[i]
    BY <2>2, ListedBelow
  <2>4. x[1] = p
    BY <2>1
  <2> QED BY <2>1, <2>3, <2>4
<1>3. ASSUME NEW x \in Range(ObjDevs(o, a)) PROVE x[1] = o /\ x \in Devices(o, a)
  <2>1. PICK d \in Range(Sources(o, a, "device")) : x = <<o, d>>
    BY OwnDevices
  <2>2. o \in Listed(o, a)
    BY ListedHere
  <2> QED BY <2>1, <2>2, DevicesAre
<1>4. ASSUME NEW x \in Devices(o, a), x \notin Range(ObjDevs(o, a)) PROVE \E i \in 1..Len(c) : x \in Kid(o, c, i, a)
  <2>1. PICK p \in Listed(o, a) : \E d \in Range(Sources(p, a, "device")) : x = <<p, d>>
    BY DevicesAre
  <2>2. p # o
    BY <1>4, <2>1, OwnDevices
  <2>3. PICK k \in STRING : k = p[Len(o) + 1] /\ Len(o) + 1 <= Len(p)
    BY <2>2, ListedHere
  <2>4. p \in Listed(Append(o, k), a) /\ k \in Range(Sources(o, a, "child"))
    BY <2>3, ListedBelow
  <2>5. PICK i \in 1..Len(c) : k = c[i]
    BY <1>1, <2>4 DEF Range
  <2>6. x \in Devices(Append(o, k), a)
    BY <2>1, <2>4, DevicesAre
  <2> QED BY <2>5, <2>6 DEF Kid
<1>5. ASSUME NEW x PROVE x \in Devices(o, a) <=> \/ x \in Range(ObjDevs(o, a))
                                               \/ \E i \in 1..Len(c) : x \in Kid(o, c, i, a)
  BY <1>2, <1>3, <1>4, DevicesAre
<1>6. ASSUME NEW i \in 1..Len(c), NEW x, x \in Kid(o, c, i, a), x \in Range(ObjDevs(o, a)) PROVE FALSE
  <2>1. Len(o) + 1 <= Len(o) /\ Len(o) \in Nat
    BY <1>1, <1>2, <1>3, <1>6
  <2> QED BY <2>1
<1>7. ASSUME NEW i \in 1..Len(c), NEW j \in 1..Len(c), c[i] # c[j],
             NEW x, x \in Kid(o, c, i, a), x \in Kid(o, c, j, a)
      PROVE  FALSE
  BY <1>2, <1>7
<1> QED BY <1>5, <1>6, <1>7 DEF Parts

-----------------------------------------------------------------------------
(* What traverse comes to for an object, of what it comes to for children. *)
SoundAt(root, o, a, l, r) ==
  /\ l \in Seq(Seq(STRING) \X STRING) /\ IsInjective(l)
  /\ \A x \in Range(l) : x[1] \in Seq(STRING) /\ ~Elsewhere(root, x[1])
  /\ \A p \in r : p \in Listed(o, a) /\ Elsewhere(root, p)
  /\ \A x : x \in Devices(o, a) <=> x \in Range(l) \/ \E p \in r : x \in Devices(p, a)
  /\ \A p \in r : Devices(p, a) \cap Range(l) = {}
  /\ \A p, q \in r : p # q => Devices(p, a) \cap Devices(q, a) = {}

LEMMA SoundJoin ==
  ASSUME DocIsOk, NEW root, NEW o, Has(o), NEW a \in CtxAttr, ~Elsewhere(root, o),
         NEW c, ChildNames(o, a, c), IsInjective(c), IsInjective(Sources(o, a, "device")),
         NEW ls, NEW rs, ls = [i \in 1..Len(c) |-> ls[i]],
         \A i \in 1..Len(c) : SoundAt(root, Append(o, c[i]), a, ls[i], rs[i])
  PROVE  SoundAt(root, o, a, ObjDevs(o, a) \o FlattenSeq(ls), UNION {rs[i] : i \in 1..Len(c)})
<1> DEFINE T == Seq(STRING) \X STRING
           K(i) == Kid(o, c, i, a)
<1>1. /\ o \in Seq(STRING) /\ c \in Seq(STRING) /\ c = Sources(o, a, "child") /\ DOMAIN c = 1..Len(c)
      /\ Len(c) \in Nat
      /\ \A i \in 1..Len(c) : c[i] \in STRING /\ c[i] \in Range(Sources(o, a, "child"))
  BY DEF ChildNames, Range
<1>2. \A i, j \in 1..Len(c) : i # j => c[i] # c[j]
  BY <1>1 DEF IsInjective
<1>3. Parts(o, a, c)
  BY PartsAre
<1>4. PICK l : /\ l = ObjDevs(o, a) /\ l \in Seq(T) /\ IsInjective(l)
               /\ \A x \in Range(l) : x[1] = o
  BY OwnDevices
<1>5. /\ \A x : x \in Devices(o, a) <=> x \in Range(l) \/ \E i \in 1..Len(c) : x \in K(i)
      /\ \A i \in 1..Len(c) : K(i) \cap Range(l) = {}
      /\ \A i, j \in 1..Len(c) : i # j => K(i) \cap K(j) = {}
  BY <1>2, <1>3, <1>4, Zenon DEF Parts
<1>6. ls \in Seq(Seq(T)) /\ Len(ls) = Len(c)
  <2>1. \A i \in 1..Len(c) : ls[i] \in Seq(T)
    BY DEF SoundAt
  <2>2. ls \in [1..Len(c) -> Seq(T)]
    BY <2>1
  <2>3. ls \in UNION {[1..m -> Seq(T)] : m \in Nat}
    BY <1>1, <2>2
  <2>4. ls \in Seq(Seq(T))
    BY <2>3, SeqDef, Zenon
  <2>5. DOMAIN ls = 1..Len(c)
    BY <2>2
  <2> QED BY <1>1, <2>4, <2>5, LenProperties
<1>7. \A i \in 1..Len(c) :
        /\ IsInjective(ls[i])
        /\ \A x \in Range(ls[i]) : x[1] \in Seq(STRING) /\ ~Elsewhere(root, x[1]) /\ x \in K(i)
        /\ \A p \in rs[i] : p \in Listed(o, a) /\ Elsewhere(root, p)
        /\ \A p \in rs[i] : \A x \in Devices(p, a) : x \in K(i) /\ x \notin Range(ls[i])
        /\ \A x \in K(i) : x \in Range(ls[i]) \/ \E p \in rs[i] : x \in Devices(p, a)
        /\ \A p, q \in rs[i] : p # q => Devices(p, a) \cap Devices(q, a) = {}
  <2> SUFFICES ASSUME NEW i \in 1..Len(c)
      PROVE /\ IsInjective(ls[i])
            /\ \A x \in Range(ls[i]) : x[1] \in Seq(STRING) /\ ~Elsewhere(root, x[1]) /\ x \in K(i)
            /\ \A p \in rs[i] : p \in Listed(o, a) /\ Elsewhere(root, p)
            /\ \A p \in rs[i] : \A x \in Devices(p, a) : x \in K(i) /\ x \notin Range(ls[i])
            /\ \A x \in K(i) : x \in Range(ls[i]) \/ \E p \in rs[i] : x \in Devices(p, a)
            /\ \A p, q \in rs[i] : p # q => Devices(p, a) \cap Devices(q, a) = {}
    OBVIOUS
  <2>1. SoundAt(root, Append(o, c[i]), a, ls[i], rs[i])
    OBVIOUS
  <2>2. \A p \in rs[i] : p \in Listed(Append(o, c[i]), a) /\ Elsewhere(root, p)
    BY <2>1 DEF SoundAt
  <2>3. \A p \in rs[i] : p \in Listed(o, a)
    BY <1>1, <2>2, ListedBelow
  <2>4. /\ IsInjective(ls[i])
        /\ \A x \in Range(ls[i]) : x[1] \in Seq(STRING) /\ ~Elsewhere(root, x[1])
        /\ \A x : x \in K(i) <=> x \in Range(ls[i]) \/ \E p \in rs[i] : x \in Devices(p, a)
        /\ \A p \in rs[i] : Devices(p, a) \cap Range(ls[i]) = {}
        /\ \A p, q \in rs[i] : p # q => Devices(p, a) \cap Devices(q, a) = {}
    BY <2>1, Zenon DEF SoundAt, Kid
  <2> HIDE DEF K
  <2> QED BY <2>2, <2>3, <2>4
<1>8. PICK j \in Seq(T) : /\ j = FlattenSeq(ls)
                          /\ \A x : x \in Range(j) <=> \E i \in 1..Len(c) : x \in Range(ls[i])
                          /\ (\A i \in 1..Len(c) : IsInjective(ls[i]))
                             /\ (\A i, k \in 1..Len(c) : i # k => Range(ls[i]) \cap Range(ls[k]) = {})
                             => IsInjective(j)
  BY <1>6, FlatFacts DEF FlatUpTo
<1> HIDE DEF K, T
<1>9. \A i, k \in 1..Len(c) : i # k => Range(ls[i]) \cap Range(ls[k]) = {}
  BY <1>5, <1>7
<1>10. IsInjective(j)
  BY <1>7, <1>8, <1>9
<1>11. Range(l) \cap Range(j) = {}
  BY <1>5, <1>7, <1>8
<1>12. PICK t : /\ t = l \o j /\ t \in Seq(T) /\ IsInjective(t)
                /\ \A x : x \in Range(t) <=> x \in Range(l) \/ x \in Range(j)
  <2>1. /\ l \o j \in Seq(T) /\ Range(l \o j) = Range(l) \cup Range(j)
        /\ IsInjective(l) /\ IsInjective(j) /\ Range(l) \cap Range(j) = {} => IsInjective(l \o j)
    BY <1>4, JoinFacts
  <2> QED BY <1>4, <1>10, <1>11, <2>1
<1>13. PICK r : \A p : p \in r <=> \E i \in 1..Len(c) : p \in rs[i]
  <2>1. \A p : p \in UNION {rs[i] : i \in 1..Len(c)} <=> \E i \in 1..Len(c) : p \in rs[i]
    OBVIOUS
  <2> QED BY <2>1, Zenon
<1>14. r = UNION {rs[i] : i \in 1..Len(c)}
  BY <1>13
<1>15. \A x \in Range(t) : x[1] \in Seq(STRING) /\ ~Elsewhere(root, x[1])
  BY <1>1, <1>4, <1>7, <1>8, <1>12
<1>16. \A p \in r : p \in Listed(o, a) /\ Elsewhere(root, p)
  BY <1>7, <1>13
<1>17. ASSUME NEW x
       PROVE  x \in Devices(o, a) <=> x \in Range(t) \/ \E p \in r : x \in Devices(p, a)
  <2>1. ASSUME x \in Devices(o, a), x \notin Range(t) PROVE \E p \in r : x \in Devices(p, a)
    <3>1. x \notin Range(l)
      BY <1>12, <2>1
    <3>2. PICK i \in 1..Len(c) : x \in K(i)
      BY <1>5, <2>1, <3>1
    <3>3. x \notin Range(ls[i])
      BY <1>8, <1>12, <2>1
    <3>4. PICK p \in rs[i] : x \in Devices(p, a)
      BY <1>7, <3>2, <3>3
    <3> QED BY <1>13, <3>4
  <2>2. ASSUME x \in Range(t) PROVE x \in Devices(o, a)
    BY <1>5, <1>7, <1>8, <1>12, <2>2
  <2>3. ASSUME NEW p \in r, x \in Devices(p, a) PROVE x \in Devices(o, a)
    BY <1>5, <1>7, <1>13, <2>3
  <2> QED BY <2>1, <2>2, <2>3
<1>18. ASSUME NEW p \in r, NEW x, x \in Devices(p, a), x \in Range(t) PROVE FALSE
  <2>1. PICK i \in 1..Len(c) : p \in rs[i]
    BY <1>13
  <2>2. x \in K(i) /\ x \notin Range(ls[i])
    BY <1>7, <1>18, <2>1
  <2>3. CASE x \in Range(l)
    BY <1>5, <2>2, <2>3
  <2>4. CASE x \in Range(j)
    <3>1. PICK k \in 1..Len(c) : x \in Range(ls[k])
      BY <1>8, <2>4
    <3>2. x \in K(k) /\ k # i
      BY <1>7, <2>2, <3>1
    <3> QED BY <1>5, <2>2, <3>2
  <2> QED BY <1>12, <1>18, <2>3, <2>4
<1>19. ASSUME NEW p \in r, NEW q \in r, p # q, NEW x, x \in Devices(p, a), x \in Devices(q, a) PROVE FALSE
  <2>1. PICK i \in 1..Len(c) : p \in rs[i]
    BY <1>13
  <2>2. PICK k \in 1..Len(c) : q \in rs[k]
    BY <1>13
  <2>3. x \in K(i) /\ x \in K(k)
    BY <1>7, <1>19, <2>1, <2>2
  <2>4. i = k
    BY <1>5, <2>3
  <2> QED BY <1>7, <1>19, <2>1, <2>2, <2>4
<1>20. SoundAt(root, o, a, t, r)
  BY <1>12, <1>15, <1>16, <1>17, <1>18, <1>19 DEF SoundAt, T
<1> QED BY <1>4, <1>8, <1>12, <1>14, <1>20

TravFine(root, o, a) ==
  Traverse(root, o, a).ok = TRUE => SoundAt(root, o, a, Traverse(root, o, a).local, Traverse(root, o, a).remote)

LEMMA SoundElsewhere ==
  ASSUME DocIsOk, NEW root, NEW o, Has(o), NEW a \in CtxAttr, Elsewhere(root, o)
  PROVE  SoundAt(root, o, a, <<>>, {o})
<1>1. <<>> \in Seq(Seq(STRING) \X STRING) /\ IsInjective(<<>>) /\ Range(<<>>) = {}
  BY DEF IsInjective, Range
<1>2. o \in Listed(o, a)
  BY ListedHere
<1>3. \A x : x \in Devices(o, a) <=> x \in {} \/ \E p \in {o} : x \in Devices(p, a)
  OBVIOUS
<1> QED BY <1>1, <1>2, <1>3 DEF SoundAt

LEMMA TraverseStep ==
  ASSUME DocIsOk, ListsOnce, NEW root, NEW a \in CtxAttr, NEW o, Has(o),
         \A k \in STRING : TravFine(root, Append(o, k), a)
  PROVE  TravFine(root, o, a)
<1>1. PICK c : c = Sources(o, a, "child") /\ ChildNames(o, a, c)
  BY ChildNamesAre
<1>2. PICK subs : subs = [i \in DOMAIN AttrChildren(o, a) |-> Traverse(root, AttrChildren(o, a)[i], a)]
  OBVIOUS
<1>3. PICK t : t = Traverse(root, o, a) /\ t = TraverseOne(root, o, a, subs)
  <2>1. o \in Seq(STRING)
    BY <1>1 DEF ChildNames
  <2> QED BY <1>2, <2>1, TraverseIs, Zenon
<1>4. SUFFICES ASSUME t.ok = TRUE PROVE SoundAt(root, o, a, t.local, t.remote)
  BY <1>3, Zenon DEF TravFine
<1>5. LocationOk(o)
  BY <1>3, <1>4 DEF TraverseOne, Resolved
<1>6. CASE Elsewhere(root, o)
  <2>1. t = Resolved(TRUE, <<>>, {o})
    BY <1>3, <1>5, <1>6 DEF TraverseOne
  <2>2. t.local = <<>> /\ t.remote = {o}
    BY <2>1 DEF Resolved
  <2> QED BY <1>6, <2>2, SoundElsewhere
<1>7. CASE ~Elsewhere(root, o)
  <2>1. t = Resolved(ObjDevsOk(o, a) /\ AttrChildrenOk(o, a) /\ \A i \in DOMAIN subs : subs[i].ok,
                     ObjDevs(o, a) \o FlattenSeq([i \in DOMAIN subs |-> subs[i].local]),
                     UNION {subs[i].remote : i \in DOMAIN subs})
    BY <1>3, <1>5, <1>7 DEF TraverseOne
  <2>2. DOMAIN subs = 1..Len(c) /\ \A i \in 1..Len(c) : subs[i] = Traverse(root, Append(o, c[i]), a)
    BY <1>1, <1>2 DEF ChildNames
  <2>3. \A i \in DOMAIN subs : subs[i].ok = TRUE
    <3>1. PICK b : b = (\A i \in DOMAIN subs : subs[i].ok)
      OBVIOUS
    <3>2. t.ok = (ObjDevsOk(o, a) /\ AttrChildrenOk(o, a) /\ \A i \in DOMAIN subs : subs[i].ok)
      BY <2>1 DEF Resolved
    <3> QED BY <1>4, <3>2
  <2>4. PICK ls : ls = [i \in 1..Len(c) |-> subs[i].local]
    OBVIOUS
  <2>5. PICK rs : rs = [i \in 1..Len(c) |-> subs[i].remote]
    OBVIOUS
  <2>6. t.local = ObjDevs(o, a) \o FlattenSeq(ls)
    BY <2>1, <2>2, <2>4 DEF Resolved
  <2>7. t.remote = UNION {rs[i] : i \in 1..Len(c)}
    <3>1. t.remote = UNION {subs[i].remote : i \in 1..Len(c)}
      BY <2>1, <2>2 DEF Resolved
    <3>2. \A i \in 1..Len(c) : rs[i] = subs[i].remote
      BY <2>5
    <3> QED BY <3>1, <3>2
  <2>8. ASSUME NEW i \in 1..Len(c) PROVE SoundAt(root, Append(o, c[i]), a, ls[i], rs[i])
    <3>1. c[i] \in STRING
      BY <1>1 DEF ChildNames
    <3>2. subs[i] = Traverse(root, Append(o, c[i]), a) /\ subs[i].ok = TRUE
      BY <2>2, <2>3
    <3>3. SoundAt(root, Append(o, c[i]), a, subs[i].local, subs[i].remote)
      BY <3>1, <3>2, Zenon DEF TravFine
    <3>4. ls[i] = subs[i].local /\ rs[i] = subs[i].remote
      BY <2>4, <2>5
    <3> QED BY <3>3, <3>4
  <2>9. IsInjective(c) /\ IsInjective(Sources(o, a, "device"))
    BY <1>1 DEF ListsOnce, Has
  <2>10. ls = [i \in 1..Len(c) |-> ls[i]]
    BY <2>4
  <2>11. SoundAt(root, o, a, ObjDevs(o, a) \o FlattenSeq(ls), UNION {rs[i] : i \in 1..Len(c)})
    BY <1>1, <1>7, <2>8, <2>9, <2>10, SoundJoin
  <2> QED BY <2>6, <2>7, <2>11
<1> QED BY <1>6, <1>7

LEMMA TraverseSound ==
  ASSUME DocIsOk, ListsOnce, NEW root, NEW a \in CtxAttr, NEW o \in Seq(STRING)
  PROVE  TravFine(root, o, a)
<1>1. PICK h \in Nat : \A p \in DOMAIN ctxDoc : Len(p) <= h
  BY LongestOf DEF DocIsOk
<1>2. ASSUME NEW p \in Seq(STRING), ~Has(p) PROVE TravFine(root, p, a)
  <2>1. PICK t : t = Traverse(root, p, a) /\ t = Resolved(FALSE, <<>>, {})
    <3>1. PICK subs : Traverse(root, p, a) = TraverseOne(root, p, a, subs)
      BY TraverseIs, Zenon
    <3>2. TraverseOne(root, p, a, subs) = Resolved(FALSE, <<>>, {})
      BY <1>2, NothingThere
    <3> QED BY <3>1, <3>2
  <2>2. t.ok = FALSE
    BY <2>1 DEF Resolved
  <2> QED BY <2>1, <2>2 DEF TravFine
<1> DEFINE Bad == {n \in Nat : \E p \in Seq(STRING) : Has(p) /\ Len(p) + n = h /\ ~TravFine(root, p, a)}
<1>3. ASSUME Bad # {} PROVE FALSE
  <2>1. PICK n \in Bad : \A y \in Bad : n <= y
    BY <1>3, LeastOf
  <2>2. PICK p \in Seq(STRING) : Has(p) /\ Len(p) + n = h /\ ~TravFine(root, p, a)
    BY <2>1
  <2>3. n \in Nat /\ Len(p) \in Nat
    BY <2>1
  <2>4. ASSUME NEW k \in STRING PROVE TravFine(root, Append(p, k), a)
    <3>1. PICK q \in Seq(STRING) : q = Append(p, k) /\ Len(q) = Len(p) + 1
      BY NameBelow
    <3>2. CASE Has(q)
      <4>1. Len(q) <= h
        BY <1>1, <3>2 DEF Has
      <4>2. n - 1 \in Nat /\ Len(q) + (n - 1) = h /\ ~(n <= n - 1)
        <5>1. PICK x \in Nat : x = Len(p)
          BY <2>3
        <5>2. x + n = h /\ x + 1 <= h /\ Len(q) = x + 1
          BY <2>2, <3>1, <4>1, <5>1
        <5> QED BY <2>3, <5>2
      <4>3. n - 1 \notin Bad
        BY <2>1, <4>2
      <4>4. TravFine(root, q, a)
        BY <3>2, <4>2, <4>3
      <4> QED BY <3>1, <4>4
    <3> QED BY <1>2, <3>1, <3>2
  <2> QED BY <2>2, <2>4, TraverseStep
<1>4. CASE Has(o)
  <2>1. Len(o) <= h /\ Len(o) \in Nat
    BY <1>1, <1>4 DEF Has
  <2>2. h - Len(o) \in Nat /\ Len(o) + (h - Len(o)) = h
    BY <2>1
  <2>3. h - Len(o) \notin Bad
    BY <1>3
  <2> QED BY <1>4, <2>2, <2>3
<1> QED BY <1>2, <1>4

-----------------------------------------------------------------------------
LEMMA OkIsTruth ==
  ASSUME DocIsOk, NEW root, NEW a \in CtxAttr, NEW o \in Seq(STRING)
  PROVE  Traverse(root, o, a).ok \in BOOLEAN
<1>1. PICK subs : Traverse(root, o, a) = TraverseOne(root, o, a, subs)
  BY TraverseIs, Zenon
<1>2. TraverseOne(root, o, a, subs).ok \in BOOLEAN
  BY DEF TraverseOne, Resolved
<1> QED BY <1>1, <1>2

(* A context opens the devices of its entry point, and those of objects    *)
(* that no server has; an object with a location is its own owner.         *)
PlacedAt(root, q) == q = root \/ (Has(q) /\ ctxDoc[q].loc)

LEMMA OwnerIsLongest ==
  ASSUME NEW root, NEW p \in Seq(STRING), NEW q \in Above(p), PlacedAt(root, q),
         \A r \in Above(p) : PlacedAt(root, r) => Len(r) <= Len(q)
  PROVE  Owner(root, p) = q
<1>1. Len(p) \in Nat /\ \A n \in 1..Len(p) : Len(SubSeq(p, 1, n)) = n
  BY PartsOf
<1>2. PICK placed : /\ placed = {r \in Above(p) : PlacedAt(root, r)}
                    /\ Owner(root, p) = IF placed = {} THEN root
                                        ELSE CHOOSE x \in placed : \A r \in placed : Len(r) <= Len(x)
  <2> DEFINE s == {r \in Above(p) : r = root \/ (Has(r) /\ ctxDoc[r].loc)}
  <2>1. Owner(root, p) = IF s = {} THEN root
                         ELSE CHOOSE x \in s : \A r \in s : Len(r) <= Len(x)
    BY Zenon DEF Owner
  <2>2. s = {r \in Above(p) : PlacedAt(root, r)}
    BY DEF PlacedAt
  <2> HIDE DEF s
  <2> QED BY <2>1, <2>2, Zenon
<1>3. q \in placed /\ \A r \in placed : Len(r) <= Len(q)
  BY <1>2
<1>4. PICK x \in placed : x = Owner(root, p) /\ \A r \in placed : Len(r) <= Len(x)
  <2>1. Owner(root, p) = CHOOSE x \in placed : \A r \in placed : Len(r) <= Len(x)
    BY <1>2, <1>3
  <2> QED BY <1>3, <2>1, Zenon
<1>5. PICK n \in 1..Len(p) : x = SubSeq(p, 1, n)
  BY <1>2 DEF Above
<1>6. PICK m \in 1..Len(p) : q = SubSeq(p, 1, m)
  BY DEF Above
<1>7. Len(x) <= Len(q) /\ Len(q) <= Len(x) /\ Len(x) = n /\ Len(q) = m
  BY <1>1, <1>3, <1>4, <1>5, <1>6
<1>8. n = m
  BY <1>7
<1> QED BY <1>4, <1>5, <1>6, <1>8

LEMMA AboveIs ==
  ASSUME NEW p \in Seq(STRING)
  PROVE  /\ \A q \in Above(p) : Len(q) \in Nat /\ Len(q) <= Len(p)
         /\ Above(p) # {} => p \in Above(p)
<1>1. Len(p) \in Nat /\ \A n \in 1..Len(p) : Len(SubSeq(p, 1, n)) = n
  BY PartsOf
<1>2. SubSeq(p, 1, Len(p)) = p
  BY SubSeqFull
<1>3. ASSUME NEW q \in Above(p) PROVE Len(q) \in Nat /\ Len(q) <= Len(p) /\ p \in Above(p)
  <2>1. PICK n \in 1..Len(p) : q = SubSeq(p, 1, n)
    BY DEF Above
  <2>2. Len(p) \in 1..Len(p)
    BY <1>1
  <2>3. p \in Above(p)
    BY <1>2, <2>2 DEF Above
  <2> QED BY <1>1, <2>1, <2>3
<1> QED BY <1>3

LEMMA OwnerIs ==
  ASSUME NEW root, NEW p \in Seq(STRING), ~Elsewhere(root, p)
  PROVE  Owner(root, p) = root
<1>1. CASE \A q \in Above(p) : ~PlacedAt(root, q)
  <2> DEFINE s == {r \in Above(p) : r = root \/ (Has(r) /\ ctxDoc[r].loc)}
  <2>1. Owner(root, p) = IF s = {} THEN root
                         ELSE CHOOSE x \in s : \A r \in s : Len(r) <= Len(x)
    BY Zenon DEF Owner
  <2>2. s = {}
    BY <1>1 DEF PlacedAt
  <2> QED BY <2>1, <2>2, Zenon
<1>2. ASSUME NEW q \in Above(p), PlacedAt(root, q) PROVE Owner(root, p) = root
  <2>1. root \in Above(p) /\ \A r \in Above(p) : PlacedAt(root, r) => Len(r) <= Len(root)
    <3>1. CASE HasServer(p)
      <4>1. p = root
        BY <3>1 DEF Elsewhere
      <4> QED BY <1>2, <4>1, AboveIs
    <3>2. CASE ~HasServer(p)
      <4>1. \A r \in Above(p) : PlacedAt(root, r) => r = root
        BY <3>2 DEF HasServer, PlacedAt
      <4> QED BY <1>2, <4>1, AboveIs
    <3> QED BY <3>1, <3>2
  <2>2. PlacedAt(root, root)
    BY DEF PlacedAt
  <2> QED BY <2>1, <2>2, OwnerIsLongest
<1> QED BY <1>1, <1>2

LEMMA OwnPlace ==
  ASSUME DocIsOk, EachPlaced, NEW root, NEW p, Has(p), HasServer(p)
  PROVE  Owner(root, p) = p
<1>1. p \in Seq(STRING) /\ ctxDoc[p].loc
  BY DEF DocIsOk, EachPlaced, Has, HasServer
<1>2. p \in Above(p)
  BY <1>1, AboveIs DEF HasServer
<1>3. PlacedAt(root, p) /\ \A r \in Above(p) : PlacedAt(root, r) => Len(r) <= Len(p)
  BY <1>1, AboveIs DEF PlacedAt
<1> QED BY <1>1, <1>2, <1>3, OwnerIsLongest

LEMMA ServerBelow ==
  ASSUME DocIsOk, NEW o, Has(o), HasServer(o), NEW a \in CtxAttr, NEW p \in Listed(o, a)
  PROVE  Has(p) /\ HasServer(p)
<1>1. o \in Seq(STRING) /\ p \in Seq(STRING) /\ Has(p) /\ IsPrefix(o, p)
  BY ListedIs DEF DocIsOk, Has
<1>2. Len(o) \in Nat /\ Len(p) \in Nat /\ Len(o) <= Len(p) /\ \A i \in 1..Len(o) : p[i] = o[i]
  BY <1>1, PrefixIs
<1>3. PICK q \in Above(o) : Has(q) /\ ctxDoc[q].loc
  BY DEF HasServer
<1>4. PICK n \in 1..Len(o) : q = SubSeq(o, 1, n)
  BY DEF Above
<1>5. n \in 0..Len(o) /\ n \in 0..Len(p) /\ n \in 1..Len(p) /\ \A i \in 1..n : p[i] = o[i]
  BY <1>2
<1>6. PICK r \in Seq(STRING) : r = SubSeq(p, 1, n) /\ Len(r) = n /\ \A i \in 1..n : r[i] = p[i]
  BY <1>1, <1>5, PartsOf
<1>7. q \in Seq(STRING) /\ Len(q) = n /\ \A i \in 1..n : q[i] = o[i]
  BY <1>1, <1>4, <1>5, PartsOf
<1>8. Len(q) = Len(r) /\ \A i \in 1..Len(q) : q[i] = r[i]
  BY <1>5, <1>6, <1>7
<1>9. q = r
  BY <1>6, <1>7, <1>8, SeqEqual
<1>10. q \in Above(p)
  BY <1>5, <1>6, <1>9 DEF Above
<1> QED BY <1>1, <1>3, <1>10 DEF HasServer

LEMMA SoundSplits ==
  ASSUME DocIsOk, NEW root, NEW o, NEW a \in CtxAttr, NEW t, SoundAt(root, o, a, t.local, t.remote)
  PROVE  Splits(root, o, a, t) /\ \A r \in t.remote : Has(r) /\ HasServer(r)
<1>1. PICK l, s : l = t.local /\ s = t.remote
  OBVIOUS
<1>2. SoundAt(root, o, a, l, s)
  BY <1>1
<1>3. \A x \in Range(l) : Owner(root, x[1]) = root
  BY <1>2, OwnerIs DEF SoundAt
<1>4. s \subseteq Listed(o, a) \ {root} /\ \A r \in s : Has(r) /\ HasServer(r)
  <2>1. \A r \in s : r \in Listed(o, a) /\ Elsewhere(root, r)
    BY <1>2 DEF SoundAt
  <2>2. \A r \in s : r # root /\ HasServer(r)
    BY <2>1 DEF Elsewhere
  <2>3. \A r \in s : Has(r)
    BY <2>1, ListedIs DEF Has
  <2> QED BY <2>1, <2>2, <2>3
<1>5. Devices(o, a) = Range(l) \union UNION {Devices(r, a) : r \in s}
  <2>1. \A x : x \in Devices(o, a) <=> x \in Range(l) \/ \E p \in s : x \in Devices(p, a)
    BY <1>2 DEF SoundAt
  <2> QED BY <2>1
<1>6. \A r \in s : /\ Devices(r, a) \cap Range(l) = {}
                   /\ \A q \in s \ {r} : Devices(q, a) \cap Devices(r, a) = {}
  <2>1. /\ \A r \in s : Devices(r, a) \cap Range(l) = {}
        /\ \A r, q \in s : r # q => Devices(r, a) \cap Devices(q, a) = {}
    BY <1>2, Zenon DEF SoundAt
  <2> QED BY <2>1
<1>7. IsInjective(l)
  BY <1>2 DEF SoundAt
<1>8. Splits(root, o, a, t)
  BY <1>1, <1>3, <1>4, <1>5, <1>6, <1>7 DEF Splits
<1> QED BY <1>1, <1>4, <1>8

LEMMA DocOk ==
  ASSUME ctxDoc \in Docs
  PROVE  DocIsOk
BY DocsAssumption DEF DocIsOk

LEMMA CountedOnceHolds ==
  ASSUME CtxIInv
  PROVE  CountedOnce
<1>1. DocIsOk
  BY DocOk DEF CtxIInv
<1>2. SUFFICES ASSUME ListsOnce, NEW o \in DOMAIN ctxObjs, NEW a \in CtxAttr, ctxDoc[o].attrs[a].op # ""
      PROVE  /\ Splits(ctxRoot, o, a, ctxObjs[o][a])
             /\ EachPlaced => \A r \in ctxObjs[o][a].remote :
                  ctxDoc[r].loc /\ \A d \in Devices(r, a) : Owner(r, d[1]) = Owner(ctxRoot, d[1])
  BY Zenon DEF CountedOnce
<1>3. Has(o) /\ ctxObjs[o] = NewObj(ctxRoot, o) /\ Works(ctxObjs[o])
  BY DEF CtxIInv
<1>4. o \in Seq(STRING)
  BY <1>1, <1>3 DEF DocIsOk, Has
<1>5. PICK t : t = ctxObjs[o][a] /\ t = Traverse(ctxRoot, o, a)
  <2>1. ctxObjs[o] = [b \in CtxAttr |-> InitAttr(ctxRoot, o, b)]
    BY <1>3 DEF NewObj
  <2>2. ctxObjs[o][a] = InitAttr(ctxRoot, o, a)
    BY <2>1
  <2>3. InitAttr(ctxRoot, o, a) = Traverse(ctxRoot, o, a)
    BY <1>2 DEF InitAttr
  <2> QED BY <2>2, <2>3
<1>6. t.ok
  <2>1. ctxObjs[o][a].ok
    BY <1>3 DEF Works
  <2> QED BY <1>5, <2>1
<1>7. t.ok = TRUE
  <2>1. t.ok \in BOOLEAN
    BY <1>1, <1>4, <1>5, OkIsTruth
  <2> QED BY <1>6, <2>1
<1>8. SoundAt(ctxRoot, o, a, t.local, t.remote)
  BY <1>1, <1>2, <1>4, <1>5, <1>7, TraverseSound, Zenon DEF TravFine
<1>9. Splits(ctxRoot, o, a, t) /\ \A r \in t.remote : Has(r) /\ HasServer(r)
  BY <1>1, <1>8, SoundSplits
<1>10. ASSUME EachPlaced, NEW r \in t.remote
       PROVE  ctxDoc[r].loc /\ \A d \in Devices(r, a) : Owner(r, d[1]) = Owner(ctxRoot, d[1])
  <2>1. Has(r) /\ HasServer(r)
    BY <1>9
  <2>2. ctxDoc[r].loc
    BY <1>10, <2>1 DEF EachPlaced, Has, HasServer
  <2>3. ASSUME NEW d \in Devices(r, a) PROVE Owner(r, d[1]) = Owner(ctxRoot, d[1])
    <3>1. PICK p \in Listed(r, a) : d[1] = p
      BY DevicesAre
    <3>2. Has(p) /\ HasServer(p)
      BY <1>1, <2>1, ServerBelow
    <3>3. Owner(r, p) = p /\ Owner(ctxRoot, p) = p
      BY <1>1, <1>10, <3>2, OwnPlace
    <3> QED BY <3>1, <3>3
  <2> QED BY <2>2, <2>3
<1> QED BY <1>5, <1>9, <1>10

(* The inductive invariant of the context.                                 *)
MadeOf(root, objs) ==
  \A o \in DOMAIN objs : Has(o) /\ objs[o] = NewObj(root, o) /\ Works(objs[o])

LEMMA SameObj ==
  ASSUME NEW root, NEW o, ctxDoc' = ctxDoc, ctxRoot' = root
  PROVE  NewObj(ctxRoot, o)' = NewObj(root, o)
BY SMT DEF NewObj, InitAttr, Traverse, TraverseOne, Resolved, ObjDevs, ObjDevsOk, AttrChildrenOk,
           AttrChildren, Sources, Has, LocationOk, Above, Hidden, Elsewhere, HasServer

LEMMA CtxMade ==
  ASSUME NEW root, NEW objs, ctxDoc \in Docs, ctxDoc' = ctxDoc, ctxRoot' = root, ctxObjs' = objs,
         MadeOf(root, objs), ctxState' = "none" => objs = NoObjs
  PROVE  CtxIInv'
<1>1. (ctxState = "none" => ctxObjs = NoObjs)' /\ (ctxDoc \in Docs)'
  BY DEF NoObjs
<1>2. ASSUME NEW o \in DOMAIN objs
      PROVE  (Has(o) /\ ctxObjs[o] = NewObj(ctxRoot, o) /\ Works(ctxObjs[o]))'
  <2>1. Has(o) /\ objs[o] = NewObj(root, o) /\ Works(objs[o])
    BY DEF MadeOf
  <2>2. NewObj(ctxRoot, o)' = NewObj(root, o)
    BY SameObj
  <2>3. Has(o)'
    BY <2>1 DEF Has
  <2>4. Works(ctxObjs[o])'
    BY <2>1 DEF Works, OneWay
  <2> QED BY <2>1, <2>2, <2>3, <2>4
<1>3. (\A o \in DOMAIN ctxObjs : Has(o) /\ ctxObjs[o] = NewObj(ctxRoot, o) /\ Works(ctxObjs[o]))'
  BY <1>2
<1> QED BY <1>1, <1>3 DEF CtxIInv

LEMMA FindsMakes ==
  ASSUME NEW root, NEW os, MadeOf(root, ctxObjs), Finds(root, os)
  PROVE  MadeOf(root, ctxObjs') /\ ctxState' # "none"
<1> DEFINE new == {o \in os : Has(o)} \ DOMAIN ctxObjs
<1>1. CASE \A o \in new : Works(NewObj(root, o))
  <2>1. /\ ctxObjs' = [o \in DOMAIN ctxObjs \union new |->
                         IF o \in new THEN NewObj(root, o) ELSE ctxObjs[o]]
        /\ ctxState' = "runs"
    BY <1>1, Zenon DEF Finds
  <2>2. \A o \in new : Has(o) /\ Works(NewObj(root, o))
    BY <1>1
  <2> HIDE DEF new
  <2>3. ASSUME NEW o \in DOMAIN ctxObjs'
        PROVE  Has(o) /\ ctxObjs'[o] = NewObj(root, o) /\ Works(ctxObjs'[o])
    <3>1. CASE o \in new
      BY <2>1, <2>2, <3>1
    <3>2. CASE o \notin new
      BY <2>1, <3>2 DEF MadeOf
    <3> QED BY <3>1, <3>2
  <2> QED BY <2>1, <2>3 DEF MadeOf
<1>2. CASE ~\A o \in new : Works(NewObj(root, o))
  <2>1. ctxState' = "aborted" /\ ctxObjs' = ctxObjs
    BY <1>2, Zenon DEF Finds
  <2> QED BY <2>1
<1> QED BY <1>1, <1>2

CtxMoves(root) ==
  /\ ctxDoc' = ctxDoc /\ ctxRoot' = root
  /\ \/ \E os : Finds(root, os)
     \/ ctxObjs' = ctxObjs /\ ctxState' # "none"

LEMMA MovesKeep ==
  ASSUME CtxIInv, NEW root, root = ctxRoot \/ ctxObjs = NoObjs, CtxMoves(root)
  PROVE  CtxIInv'
<1>1. MadeOf(root, ctxObjs)
  BY DEF CtxIInv, MadeOf, NoObjs
<1>2. MadeOf(root, ctxObjs') /\ ctxState' # "none"
  BY <1>1, FindsMakes DEF CtxMoves
<1> QED BY <1>2, CtxMade DEF CtxMoves, CtxIInv

LEMMA CtxStep ==
  ASSUME CtxIInv, [CtxNext]_ctxVars
  PROVE  CtxIInv'
<1>1. ASSUME NEW o, CntxtInit(o) PROVE CtxIInv'
  <2>1. CtxMoves(o) /\ ctxObjs = NoObjs
    BY <1>1, Zenon DEF CntxtInit, CtxMoves, CtxIInv
  <2> QED BY <2>1, MovesKeep
<1>2. ASSUME NEW o, GetObjByName(o) PROVE CtxIInv'
  <2>1. CtxMoves(ctxRoot)
    BY <1>2, Zenon DEF GetObjByName, CtxMoves
  <2> QED BY <2>1, MovesKeep
<1>3. ASSUME NEW o, GetParent(o) PROVE CtxIInv'
  <2>1. CtxMoves(ctxRoot)
    BY <1>3, Zenon DEF GetParent, CtxMoves
  <2> QED BY <2>1, MovesKeep
<1>4. ASSUME NEW o, GetChildren(o) PROVE CtxIInv'
  <2>1. CtxMoves(ctxRoot)
    BY <1>4, Zenon DEF GetChildren, CtxMoves
  <2> QED BY <2>1, MovesKeep
<1>5. ASSUME NEW t, GetGrp(t) PROVE CtxIInv'
  <2>1. CtxMoves(ctxRoot)
    BY <1>5, Zenon DEF GetGrp, CtxMoves
  <2> QED BY <2>1, MovesKeep
<1>6. CASE UNCHANGED ctxVars
  <2>1. MadeOf(ctxRoot, ctxObjs)
    BY DEF CtxIInv, MadeOf
  <2>2. ctxDoc' = ctxDoc /\ ctxRoot' = ctxRoot /\ ctxState' = ctxState /\ ctxObjs' = ctxObjs
    BY <1>6 DEF ctxVars
  <2>3. ctxDoc \in Docs /\ (ctxState' = "none" => ctxObjs = NoObjs)
    BY <2>2 DEF CtxIInv
  <2> QED BY <2>1, <2>2, <2>3, CtxMade
<1>7. CASE CtxNext
  BY <1>1, <1>2, <1>3, <1>4, <1>5, <1>7, Zenon DEF CtxNext
<1> QED BY <1>6, <1>7

(* CtxIInv is an invariant of every context: what it has made of an object *)
(* is what traverse computes for its entry point, whichever call made it.  *)
THEOREM CtxInductive == CtxSpec => []CtxIInv
<1>1. CtxInit => CtxIInv
  BY DEF CtxInit, CtxIInv, NoObjs
<1>2. CtxIInv /\ [CtxNext]_ctxVars => CtxIInv'
  BY CtxStep
<1> QED BY <1>1, <1>2, PTL DEF CtxSpec

(* Every device listed for an attribute is read once, by the context that  *)
(* the document places it at (DistCntxt::traverse).                        *)
THEOREM DevicesAreCounted == CtxSpec => []CountedOnce
<1>1. CtxIInv => CountedOnce
  BY CountedOnceHolds
<1> QED BY <1>1, CtxInductive, PTL
=============================================================================
