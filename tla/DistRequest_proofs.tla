------------------------- MODULE DistRequest_proofs -------------------------
(***************************************************************************)
(* Proofs, for any number of operations, requests and forms of calls, that *)
(* an answer finds the request it belongs to, that success means all there *)
(* is, and that a callback runs once.                                      *)
(***************************************************************************)
EXTENDS DistRequest, SequenceTheorems, TLAPS

(* What reading the head of a channel leaves in it.                        *)
LEMMA TailFacts ==
  ASSUME NEW S, NEW s \in Seq(S), s # <<>>
  PROVE  /\ Len(s) \in Nat /\ DOMAIN s = 1 .. Len(s)
         /\ 1 \in DOMAIN s /\ Head(s) = s[1] /\ Head(s) \in S
         /\ Tail(s) \in Seq(S)
         /\ DOMAIN Tail(s) = 1 .. Len(s) - 1
         /\ \A n \in DOMAIN Tail(s) : n + 1 \in DOMAIN s /\ Tail(s)[n] = s[n + 1]
<1>1. Len(s) \in Nat \ {0} /\ DOMAIN s = 1 .. Len(s)
  BY EmptySeq, LenProperties
<1>2. /\ Head(s) \in S /\ Tail(s) \in Seq(S) /\ Len(Tail(s)) = Len(s) - 1
      /\ \A n \in 1 .. Len(Tail(s)) : Tail(s)[n] = s[n + 1]
  BY HeadTailProperties
<1>3. DOMAIN Tail(s) = 1 .. Len(s) - 1
  BY <1>2, LenProperties
<1>4. Head(s) = s[1]
  OBVIOUS
<1> QED
  BY <1>1, <1>2, <1>3, <1>4

(* What is under way leads to a CommReq and to a DistRequest.              *)
LEMMA UnderWay ==
  ASSUME IInv
  PROVE  /\ \A a \in asked :
              /\ a \in [id : CReq, op : Op]
              /\ creq[a.id] \in CommReq /\ creq[a.id].req \in Req
              /\ req[creq[a.id].req] \in Request
              /\ Expects(a.id, a.op)
         /\ \A n \in DOMAIN chan :
              /\ chan[n] \in Answer
              /\ creq[chan[n].id] \in CommReq /\ creq[chan[n].id].req \in Req
              /\ req[creq[chan[n].id].req] \in Request
              /\ Expects(chan[n].id, chan[n].op)
<1>1. ASSUME NEW q \in CReq, NEW o \in Op, Expects(q, o)
      PROVE  creq[q] \in CommReq /\ creq[q].req \in Req /\ req[creq[q].req] \in Request
  BY <1>1 DEF IInv, TypeOK, Expects, CommReq
<1>2. \A a \in asked : a \in [id : CReq, op : Op] /\ Expects(a.id, a.op)
  BY DEF IInv, TypeOK, AnswersExpected
<1>3. \A n \in DOMAIN chan : chan[n] \in Answer /\ Expects(chan[n].id, chan[n].op)
  BY ElementOfSeq, LenProperties DEF IInv, TypeOK, AnswersExpected
<1> QED
  BY <1>1, <1>2, <1>3 DEF Answer

(* The one DistRequest of an operation under way, which has one CommReq.   *)
LEMMA Owner ==
  ASSUME IInv, NEW q \in CReq, NEW o \in Op, Expects(q, o)
  PROVE  /\ creq[q].req \in Req /\ req[creq[q].req] \in Request
         /\ call[o] # Free /\ called[o] = 0
         /\ \A s \in Req : req[s] # Free /\ req[s].op = o => s = creq[q].req
         /\ \A p \in CReq : Expects(p, o) => p = q
<1> DEFINE r == creq[q].req
<1>1. r \in Req /\ req[r] \in Request
  BY DEF IInv, TypeOK, Expects, CommReq
<1>2. req[r] # Free /\ req[r].op = o /\ o # NoOp /\ req[r].out = {q}
  BY DistinctAssumption DEF Expects
<1> HIDE DEF r
<1>3. /\ call[o] # Free
      /\ \A s \in Req : req[s] # Free /\ req[s].op = o => s = r
  BY <1>1, <1>2 DEF IInv, OneOwner
<1>4. called[o] = 0
  BY <1>1, <1>2 DEF IInv, SettledOK, Settled
<1>5. ASSUME NEW p \in CReq, Expects(p, o)
      PROVE  p = q
  <2>1. creq[p].req \in Req
    BY <1>5 DEF IInv, TypeOK, Expects, CommReq
  <2>2. creq[p].req = r /\ req[r].out = {p}
    BY <1>3, <1>5, <2>1 DEF Expects
  <2> QED
    BY <1>2, <2>2
<1> QED
  BY <1>1, <1>3, <1>4, <1>5 DEF r

LEMMA InitHolds == Init => IInv
<1> SUFFICES ASSUME Init PROVE IInv
  OBVIOUS
<1>1. TypeOK
  BY DEF Init, TypeOK
<1>2. AnswersExpected /\ OnceUnderWay
  BY DEF Init, AnswersExpected, OnceUnderWay
<1>3. OutcomesOK /\ OneOwner /\ SettledOK /\ WaitingOK
  BY DEF Init, OutcomesOK, OneOwner, SettledOK, Settled, WaitingOK
<1>4. SuccessIsWhole /\ CallbackOnce
  BY DEF Init, SuccessIsWhole, Whole, CallbackOnce
<1> QED
  BY <1>1, <1>2, <1>3, <1>4 DEF IInv

LEMMA ReqCreateStep ==
  ASSUME IInv, NEW r \in Req, NEW cb \in BOOLEAN, ReqCreate(r, cb)
  PROVE  IInv'
<1> USE DEF ReqCreate, appVars
<1> DEFINE R == NewRequest(cb)
<1>1. req \in [Req -> Request \cup {Free}] /\ R \in Request
  BY DEF IInv, TypeOK, Request, NewRequest
<1>2. /\ req'[r] = R /\ R.op = NoOp /\ R.out = {} /\ R # Free
      /\ \A s \in Req \ {r} : req'[s] = req[s]
  BY <1>1, DistinctAssumption DEF NewRequest
<1> HIDE DEF R
<1>3. TypeOK'
  BY <1>1 DEF IInv, TypeOK, R
<1>4. AnswersExpected'
  <2>1. /\ \A a \in asked : creq[a.id].req # r
        /\ \A n \in DOMAIN chan : creq[chan[n].id].req # r
    BY UnderWay DEF Expects
  <2> QED
    BY <1>2, <2>1, UnderWay DEF AnswersExpected, Expects
<1>5. OnceUnderWay' /\ OutcomesOK'
  BY DEF IInv, OnceUnderWay, OutcomesOK
<1>6. OneOwner'
  BY <1>2, DistinctAssumption DEF IInv, OneOwner
<1>7. SettledOK' /\ WaitingOK'
  BY <1>2 DEF IInv, SettledOK, Settled, WaitingOK, Running
<1>8. SuccessIsWhole' /\ CallbackOnce'
  BY DEF IInv, SuccessIsWhole, Whole, CallbackOnce
<1> QED
  BY <1>3, <1>4, <1>5, <1>6, <1>7, <1>8 DEF IInv

LEMMA ReqWaitStep ==
  ASSUME IInv, NEW r \in Req, ReqWait(r)
  PROVE  IInv'
<1> USE DEF ReqWait, appVars
<1>1. TypeOK' /\ WaitingOK'
  BY DEF IInv, TypeOK, WaitingOK
<1>2. AnswersExpected' /\ OnceUnderWay' /\ OutcomesOK' /\ OneOwner' /\ SettledOK'
  BY DEF IInv, AnswersExpected, Expects, OnceUnderWay, OutcomesOK, OneOwner, SettledOK, Settled
<1>3. SuccessIsWhole' /\ CallbackOnce'
  BY DEF IInv, SuccessIsWhole, Whole, CallbackOnce
<1> QED
  BY <1>1, <1>2, <1>3 DEF IInv

(* Nothing under way belongs to a request that is destroyed.               *)
LEMMA ReqDestroyStep ==
  ASSUME IInv, NEW r \in Req, ReqDestroy(r)
  PROVE  IInv'
<1> USE DEF ReqDestroy, Reset, appVars
<1>1. /\ req'[r] = Free
      /\ \A s \in Req \ {r} : req'[s] = req[s]
  BY DEF IInv, TypeOK
<1>2. /\ \A a \in asked : creq[a.id].req # r
      /\ \A n \in DOMAIN chan : creq[chan[n].id].req # r
  <2>1. CASE req[r].out = {}
    BY <2>1, UnderWay DEF Expects
  <2>2. CASE Drained
    BY <2>2 DEF Drained, IInv, OnceUnderWay
  <2> QED
    BY <2>1, <2>2
<1>3. TypeOK'
  BY DEF IInv, TypeOK
<1>4. AnswersExpected'
  BY <1>1, <1>2, UnderWay DEF AnswersExpected, Expects
<1>5. OnceUnderWay' /\ OutcomesOK'
  BY DEF IInv, OnceUnderWay, OutcomesOK
<1>6. OneOwner'
  BY <1>1 DEF IInv, OneOwner
<1>7. SettledOK' /\ WaitingOK'
  BY <1>1 DEF IInv, SettledOK, Settled, WaitingOK, Running
<1>8. SuccessIsWhole' /\ CallbackOnce'
  BY DEF IInv, SuccessIsWhole, Whole, CallbackOnce
<1> QED
  BY <1>3, <1>4, <1>5, <1>6, <1>7, <1>8 DEF IInv

LEMMA CloseStep ==
  ASSUME IInv, NEW how \in {"eof", "reset"}, Close(how)
  PROVE  IInv'
<1> USE DEF Close, appVars
<1>1. TypeOK'
  BY DEF IInv, TypeOK
<1>2. AnswersExpected' /\ OnceUnderWay' /\ OutcomesOK'
  BY DEF IInv, AnswersExpected, Expects, OnceUnderWay, OutcomesOK
<1>3. OneOwner' /\ SettledOK' /\ WaitingOK'
  BY DEF IInv, OneOwner, SettledOK, Settled, WaitingOK
<1>4. SuccessIsWhole' /\ CallbackOnce'
  BY DEF IInv, SuccessIsWhole, Whole, CallbackOnce
<1> QED
  BY <1>1, <1>2, <1>3, <1>4 DEF IInv

(* A request becomes an answer, good or bad.                               *)
LEMMA ReplyStep ==
  ASSUME IInv, NEW a \in asked, NEW bad \in BOOLEAN, Reply(a, bad)
  PROVE  IInv'
<1> USE DEF Reply, appVars
<1> DEFINE b == [id |-> a.id, op |-> a.op, bad |-> bad]
<1>1. /\ a.id \in CReq /\ a.op \in Op
      /\ b \in Answer /\ chan \in Seq(Answer)
      /\ b.id = a.id /\ b.op = a.op /\ b.bad = bad
  BY UnderWay DEF IInv, TypeOK, Answer
<1>2. /\ chan' \in Seq(Answer)
      /\ Len(chan) \in Nat
      /\ DOMAIN chan = 1 .. Len(chan)
      /\ DOMAIN chan' = 1 .. Len(chan) + 1
      /\ \A n \in 1 .. Len(chan) : chan'[n] = chan[n]
      /\ chan'[Len(chan) + 1] = b
  BY <1>1, AppendProperties, LenProperties
<1> HIDE DEF b
<1>3. \A n \in DOMAIN chan' : (n \in DOMAIN chan /\ chan'[n] = chan[n]) \/ chan'[n] = b
  BY <1>2
<1>4. TypeOK'
  BY <1>1, <1>2 DEF IInv, TypeOK
<1>5. AnswersExpected'
  <2>1. Expects(a.id, a.op)
    BY UnderWay
  <2>2. \A c \in asked' : Expects(c.id, c.op)'
    BY UnderWay DEF Expects
  <2>3. \A n \in DOMAIN chan' : Expects(chan'[n].id, chan'[n].op)
    BY <1>1, <1>3, <2>1, UnderWay
  <2>4. \A n \in DOMAIN chan' : Expects(chan[n].id, chan[n].op)'
    BY <2>3 DEF Expects
  <2> QED
    BY <2>2, <2>4 DEF AnswersExpected
<1>6. OnceUnderWay'
  <2>1. \A c \in asked' : c \in asked /\ c.id # a.id
    BY UnderWay DEF Expects
  <2>2. \A m, n \in DOMAIN chan' : chan'[m].id = chan'[n].id => m = n
    BY <1>1, <1>2 DEF IInv, OnceUnderWay
  <2>3. \A c \in asked', n \in DOMAIN chan' : c.id # chan'[n].id
    BY <1>1, <1>3, <2>1 DEF IInv, OnceUnderWay
  <2> QED
    BY <2>2, <2>3 DEF OnceUnderWay
<1>7. OutcomesOK'
  <2>1. /\ outcome'[a.op] = IF bad THEN "bad" ELSE "good"
        /\ \A o \in Op \ {a.op} : outcome'[o] = outcome[o]
    BY <1>1 DEF IInv, TypeOK
  <2>2. /\ call[a.op] # Free
        /\ \A c \in asked' : c \in asked /\ c.op # a.op /\ c.op \in Op
    BY <1>1, UnderWay, Owner
  <2>3. \A n \in DOMAIN chan : chan[n].op # a.op /\ chan[n].op \in Op
    BY UnderWay DEF IInv, OutcomesOK, Answer
  <2>4. \A n \in DOMAIN chan' : outcome'[chan'[n].op] = IF chan'[n].bad THEN "bad" ELSE "good"
    BY <1>1, <1>3, <2>1, <2>3 DEF IInv, OutcomesOK
  <2> QED
    BY <2>1, <2>2, <2>4 DEF IInv, OutcomesOK
<1>8. OneOwner' /\ WaitingOK'
  BY DEF IInv, OneOwner, WaitingOK
<1>9. /\ outcome[a.op] = "none" /\ outcome'[a.op] \in {"good", "bad"}
      /\ \A o \in Op \ {a.op} : outcome'[o] = outcome[o]
  BY <1>1 DEF IInv, TypeOK, OutcomesOK
<1>10. SettledOK'
  <2>1. \A r \in Req : req[r] # Free /\ req[r].op = a.op => req[r].out # {}
    <3>1. \A r \in Req : req[r] # Free /\ req[r].op = a.op => r = creq[a.id].req
      BY <1>1, UnderWay, Owner
    <3>2. req[creq[a.id].req].out = {a.id}
      BY UnderWay DEF Expects
    <3> QED
      BY <3>1, <3>2
  <2>2. \A r \in Req : req[r] # Free => req[r].op \in Op \cup {NoOp}
    BY DEF IInv, TypeOK, Request
  <2> QED
    BY <1>9, <2>1, <2>2 DEF IInv, SettledOK, Settled
<1>11. SuccessIsWhole' 
  BY <1>9 DEF IInv, SuccessIsWhole, Whole
<1>12. CallbackOnce'
  <2>1. called[a.op] = 0
    BY <1>1, UnderWay, Owner
  <2> QED
    BY <1>1, <1>3, <1>9, <2>1 DEF IInv, CallbackOnce
<1> QED
  BY <1>4, <1>5, <1>6, <1>7, <1>8, <1>10, <1>11, <1>12 DEF IInv

(* The process ends, by an assert of getEvent or by the NULL event.        *)
LEMMA EndStep ==
  ASSUME IInv, WaitReset \/ ProgressFails
  PROVE  IInv'
<1>1. /\ up' = FALSE
      /\ UNCHANGED <<req, creq, pc, call, result, called, buffer, asked, chan, link, outcome>>
  BY DEF WaitReset, ProgressFails, appVars
<1>2. TypeOK'
  BY <1>1 DEF IInv, TypeOK
<1>3. AnswersExpected' /\ OnceUnderWay' /\ OutcomesOK' /\ OneOwner' /\ SettledOK' /\ WaitingOK'
  BY <1>1 DEF IInv, AnswersExpected, Expects, OnceUnderWay, OutcomesOK, OneOwner, SettledOK, Settled,
     WaitingOK
<1>4. SuccessIsWhole' /\ CallbackOnce'
  BY <1>1 DEF IInv, SuccessIsWhole, Whole, CallbackOnce
<1> QED
  BY <1>2, <1>3, <1>4 DEF IInv

(* An operation that only returns an error.                                *)
LEMMA RefuseStep ==
  ASSUME IInv, NEW o \in Op, NEW x \in Calls, call[o] = Free, Refuse(o, x)
  PROVE  IInv'
<1> USE DEF Refuse
<1>1. /\ call'[o] = x /\ x # Free /\ result'[o] = "error"
      /\ \A p \in Op \ {o} : call'[p] = call[p] /\ result'[p] = result[p]
  BY CallsAssumption, DistinctAssumption DEF IInv, TypeOK
<1>2. called[o] = 0
  BY DEF IInv, OutcomesOK
<1>3. TypeOK'
  BY DEF IInv, TypeOK
<1>4. AnswersExpected' /\ OnceUnderWay'
  BY DEF IInv, AnswersExpected, Expects, OnceUnderWay
<1>5. OutcomesOK'
  <2>1. \A q \in CReq : creq[q] # Free => creq[q].op \in Op \ {o}
    BY DEF IInv, TypeOK, OutcomesOK, CommReq
  <2> QED
    BY <1>1, <2>1 DEF IInv, OutcomesOK
<1>6. \A r \in Req : req[r] # Free /\ req[r].op # NoOp => req[r].op \in Op \ {o}
  BY DEF IInv, TypeOK, OneOwner, Request
<1>7. OneOwner' /\ WaitingOK'
  BY <1>1, <1>6 DEF IInv, OneOwner, WaitingOK
<1>8. SettledOK'
  BY <1>1, <1>6 DEF IInv, SettledOK, Settled
<1>9. SuccessIsWhole' /\ CallbackOnce'
  BY <1>1, <1>2 DEF IInv, SuccessIsWhole, Whole, CallbackOnce
<1> QED
  BY <1>3, <1>4, <1>5, <1>7, <1>8, <1>9 DEF IInv

-----------------------------------------------------------------------------
(* Reading an answer, by wait or by makeProgress: its operation is settled *)
(* in its own buffer and Status, and no other is touched.                  *)
Handled(a, r, o) ==
  /\ a \in Answer /\ o \in Op /\ r \in Req
  /\ req[r] # Free /\ req[r].op = o /\ req[r].out # {}
  /\ req' \in [Req -> Request \cup {Free}]
  /\ chan' \in Seq(Answer)
  /\ buffer' \in [Op -> Op \cup {"unset", "local"}]
  /\ req'[r] # Free /\ req'[r].op = o /\ req'[r].out = {}
  /\ req'[r].err = (req[r].err \/ (a.bad /\ call[o].kind # "samples"))
  /\ \A s \in Req \ {r} : req'[s] = req[s]
  /\ \A s \in Req \ {r} : req[s] # Free => req[s].op # o
  /\ call[o].kind \in Reads => buffer'[o] = o
  /\ \A p \in Op \ {o} : buffer'[p] = buffer[p]
  /\ buffer'[o] = o \/ buffer'[o] = buffer[o]
  /\ outcome[o] = IF a.bad THEN "bad" ELSE "good"
  /\ called[o] = 0
  /\ \A n \in DOMAIN chan' : /\ chan'[n].op # o
                             /\ n + 1 \in DOMAIN chan /\ chan'[n] = chan[n + 1]

LEMMA ProcessFacts ==
  ASSUME IInv, chan # <<>>,
         NEW a, NEW r, NEW o,
         a = Head(chan), r = creq[a.id].req, o = a.op,
         Process(a, r), chan' = Tail(chan),
         UNCHANGED <<creq, call, asked, link, outcome>>
  PROVE  Handled(a, r, o) /\ AnswersExpected' /\ OnceUnderWay' /\ OneOwner'
<1>1. /\ chan \in Seq(Answer) /\ Len(chan) \in Nat /\ DOMAIN chan = 1 .. Len(chan)
      /\ 1 \in DOMAIN chan /\ a = chan[1]
      /\ chan' \in Seq(Answer)
      /\ DOMAIN chan' = 1 .. Len(chan) - 1
      /\ \A n \in DOMAIN chan' : n + 1 \in DOMAIN chan /\ chan'[n] = chan[n + 1]
  <2>1. chan \in Seq(Answer)
    BY DEF IInv, TypeOK
  <2> QED
    BY <2>1, TailFacts
<1>2. /\ a \in Answer /\ a.id \in CReq /\ o \in Op /\ a.bad \in BOOLEAN
      /\ creq[a.id] \in CommReq /\ r \in Req /\ req[r] \in Request
      /\ Expects(a.id, o)
  BY <1>1, UnderWay DEF Answer
<1>3. /\ call[o] # Free /\ called[o] = 0
      /\ \A s \in Req : req[s] # Free /\ req[s].op = o => s = r
      /\ \A p \in CReq : Expects(p, o) => p = a.id
  BY <1>2, Owner
<1>4. /\ req[r] # Free /\ req[r].op = o /\ req[r].out = {a.id}
      /\ o # NoOp
      /\ creq[a.id] # Free /\ creq[a.id].op = o
  BY <1>2, DistinctAssumption DEF Expects
<1>5. creq[a.id].kind = call[o].kind
  BY <1>2, <1>4 DEF IInv, OutcomesOK
<1>6. outcome[o] = IF a.bad THEN "bad" ELSE "good"
  BY <1>1 DEF IInv, OutcomesOK
<1>7. call[o].kind \in Reads => req[r].val = o
  BY <1>2, <1>4 DEF IInv, SettledOK, Settled
<1>8. /\ req' \in [Req -> Request \cup {Free}]
      /\ req'[r] \in Request
      /\ req'[r].op = o /\ req'[r].out = {} /\ req'[r].cb = req[r].cb
      /\ req'[r].err = (req[r].err \/ (a.bad /\ call[o].kind # "samples"))
      /\ \A s \in Req \ {r} : req'[s] = req[s]
  <2>1. req \in [Req -> Request \cup {Free}]
    BY DEF IInv, TypeOK
  <2> DEFINE R == [req[r] EXCEPT !.out = @ \ {a.id},
                                 !.err = @ \/ (a.bad /\ creq[a.id].kind # "samples")]
  <2>2. req' = [req EXCEPT ![r] = R]
    BY DEF Process
  <2>3. /\ R \in Request
        /\ R.op = o /\ R.out = {} /\ R.cb = req[r].cb
        /\ R.err = (req[r].err \/ (a.bad /\ call[o].kind # "samples"))
    BY <1>2, <1>4, <1>5 DEF Request
  <2> HIDE DEF R
  <2>4. req'[r] = R /\ \A s \in Req \ {r} : req'[s] = req[s]
    BY <1>2, <2>1, <2>2
  <2>5. req' \in [Req -> Request \cup {Free}]
    BY <1>2, <2>1, <2>2, <2>3
  <2> QED
    BY <2>3, <2>4, <2>5
<1>9. req'[r] # Free
  BY <1>8, DistinctAssumption
<1>10. /\ buffer' \in [Op -> Op \cup {"unset", "local"}]
       /\ call[o].kind \in Reads => buffer'[o] = o
       /\ \A p \in Op \ {o} : buffer'[p] = buffer[p]
       /\ buffer'[o] = o \/ buffer'[o] = buffer[o]
  BY <1>2, <1>5, <1>7 DEF IInv, TypeOK, Process
<1>11. \A n \in DOMAIN chan' : chan'[n].op # o /\ chan'[n].id # a.id
  <2> SUFFICES ASSUME NEW n \in DOMAIN chan' PROVE chan'[n].op # o /\ chan'[n].id # a.id
    OBVIOUS
  <2>1. n + 1 \in DOMAIN chan /\ chan'[n] = chan[n + 1] /\ n \in 1 .. Len(chan) - 1
    BY <1>1
  <2>2. chan'[n].id # a.id
    BY <1>1, <2>1 DEF IInv, OnceUnderWay
  <2>3. chan'[n].id \in CReq /\ Expects(chan'[n].id, chan'[n].op)
    BY <2>1, UnderWay DEF Answer
  <2> QED
    BY <1>3, <2>2, <2>3
<1>12. \A c \in asked : c.id # a.id
  BY <1>1 DEF IInv, OnceUnderWay
<1>13. ASSUME NEW q \in CReq, NEW p, Expects(q, p), q # a.id, creq[q].req \in Req
       PROVE  Expects(q, p)'
  <2>1. creq[q].req # r
    BY <1>4, <1>13 DEF Expects
  <2> QED
    BY <1>8, <1>13, <2>1 DEF Expects
<1>14. AnswersExpected'
  <2>1. ASSUME NEW c \in asked PROVE Expects(c.id, c.op)'
    BY <1>12, <1>13, UnderWay
  <2>2. ASSUME NEW n \in DOMAIN chan' PROVE Expects(chan[n].id, chan[n].op)'
    <3>1. n + 1 \in DOMAIN chan /\ chan'[n] = chan[n + 1] /\ chan'[n].id # a.id
      BY <1>1, <1>11
    <3>2. /\ chan'[n].id \in CReq /\ creq[chan'[n].id].req \in Req
          /\ Expects(chan'[n].id, chan'[n].op)
      BY <3>1, UnderWay DEF Answer
    <3>3. creq[chan'[n].id].req # r
      BY <1>4, <3>1, <3>2 DEF Expects
    <3> QED
      BY <1>8, <3>2, <3>3 DEF Expects
  <2> QED
    BY <2>1, <2>2 DEF AnswersExpected
<1>15. OnceUnderWay'
  <2>1. \A m, n \in DOMAIN chan' : chan'[m].id = chan'[n].id => m = n
    BY <1>1 DEF IInv, OnceUnderWay
  <2>2. \A c \in asked, n \in DOMAIN chan' : c.id # chan'[n].id
    BY <1>1 DEF IInv, OnceUnderWay
  <2> QED
    BY <2>1, <2>2 DEF IInv, OnceUnderWay
<1>16. OneOwner'
  <2>1. \A s \in Req : /\ req'[s] # Free <=> req[s] # Free
                       /\ req'[s] # Free => req'[s].op = req[s].op
    BY <1>2, <1>4, <1>8, <1>9
  <2>2. \A s \in Req : s # r => req'[s] = req[s]
    BY <1>8
  <2> QED
    <3> SUFFICES ASSUME NEW s \in Req, req'[s] # Free
                 PROVE  IF req'[s].op = NoOp THEN req'[s].out = {}
                        ELSE /\ call[req'[s].op] # Free
                             /\ \A t \in Req : req'[t] # Free /\ req'[t].op = req'[s].op => t = s
      BY DEF OneOwner
    <3>1. CASE req'[s].op = NoOp
      BY <1>4, <1>8, <2>1, <2>2, <3>1 DEF IInv, OneOwner
    <3>2. CASE req'[s].op # NoOp
      <4>1. req[s] # Free /\ req[s].op = req'[s].op /\ req[s].op # NoOp
        BY <2>1, <3>2
      <4>2. /\ call[req[s].op] # Free
            /\ \A t \in Req : req[t] # Free /\ req[t].op = req[s].op => t = s
        BY <4>1 DEF IInv, OneOwner
      <4> QED
        BY <2>1, <3>2, <4>1, <4>2
    <3> QED
      BY <3>1, <3>2
<1> QED
  BY <1>1, <1>2, <1>3, <1>4, <1>6, <1>8, <1>9, <1>10, <1>11, <1>14, <1>15, <1>16 DEF Handled

LEMMA WaitReadStep ==
  ASSUME IInv, WaitRead
  PROVE  IInv'
<1>1. PICK a, r, o : a = Head(chan) /\ r = creq[a.id].req /\ o = a.op
  OBVIOUS
<1>2. /\ chan # <<>> /\ chan' = Tail(chan)
      /\ UNCHANGED <<creq, pc, call, result, called, asked, link, outcome>>
  BY DEF WaitRead
<1>3. 1 \in DOMAIN chan /\ a = chan[1]
  <2>1. chan \in Seq(Answer)
    BY DEF IInv, TypeOK
  <2> QED
    BY <1>1, <1>2, <2>1, TailFacts
<1>4. ~ Dangling(a)
  BY <1>3, UnderWay DEF Dangling, Expects
<1>5. Process(a, r) /\ UNCHANGED up
  BY <1>1, <1>4 DEF WaitRead
<1>6. Handled(a, r, o) /\ AnswersExpected' /\ OnceUnderWay' /\ OneOwner'
  BY <1>1, <1>2, <1>5, ProcessFacts
<1>7. TypeOK'
  BY <1>2, <1>5, <1>6 DEF IInv, TypeOK, Handled
<1>8. OutcomesOK'
  BY <1>2, <1>6 DEF IInv, OutcomesOK, Handled
<1>9. SettledOK'
  <2>1. ASSUME NEW s \in Req \ {r}, req[s] # Free, req[s].op # NoOp
        PROVE  req[s].op \in Op \ {o}
    BY <1>6, <2>1 DEF IInv, TypeOK, Request, Handled
  <2>2. result[o] = "none" /\ call[o].local = "bad" => req[r].err
    BY <1>6, DistinctAssumption DEF IInv, SettledOK, Settled, Handled
  <2>3. Settled(r)'
    BY <1>2, <1>6, <2>2 DEF Settled, Handled
  <2>4. ASSUME NEW s \in Req \ {r} PROVE Settled(s)'
    <3>1. Settled(s)
      BY DEF IInv, SettledOK
    <3> QED
      BY <1>2, <1>6, <2>1, <3>1 DEF Settled, Handled
  <2> QED
    BY <2>3, <2>4 DEF SettledOK
<1>10. WaitingOK'
  <2>1. pc # NoReq => req[pc] # Free /\ req[pc].op # NoOp /\ called[req[pc].op] = 0 /\ pc \in Req
    BY DEF IInv, TypeOK, WaitingOK
  <2>2. pc # NoReq => req'[pc] # Free /\ req'[pc].op = req[pc].op
    BY <1>6, <2>1 DEF Handled
  <2> QED
    BY <1>2, <2>1, <2>2 DEF WaitingOK
<1>11. SuccessIsWhole'
  BY <1>2, <1>6 DEF IInv, SuccessIsWhole, Whole, Handled
<1>12. CallbackOnce'
  BY <1>2, <1>6 DEF IInv, CallbackOnce, Handled
<1> QED
  BY <1>6, <1>7, <1>8, <1>9, <1>10, <1>11, <1>12 DEF IInv

LEMMA MakeProgressStep ==
  ASSUME IInv, MakeProgress
  PROVE  IInv'
<1>1. PICK a, r, o : a = Head(chan) /\ r = creq[a.id].req /\ o = a.op
  OBVIOUS
<1>2. /\ chan # <<>> /\ chan' = Tail(chan) /\ pc = NoReq
      /\ Process(a, r)
      /\ UNCHANGED <<up, pc>> /\ UNCHANGED <<creq, call, asked, link, outcome>>
  BY <1>1 DEF MakeProgress, Running
<1>3. /\ called' = [called EXCEPT ![req[r].op] = IF req[r].cb THEN @ + 1 ELSE @]
      /\ result' = [result EXCEPT ![req[r].op] =
                      IF req[r].cb THEN Verdict(req[r].op, req'[r].err) ELSE @]
  BY <1>1 DEF MakeProgress, Running
<1>4. Handled(a, r, o) /\ AnswersExpected' /\ OnceUnderWay' /\ OneOwner'
  BY <1>1, <1>2, ProcessFacts
<1>5. /\ result \in [Op -> {"none", "ok", "error", "ipc"}]
      /\ called \in [Op -> Nat]
  BY DEF IInv, TypeOK
<1>6. /\ \A p \in Op \ {o} : called'[p] = called[p] /\ result'[p] = result[p]
      /\ called'[o] = IF req[r].cb THEN 1 ELSE 0
      /\ result'[o] = IF req[r].cb THEN Verdict(o, req'[r].err) ELSE result[o]
      /\ called' \in [Op -> Nat]
      /\ result' \in [Op -> {"none", "ok", "error", "ipc"}]
  BY <1>3, <1>4, <1>5 DEF Verdict, Handled
<1>7. TypeOK'
  BY <1>2, <1>4, <1>6 DEF IInv, TypeOK, Handled
<1>8. call[o] # Free
  BY <1>4, DistinctAssumption DEF IInv, OneOwner, Handled
<1>9. OutcomesOK'
  <2>1. OutcomesOK
    BY DEF IInv
  <2>2. \A p \in Op : call[p] = Free => result'[p] = "none" /\ called'[p] = 0
    BY <1>6, <1>8, <2>1 DEF OutcomesOK
  <2>3. \A n \in DOMAIN chan' : outcome[chan'[n].op] = IF chan'[n].bad THEN "bad" ELSE "good"
    BY <1>4, <2>1 DEF OutcomesOK, Handled
  <2> QED
    BY <1>2, <2>1, <2>2, <2>3 DEF OutcomesOK
<1>10. result[o] = "none" /\ call[o].local = "bad" => req[r].err
  BY <1>4, DistinctAssumption DEF IInv, SettledOK, Settled, Handled
<1>11. SettledOK'
  <2>1. ASSUME NEW s \in Req \ {r}, req[s] # Free, req[s].op # NoOp
        PROVE  req[s].op \in Op \ {o}
    BY <1>4, <2>1 DEF IInv, TypeOK, Request, Handled
  <2>2. result'[o] = "none" => result[o] = "none"
    BY <1>6 DEF Verdict
  <2>3. Settled(r)'
    BY <1>2, <1>4, <1>6, <1>10, <2>2 DEF Settled, Handled
  <2>4. ASSUME NEW s \in Req \ {r} PROVE Settled(s)'
    <3>1. Settled(s)
      BY DEF IInv, SettledOK
    <3> QED
      BY <1>2, <1>4, <1>6, <2>1, <3>1 DEF Settled, Handled
  <2> QED
    BY <2>3, <2>4 DEF SettledOK
<1>12. WaitingOK'
  BY <1>2 DEF WaitingOK
<1>13. SuccessIsWhole'
  <2>2. Whole(o)'
    <3>1. Whole(o)
      BY <1>4 DEF IInv, SuccessIsWhole, Handled
    <3>2. CASE result'[o] = result[o]
      BY <1>2, <1>4, <3>1, <3>2 DEF Whole, Handled
    <3>3. CASE result'[o] # result[o]
      BY <1>2, <1>4, <1>6, <1>10, <3>3 DEF Whole, Verdict, Handled
    <3> QED
      BY <3>2, <3>3
  <2>3. ASSUME NEW p \in Op \ {o} PROVE Whole(p)'
    <3>1. Whole(p)
      BY DEF IInv, SuccessIsWhole
    <3> QED
      BY <1>2, <1>4, <1>6, <3>1 DEF Whole, Handled
  <2> QED
    BY <2>2, <2>3 DEF SuccessIsWhole
<1>14. CallbackOnce'
  <2>1. called'[o] = 1 => result'[o] # "none"
    BY <1>6 DEF Verdict
  <2>2. CallbackOnce
    BY DEF IInv
  <2>3. /\ o \in Op /\ outcome[o] # "none"
        /\ \A n \in DOMAIN chan' : /\ chan'[n].op # o
                                   /\ n + 1 \in DOMAIN chan /\ chan'[n].op = chan[n + 1].op
    BY <1>4 DEF Handled
  <2>4. ASSUME NEW p \in Op
        PROVE  /\ called'[p] <= 1
               /\ called'[p] = 1 /\ call[p].remote => outcome[p] # "none" /\ result'[p] # "none"
               /\ called'[p] = 1 => \A n \in DOMAIN chan' : chan'[n].op # p
    <3>1. CASE p = o
      BY <1>6, <2>1, <2>3, <3>1
    <3>2. CASE p # o
      BY <1>6, <2>2, <2>3, <3>2 DEF CallbackOnce
    <3> QED
      BY <3>1, <3>2
  <2> QED
    BY <1>2, <2>4 DEF CallbackOnce
<1> QED
  BY <1>4, <1>7, <1>9, <1>11, <1>12, <1>13, <1>14 DEF IInv
-----------------------------------------------------------------------------
(* The end of a wait: no answer is under way to what a blocking call gives *)
(* up.                                                                     *)
Released ==
  /\ req' \in [Req -> Request \cup {Free}]
  /\ creq' \in [CReq -> CommReq \cup {Free}]
  /\ \A s \in Req : req'[s] # Free => req'[s] = req[s]
  /\ \A q \in CReq : creq'[q] # Free => creq'[q] = creq[q]

LEMMA ReleaseFacts ==
  ASSUME IInv, NEW r \in Req, req[r] # Free, req[r].op # NoOp, Release(r),
         req[r].out = {} \/ (asked = {} /\ chan = <<>>),
         UNCHANGED <<call, asked, chan, link>>
  PROVE  Released /\ AnswersExpected' /\ OnceUnderWay' /\ OneOwner'
<1>1. /\ req \in [Req -> Request \cup {Free}]
      /\ creq \in [CReq -> CommReq \cup {Free}]
  BY DEF IInv, TypeOK
<1>2. /\ req' \in [Req -> Request \cup {Free}]
      /\ \A s \in Req \ {r} : req'[s] = req[s]
      /\ req'[r] # Free => req'[r] = req[r]
  BY <1>1 DEF Release, Reset
<1>3. /\ creq' \in [CReq -> CommReq \cup {Free}]
      /\ \A q \in CReq : creq'[q] = creq[q] \/ (creq'[q] = Free /\ creq[q].op = req[r].op)
  BY <1>1 DEF Release
<1>4. Released
  BY <1>2, <1>3 DEF Released
<1>5. ASSUME NEW q \in CReq, NEW o \in Op, Expects(q, o), req[r].out = {}
      PROVE  creq[q].req \in Req \ {r} /\ creq'[q] = creq[q]
  <2>1. /\ creq[q].req \in Req
        /\ \A s \in Req : req[s] # Free /\ req[s].op = o => s = creq[q].req
    BY <1>5, Owner
  <2>2. creq[q].req # r
    BY <1>5 DEF Expects
  <2>3. req[r].op # o
    BY <2>1, <2>2
  <2>4. creq[q].op = o
    BY <1>5 DEF Expects
  <2> QED
    BY <1>3, <2>1, <2>2, <2>3, <2>4
<1>6. AnswersExpected'
  <2>1. CASE req[r].out = {}
    <3>1. ASSUME NEW a \in asked PROVE Expects(a.id, a.op)'
      <4>1. a.id \in CReq /\ a.op \in Op /\ Expects(a.id, a.op)
        BY UnderWay
      <4>2. creq[a.id].req \in Req \ {r} /\ creq'[a.id] = creq[a.id]
        BY <1>5, <2>1, <4>1
      <4> QED
        BY <1>2, <4>1, <4>2 DEF Expects
    <3>2. ASSUME NEW n \in DOMAIN chan PROVE Expects(chan[n].id, chan[n].op)'
      <4>1. chan[n].id \in CReq /\ chan[n].op \in Op /\ Expects(chan[n].id, chan[n].op)
        BY UnderWay DEF Answer
      <4>2. creq[chan[n].id].req \in Req \ {r} /\ creq'[chan[n].id] = creq[chan[n].id]
        BY <1>5, <2>1, <4>1
      <4> QED
        BY <1>2, <4>1, <4>2 DEF Expects
    <3> QED
      BY <3>1, <3>2 DEF AnswersExpected
  <2>2. CASE asked = {} /\ chan = <<>>
    BY <2>2 DEF AnswersExpected
  <2> QED
    BY <2>1, <2>2
<1>7. OnceUnderWay'
  BY DEF IInv, OnceUnderWay
<1>8. OneOwner'
  BY <1>4 DEF IInv, OneOwner, Released
<1> QED
  BY <1>4, <1>6, <1>7, <1>8

(* What both ends of a wait leave, given what they tell.                   *)
LEMMA EndOfWait ==
  ASSUME IInv, NEW r \in Req, NEW o \in Op, r = pc, pc # NoReq, o = req[r].op,
         pc' = NoReq, UNCHANGED <<up, call, buffer, asked, chan, link, outcome>>,
         Released, AnswersExpected', OnceUnderWay', OneOwner',
         called' \in [Op -> Nat], result' \in [Op -> {"none", "ok", "error", "ipc"}],
         \A p \in Op \ {o} : called'[p] = called[p] /\ result'[p] = result[p],
         result'[o] # "none", req[r].out # {} => called'[o] = 0,
         Whole(o)',
         /\ called'[o] <= 1
         /\ called'[o] = 1 /\ call[o].remote => outcome[o] # "none"
         /\ called'[o] = 1 => \A n \in DOMAIN chan : chan[n].op # o
  PROVE  IInv'
<1>1. TypeOK'
  BY DEF IInv, TypeOK, Released
<1>2. /\ req[r] # Free /\ req[r].op # NoOp /\ call[o] # Free
      /\ \A s \in Req \ {r} : req[s] # Free => req[s].op # o
  BY DEF IInv, WaitingOK, OneOwner
<1>3. OutcomesOK'
  <2>1. OutcomesOK
    BY DEF IInv
  <2>2. \A p \in Op : call[p] = Free => result'[p] = "none" /\ called'[p] = 0
    BY <1>2, <2>1 DEF OutcomesOK
  <2>3. \A q \in CReq : creq'[q] # Free => /\ call[creq'[q].op] # Free
                                           /\ creq'[q].kind = call[creq'[q].op].kind
    BY <2>1 DEF OutcomesOK, Released
  <2> QED
    BY <2>1, <2>2, <2>3 DEF OutcomesOK
<1>4. SettledOK'
  <2>1. Settled(r)'
    <3>1. Settled(r)
      BY DEF IInv, SettledOK
    <3> QED
      BY <1>2, <3>1 DEF Settled, Released
  <2>2. ASSUME NEW s \in Req \ {r} PROVE Settled(s)'
    <3>1. Settled(s)
      BY DEF IInv, SettledOK
    <3>2. req[s] # Free /\ req[s].op # NoOp => req[s].op \in Op \ {o}
      BY <1>2 DEF IInv, TypeOK, Request
    <3> QED
      BY <3>1, <3>2 DEF Settled, Released
  <2> QED
    BY <2>1, <2>2 DEF SettledOK
<1>5. WaitingOK'
  BY DEF WaitingOK
<1>6. SuccessIsWhole'
  <2>1. ASSUME NEW p \in Op \ {o} PROVE Whole(p)'
    <3>1. Whole(p)
      BY DEF IInv, SuccessIsWhole
    <3> QED
      BY <3>1 DEF Whole
  <2> QED
    BY <2>1 DEF SuccessIsWhole
<1>7. CallbackOnce'
  BY DEF IInv, CallbackOnce
<1> QED
  BY <1>1, <1>3, <1>4, <1>5, <1>6, <1>7 DEF IInv
LEMMA WaitDoneStep ==
  ASSUME IInv, WaitDone
  PROVE  IInv'
<1>1. PICK r, o : r = pc /\ o = req[r].op
  OBVIOUS
<1>2. /\ pc # NoReq /\ pc' = NoReq /\ req[r].out = {} /\ Release(r)
      /\ called' = [called EXCEPT ![o] = IF req[r].cb THEN @ + 1 ELSE @]
      /\ result' = [result EXCEPT ![o] = Verdict(o, req[r].err)]
      /\ UNCHANGED <<up, call, buffer, asked, chan, link, outcome>>
  BY <1>1 DEF WaitDone
<1>3. /\ r \in Req /\ o \in Op /\ o # NoOp /\ req[r] # Free /\ req[r].op # NoOp
      /\ called[o] = 0 /\ called \in [Op -> Nat]
      /\ result \in [Op -> {"none", "ok", "error", "ipc"}]
  BY <1>1, <1>2, DistinctAssumption DEF IInv, TypeOK, WaitingOK, Request
<1>4. /\ called' \in [Op -> Nat] /\ result' \in [Op -> {"none", "ok", "error", "ipc"}]
      /\ \A p \in Op \ {o} : called'[p] = called[p] /\ result'[p] = result[p]
      /\ called'[o] \in {0, 1} /\ result'[o] = Verdict(o, req[r].err)
  BY <1>2, <1>3 DEF Verdict
<1>5. result'[o] # "none"
  BY <1>4 DEF Verdict
<1>6. Released /\ AnswersExpected' /\ OnceUnderWay' /\ OneOwner'
  BY <1>2, <1>3, ReleaseFacts
<1>7. Settled(r) /\ Whole(o)
  BY <1>3 DEF IInv, SettledOK, SuccessIsWhole
<1>8. Whole(o)'
  <2>1. CASE result'[o] = result[o]
    BY <1>2, <1>7, <2>1 DEF Whole
  <2>2. CASE result'[o] # result[o]
    <3>1. result'[o] = "ok" => result[o] = "none" /\ ~ req[r].err
      BY <1>4, <2>2 DEF Verdict
    <3>2. outcome[o] \in {"none", "good", "bad"}
      BY <1>3 DEF IInv, TypeOK
    <3> QED
      BY <1>1, <1>2, <1>3, <1>7, <3>1, <3>2 DEF Whole, Settled
  <2> QED
    BY <2>1, <2>2
<1>9. call[o].remote => outcome[o] # "none"
  BY <1>1, <1>2, <1>3, <1>7 DEF Settled
<1>10. \A n \in DOMAIN chan : chan[n].op # o
  <2> SUFFICES ASSUME NEW n \in DOMAIN chan, chan[n].op = o PROVE FALSE
    OBVIOUS
  <2>1. chan[n].id \in CReq /\ Expects(chan[n].id, o)
    BY UnderWay DEF Answer
  <2>2. creq[chan[n].id].req = r
    BY <1>1, <1>3, <2>1, Owner
  <2> QED
    BY <1>2, <2>1, <2>2 DEF Expects
<1> QED
  BY <1>1, <1>2, <1>3, <1>4, <1>5, <1>6, <1>8, <1>9, <1>10, EndOfWait

LEMMA WaitBrokenStep ==
  ASSUME IInv, WaitBroken
  PROVE  IInv'
<1>1. PICK r, o : r = pc /\ o = req[r].op
  OBVIOUS
<1>2. /\ pc # NoReq /\ pc' = NoReq /\ Release(r)
      /\ chan = <<>> /\ link = "eof"
      /\ result' = [result EXCEPT ![o] = Broken(o, req[r].err)]
      /\ called' = called
      /\ UNCHANGED <<up, call, buffer, asked, chan, link, outcome>>
  BY <1>1 DEF WaitBroken
<1>3. /\ r \in Req /\ o \in Op /\ o # NoOp /\ req[r] # Free /\ req[r].op # NoOp
      /\ called[o] = 0 /\ called \in [Op -> Nat]
      /\ result \in [Op -> {"none", "ok", "error", "ipc"}]
  BY <1>1, <1>2, DistinctAssumption DEF IInv, TypeOK, WaitingOK, Request
<1>4. /\ called' \in [Op -> Nat] /\ result' \in [Op -> {"none", "ok", "error", "ipc"}]
      /\ \A p \in Op \ {o} : called'[p] = called[p] /\ result'[p] = result[p]
      /\ called'[o] = 0 /\ result'[o] = Broken(o, req[r].err)
  BY <1>2, <1>3 DEF Broken, Verdict
<1>5. result'[o] # "none"
  BY <1>4 DEF Broken, Verdict
<1>6. asked = {}
  BY <1>2 DEF IInv, OnceUnderWay
<1>7. Released /\ AnswersExpected' /\ OnceUnderWay' /\ OneOwner'
  BY <1>2, <1>3, <1>6, ReleaseFacts
<1>8. Settled(r) /\ Whole(o)
  BY <1>3 DEF IInv, SettledOK, SuccessIsWhole
<1>9. Whole(o)'
  <2>1. CASE result'[o] = result[o]
    BY <1>2, <1>8, <2>1 DEF Whole
  <2>2. CASE result'[o] # result[o]
    <3>1. result'[o] = "ok" => result[o] = "none" /\ ~ req[r].err /\ ~ TellsIPC(call[o])
      BY <1>4, <2>2 DEF Broken, Verdict
    <3> QED
      BY <1>1, <1>2, <1>3, <1>8, <3>1 DEF Whole, Settled
  <2> QED
    BY <2>1, <2>2
<1>10. \A n \in DOMAIN chan : chan[n].op # o
  BY <1>2
<1> QED
  BY <1>1, <1>2, <1>3, <1>4, <1>5, <1>7, <1>9, <1>10, EndOfWait
-----------------------------------------------------------------------------
(* Starting an operation: it and its DistRequest are no other's, and so is *)
(* the CommReq if there is one.                                            *)
Launched(o, r, q, x) ==
  /\ up' \in BOOLEAN
  /\ req' \in [Req -> Request \cup {Free}]
  /\ req'[r] # Free /\ req'[r].op = o /\ o # NoOp
  /\ req'[r].out = IF x.remote THEN {q} ELSE {}
  /\ x.kind \in Reads /\ x.remote => req'[r].val = o
  /\ \A s \in Req \ {r} : req'[s] = req[s]
  /\ creq' \in [CReq -> CommReq \cup {Free}]
  /\ IF x.remote THEN creq[q] = Free /\ creq'[q] = [req |-> r, op |-> o, kind |-> x.kind]
                 ELSE creq'[q] = creq[q]
  /\ \A p \in CReq \ {q} : creq'[p] = creq[p]
  /\ x # Free /\ call'[o] = x /\ call' \in [Op -> Calls \cup {Free}]
  /\ \A p \in Op \ {o} : call'[p] = call[p]
  /\ buffer' \in [Op -> Op \cup {"unset", "local"}]
  /\ \A p \in Op \ {o} : buffer'[p] = buffer[p]
  /\ asked' = asked \/ (x.remote /\ link = "open" /\ asked' = asked \cup {[id |-> q, op |-> o]})

LEMMA LaunchFacts ==
  ASSUME IInv, NEW o \in Op, NEW r \in Req, NEW q \in CReq, NEW x \in Calls,
         NEW R \in Request, R.out = {}, Launch(o, r, q, x, R)
  PROVE  Launched(o, r, q, x) /\ req'[r].err = R.err
<1>1. /\ req \in [Req -> Request \cup {Free}]
      /\ creq \in [CReq -> CommReq \cup {Free}]
      /\ call \in [Op -> Calls \cup {Free}]
      /\ buffer \in [Op -> Op \cup {"unset", "local"}]
      /\ up \in BOOLEAN
  BY DEF IInv, TypeOK
<1>2. x \in Call /\ x # Free /\ x.kind \in Kind /\ x.remote \in BOOLEAN /\ o # NoOp
  BY CallsAssumption, DistinctAssumption DEF Call
<1> DEFINE N == [R EXCEPT !.op = o, !.val = IF x.kind = "get" \/ (x.kind = "samples" /\ x.remote)
                                  THEN o ELSE @,
                          !.out = Inserted(q, x, R)]
<1>3. /\ N \in Request /\ N.op = o /\ N.err = R.err
      /\ N.out = IF x.remote THEN {q} ELSE {}
      /\ x.kind \in Reads /\ x.remote => N.val = o
  BY <1>2 DEF Request, Inserted, Reads
<1>4. req' = [req EXCEPT ![r] = N]
  BY DEF Launch
<1> HIDE DEF N
<1>5. /\ req' \in [Req -> Request \cup {Free}] /\ req'[r] = N /\ N # Free
      /\ \A s \in Req \ {r} : req'[s] = req[s]
  BY <1>1, <1>3, <1>4, DistinctAssumption
<1>6. /\ call'[o] = x /\ call' \in [Op -> Calls \cup {Free}]
      /\ \A p \in Op \ {o} : call'[p] = call[p]
      /\ buffer' \in [Op -> Op \cup {"unset", "local"}]
      /\ \A p \in Op \ {o} : buffer'[p] = buffer[p]
  BY <1>1 DEF Launch
<1>7. /\ up' \in BOOLEAN
      /\ asked' = asked \/ (x.remote /\ link = "open" /\ asked' = asked \cup {[id |-> q, op |-> o]})
  BY <1>1 DEF Launch, Write
<1>8. /\ creq' \in [CReq -> CommReq \cup {Free}]
      /\ IF x.remote THEN creq[q] = Free /\ creq'[q] = [req |-> r, op |-> o, kind |-> x.kind]
                     ELSE creq'[q] = creq[q]
      /\ \A p \in CReq \ {q} : creq'[p] = creq[p]
  BY <1>1, <1>2 DEF Launch, CommReq
<1> QED
  BY <1>2, <1>3, <1>5, <1>6, <1>7, <1>8 DEF Launched

(* What a call that was started leaves, given what it returns.             *)
LEMMA StartOfCall ==
  ASSUME IInv, NEW o \in Op, NEW r \in Req, NEW q \in CReq, NEW x \in Calls,
         call[o] = Free, req[r] = Free \/ req[r].out = {},
         Launched(o, r, q, x), UNCHANGED <<chan, link, outcome>>,
         pc' \in Req \cup {NoReq}, WaitingOK',
         called' \in [Op -> Nat], result' \in [Op -> {"none", "ok", "error", "ipc"}],
         \A p \in Op \ {o} : called'[p] = called[p] /\ result'[p] = result[p],
         called'[o] <= 1, called'[o] # 0 => ~ x.remote,
         result'[o] = "ok" => x.local # "bad" /\ ~ x.remote,
         result'[o] = "none" /\ x.local = "bad" => req'[r].err
  PROVE  IInv'
<1>1. TypeOK'
  <2>1. asked' \in SUBSET [id : CReq, op : Op]
    BY DEF IInv, TypeOK, Launched
  <2> QED
    BY <2>1 DEF IInv, TypeOK, Launched
<1>2. ASSUME NEW p \in CReq, NEW u \in Op, Expects(p, u)
      PROVE  /\ u # o /\ (x.remote => p # q)
             /\ creq'[p] = creq[p] /\ creq[p].req \in Req \ {r}
  <2>1. call[u] # Free /\ creq[p].req \in Req
    BY <1>2, Owner
  <2>2. creq[p] # Free /\ creq[p].req # r
    BY <1>2 DEF Expects
  <2> QED
    BY <2>1, <2>2 DEF Launched
<1>3. /\ \A a \in asked : a.id \in CReq /\ a.op \in Op /\ Expects(a.id, a.op)
      /\ \A n \in DOMAIN chan :
           chan[n].id \in CReq /\ chan[n].op \in Op /\ Expects(chan[n].id, chan[n].op)
  BY UnderWay DEF Answer
<1>4. AnswersExpected'
  <2>1. ASSUME NEW a \in asked PROVE Expects(a.id, a.op)'
    <3>1. creq'[a.id] = creq[a.id] /\ creq[a.id].req \in Req \ {r}
      BY <1>2, <1>3
    <3>2. \A s \in Req \ {r} : req'[s] = req[s]
      BY DEF Launched
    <3> QED
      BY <1>3, <3>1, <3>2 DEF Expects
  <2>2. ASSUME NEW n \in DOMAIN chan PROVE Expects(chan[n].id, chan[n].op)'
    <3>1. creq'[chan[n].id] = creq[chan[n].id] /\ creq[chan[n].id].req \in Req \ {r}
      BY <1>2, <1>3
    <3>2. chan' = chan /\ \A s \in Req \ {r} : req'[s] = req[s]
      BY DEF Launched
    <3> QED
      BY <1>3, <3>1, <3>2 DEF Expects
  <2>3. x.remote => Expects(q, o)'
    <3>1. x \in Call
      BY CallsAssumption
    <3>2. [req |-> r, op |-> o, kind |-> x.kind] # Free
      BY <3>1, DistinctAssumption DEF Call, CommReq
    <3> QED
      BY <3>2 DEF Expects, Launched
  <2> QED
    BY <2>1, <2>2, <2>3 DEF AnswersExpected, Launched
<1>5. OnceUnderWay'
  <2>1. OnceUnderWay
    BY DEF IInv
  <2>2. x.remote => \A n \in DOMAIN chan : chan[n].id # q
    BY <1>2, <1>3
  <2> QED
    BY <2>1, <2>2 DEF OnceUnderWay, Launched
<1>6. \A s \in Req : req[s] # Free => req[s].op # o
  BY DistinctAssumption DEF IInv, OneOwner
<1>7. OneOwner'
  <2> SUFFICES ASSUME NEW s \in Req, req'[s] # Free
               PROVE  IF req'[s].op = NoOp THEN req'[s].out = {}
                      ELSE /\ call'[req'[s].op] # Free
                           /\ \A t \in Req : req'[t] # Free /\ req'[t].op = req'[s].op => t = s
    BY DEF OneOwner
  <2>1. CASE s = r
    BY <1>6, <2>1 DEF Launched
  <2>2. CASE s # r
    <3>1. req'[s] = req[s] /\ req[s] # Free /\ req[s].op \in Op \cup {NoOp} /\ req[s].op # o
      BY <1>6, <2>2 DEF Launched, IInv, TypeOK, Request
    <3>2. req[s].op = NoOp => req[s].out = {}
      BY <3>1 DEF IInv, OneOwner
    <3>3. req[s].op # NoOp => /\ call[req[s].op] # Free
                              /\ \A t \in Req : req[t] # Free /\ req[t].op = req[s].op => t = s
      BY <3>1 DEF IInv, OneOwner
    <3> QED
      BY <3>1, <3>2, <3>3 DEF Launched
  <2> QED
    BY <2>1, <2>2
<1>8. OutcomesOK'
  <2>1. OutcomesOK
    BY DEF IInv
  <2>2. \A p \in Op : call'[p] = Free => result'[p] = "none" /\ called'[p] = 0 /\ outcome[p] = "none"
    BY <2>1 DEF OutcomesOK, Launched
  <2>3. \A a \in asked' : outcome[a.op] = "none"
    BY <2>1 DEF OutcomesOK, Launched
  <2>4. \A p \in CReq : creq'[p] # Free => /\ call'[creq'[p].op] # Free
                                           /\ creq'[p].kind = call'[creq'[p].op].kind
    <3> SUFFICES ASSUME NEW p \in CReq, creq'[p] # Free
                 PROVE  /\ call'[creq'[p].op] # Free
                        /\ creq'[p].kind = call'[creq'[p].op].kind
      OBVIOUS
    <3>1. CASE p = q /\ x.remote
      BY <3>1 DEF Launched
    <3>2. CASE ~ (p = q /\ x.remote)
      <4>1. creq'[p] = creq[p]
        BY <3>2 DEF Launched
      <4>2. /\ creq[p].op \in Op /\ call[creq[p].op] # Free
            /\ creq[p].kind = call[creq[p].op].kind
        BY <2>1, <4>1 DEF OutcomesOK, IInv, TypeOK, CommReq
      <4> QED
        BY <4>1, <4>2 DEF Launched
    <3> QED
      BY <3>1, <3>2
  <2> QED
    BY <2>1, <2>2, <2>3, <2>4 DEF OutcomesOK
<1>9. SettledOK'
  <2>1. Settled(r)'
    BY DEF Settled, Launched
  <2>2. ASSUME NEW s \in Req \ {r} PROVE Settled(s)'
    <3>1. Settled(s)
      BY DEF IInv, SettledOK
    <3>2. req[s] # Free /\ req[s].op # NoOp => req[s].op \in Op \ {o}
      BY <1>6 DEF IInv, TypeOK, Request
    <3> QED
      BY <3>1, <3>2 DEF Settled, Launched
  <2> QED
    BY <2>1, <2>2 DEF SettledOK
<1>10. SuccessIsWhole'
  <2>1. Whole(o)'
    BY DEF Whole, Launched
  <2>2. ASSUME NEW p \in Op \ {o} PROVE Whole(p)'
    <3>1. Whole(p)
      BY DEF IInv, SuccessIsWhole
    <3> QED
      BY <3>1 DEF Whole, Launched
  <2> QED
    BY <2>1, <2>2 DEF SuccessIsWhole
<1>11. CallbackOnce'
  <2>1. CallbackOnce
    BY DEF IInv
  <2>2. \A n \in DOMAIN chan : chan[n].op # o
    BY <1>2, <1>3
  <2>3. ASSUME NEW p \in Op
        PROVE  /\ called'[p] <= 1
               /\ called'[p] = 1 /\ call'[p].remote => outcome[p] # "none" /\ result'[p] # "none"
               /\ called'[p] = 1 => \A n \in DOMAIN chan : chan[n].op # p
    <3>1. CASE p = o
      BY <2>2, <3>1 DEF Launched
    <3>2. CASE p # o
      BY <2>1, <3>2 DEF CallbackOnce, Launched
    <3> QED
      BY <3>1, <3>2
  <2> QED
    BY <2>3 DEF CallbackOnce
<1> QED
  BY <1>1, <1>4, <1>5, <1>7, <1>8, <1>9, <1>10, <1>11 DEF IInv
LEMMA IssueStep ==
  ASSUME IInv, NEW o \in Op, NEW r \in Req, NEW q \in CReq, NEW x \in Calls, Issue(o, r, q, x)
  PROVE  IInv'
<1>1. pc = NoReq /\ call[o] = Free /\ req[r] # Free /\ req[r].out = {}
  BY DEF Issue, Running
<1>2. CASE Refuse(o, x)
  BY <1>1, <1>2, RefuseStep
<1>3. CASE ~ Refuse(o, x)
  <2> DEFINE R == [req[r] EXCEPT !.err = FALSE]
             back == Finished(r, x) /\ req[r].cb
  <2>1. /\ Launch(o, r, q, x, R)
        /\ called' = [called EXCEPT ![o] = IF back THEN @ + 1 ELSE @]
        /\ result' = [result EXCEPT ![o] = IF x.local = "bad" THEN "error"
                                           ELSE IF back THEN "ok" ELSE @]
        /\ UNCHANGED <<chan, link, outcome>> /\ pc' = pc
    BY <1>3 DEF Issue
  <2>2. R \in Request /\ R.out = {}
    <3>1. req[r] \in Request
      BY <1>1 DEF IInv, TypeOK
    <3> QED
      BY <1>1, <3>1 DEF Request
  <2>3. back => ~ x.remote /\ x.local # "bad"
    BY DEF Finished
  <2> HIDE DEF R, back
  <2>4. Launched(o, r, q, x)
    BY <2>1, <2>2, LaunchFacts
  <2>5. /\ called \in [Op -> Nat] /\ result \in [Op -> {"none", "ok", "error", "ipc"}]
        /\ called[o] = 0 /\ result[o] = "none"
    BY <1>1 DEF IInv, TypeOK, OutcomesOK
  <2>6. /\ called' \in [Op -> Nat] /\ result' \in [Op -> {"none", "ok", "error", "ipc"}]
        /\ \A p \in Op \ {o} : called'[p] = called[p] /\ result'[p] = result[p]
        /\ called'[o] = (IF back THEN 1 ELSE 0)
        /\ result'[o] = IF x.local = "bad" THEN "error" ELSE IF back THEN "ok" ELSE "none"
    BY <2>1, <2>5
  <2>7. pc' = NoReq /\ WaitingOK'
    BY <1>1, <2>1 DEF WaitingOK
  <2>8. /\ called'[o] <= 1
        /\ called'[o] # 0 => ~ x.remote
        /\ result'[o] = "ok" => x.local # "bad" /\ ~ x.remote
        /\ ~ (result'[o] = "none" /\ x.local = "bad")
    BY <2>3, <2>6
  <2> QED
    BY <1>1, <2>1, <2>4, <2>6, <2>7, <2>8, StartOfCall
<1> QED
  BY <1>2, <1>3

LEMMA BlockStep ==
  ASSUME IInv, NEW o \in Op, NEW r \in Req, NEW q \in CReq, NEW x \in Calls, Block(o, r, q, x)
  PROVE  IInv'
<1>1. call[o] = Free /\ req[r] = Free
  BY DEF Block
<1>2. CASE Refuse(o, x)
  BY <1>1, <1>2, RefuseStep
<1>3. CASE ~ Refuse(o, x)
  <2> DEFINE R == [NewRequest(FALSE) EXCEPT !.err = (x.local = "bad")]
  <2>1. /\ Launch(o, r, q, x, R) /\ pc' = r
        /\ UNCHANGED <<result, called>> /\ UNCHANGED <<chan, link, outcome>>
    BY <1>3 DEF Block
  <2>2. R \in Request /\ R.out = {} /\ R.err = (x.local = "bad")
    BY DEF NewRequest, Request
  <2> HIDE DEF R
  <2>3. Launched(o, r, q, x) /\ req'[r].err = (x.local = "bad")
    BY <2>1, <2>2, LaunchFacts
  <2>4. /\ called \in [Op -> Nat] /\ result \in [Op -> {"none", "ok", "error", "ipc"}]
        /\ called[o] = 0 /\ result[o] = "none"
    BY <1>1 DEF IInv, TypeOK, OutcomesOK
  <2>5. WaitingOK'
    BY <2>1, <2>3, <2>4 DEF WaitingOK, Launched
  <2>6. /\ pc' \in Req \cup {NoReq}
        /\ called' \in [Op -> Nat] /\ result' \in [Op -> {"none", "ok", "error", "ipc"}]
        /\ \A p \in Op \ {o} : called'[p] = called[p] /\ result'[p] = result[p]
        /\ called'[o] = 0 /\ result'[o] = "none"
    BY <2>1, <2>4
  <2>7. called'[o] <= 1
    BY <2>6
  <2> QED
    BY <1>1, <2>1, <2>3, <2>5, <2>6, <2>7, StartOfCall
<1> QED
  BY <1>2, <1>3

-----------------------------------------------------------------------------
(* IInv is an invariant: each action of the process and of the other end   *)
(* preserves it.                                                           *)
LEMMA NextHolds ==
  ASSUME IInv, [Next]_vars
  PROVE  IInv'
<1>1. CASE \E r \in Req, cb \in BOOLEAN : ReqCreate(r, cb)
  BY <1>1, ReqCreateStep
<1>2. CASE \E o \in Op, r \in Req, q \in CReq, x \in Calls : Issue(o, r, q, x)
  BY <1>2, IssueStep
<1>3. CASE \E o \in Op, r \in Req, q \in CReq, x \in Calls : Block(o, r, q, x)
  BY <1>3, BlockStep
<1>4. CASE \E r \in Req : ReqWait(r)
  BY <1>4, ReqWaitStep
<1>5. CASE \E r \in Req : ReqDestroy(r)
  BY <1>5, ReqDestroyStep
<1>6. CASE Wait
  BY <1>6, WaitReadStep, WaitDoneStep, WaitBrokenStep, EndStep DEF Wait
<1>7. CASE MakeProgress
  BY <1>7, MakeProgressStep
<1>8. CASE ProgressFails
  BY <1>8, EndStep
<1>9. CASE \E a \in asked, bad \in BOOLEAN : Reply(a, bad)
  BY <1>9, ReplyStep
<1>10. CASE \E how \in {"eof", "reset"} : Close(how)
  BY <1>10, CloseStep
<1>11. CASE UNCHANGED vars
  <2>1. UNCHANGED <<up, req, creq, pc, call, result, called, buffer, asked, chan, link, outcome>>
    BY <1>11 DEF vars, appVars
  <2>2. TypeOK'
    BY <2>1 DEF IInv, TypeOK
  <2>3. AnswersExpected' /\ OnceUnderWay'
    BY <2>1 DEF IInv, AnswersExpected, Expects, OnceUnderWay
  <2>4. OutcomesOK' /\ OneOwner' /\ SettledOK' /\ WaitingOK'
    BY <2>1 DEF IInv, OutcomesOK, OneOwner, SettledOK, Settled, WaitingOK
  <2>5. SuccessIsWhole' /\ CallbackOnce'
    BY <2>1 DEF IInv, SuccessIsWhole, Whole, CallbackOnce
  <2> QED
    BY <2>2, <2>3, <2>4, <2>5 DEF IInv
<1> QED
  BY <1>1, <1>2, <1>3, <1>4, <1>5, <1>6, <1>7, <1>8, <1>9, <1>10, <1>11 DEF Next

THEOREM Inductive == Spec => []IInv
<1>1. Init => IInv
  BY InitHolds
<1>2. IInv /\ [Next]_vars => IInv'
  BY NextHolds
<1> QED
  BY <1>1, <1>2, PTL DEF Spec

(* The variables keep their types.                                         *)
THEOREM TypesHold == Spec => []TypeOK
<1>1. IInv => TypeOK
  BY DEF IInv
<1> QED
  BY <1>1, Inductive, PTL

(* No answer, whichever of wait and makeProgress reads it and whatever     *)
(* other requests are under way, finds a CommReq or a DistRequest that is  *)
(* gone or another operation's.                                            *)
THEOREM AnswersFindTheirRequest == Spec => []AnswersExpected
<1>1. IInv => AnswersExpected
  BY DEF IInv
<1> QED
  BY <1>1, Inductive, PTL

(* A caller that is told of success has all its values and no error, but   *)
(* for the exceptions SuccessIsWhole names.                                *)
THEOREM SuccessMeansAll == Spec => []SuccessIsWhole
<1>1. IInv => SuccessIsWhole
  BY DEF IInv
<1> QED
  BY <1>1, Inductive, PTL

(* No operation calls back twice, or before its answer was handled.        *)
THEOREM CallsBackOnce == Spec => []CallbackOnce
<1>1. IInv => CallbackOnce
  BY DEF IInv
<1> QED
  BY <1>1, Inductive, PTL
=============================================================================
