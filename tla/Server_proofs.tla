--------------------------- MODULE Server_proofs ---------------------------
(***************************************************************************)
(* Proofs, for any clients, communicators, objects and requests, of what   *)
(* Server says of the answers a server gives.  Neither OwnReply nor        *)
(* FiniOnce is inductive: that a request is answered for the object of its *)
(* communicator needs to know where every event and every entry of the two *)
(* maps comes from (InboxOwn, CommsOwn, UnderOwn); that none is answered   *)
(* twice, that a request still in the channel is not under way and has no  *)
(* answer yet (Fresh).                                                     *)
(***************************************************************************)
EXTENDS Server, TLAPS

Under == finiMap \union up \union Range(upAns)
Entry == [req : Request, obj : ServedObj]

SrvTypeOK ==
  /\ inbox \in Seq(Event) /\ out \in Seq(Reply) /\ upAns \in Seq(Entry)
  /\ made \in [CommId -> ServedObj \union {NoObj}]
  /\ commMap \in [CommId -> ServedObj \union {NoObj}]
  /\ asked \subseteq Request
  /\ finiMap \subseteq Entry /\ up \subseteq Entry

AskedOnce == \A p, q \in asked : p.id = q.id => p = q

InboxOwn ==
  \A i \in DOMAIN inbox :
    /\ inbox[i].type = "create" => inbox[i].obj = made[inbox[i].comm]
    /\ inbox[i].type = "request" => inbox[i].req \in asked

CommsOwn == \A k \in CommId : commMap[k] \in {NoObj, made[k]}

UnderOwn == \A f \in Under : f.req \in asked /\ f.obj = made[f.req.comm]

Fresh ==
  /\ \A i \in DOMAIN inbox : inbox[i].type = "request" =>
       inbox[i].req.id \notin Ids(Under) \union Replied
  /\ \A i, j \in DOMAIN inbox :
       inbox[i].type = "request" /\ inbox[j].type = "request"
         /\ inbox[i].req.id = inbox[j].req.id => i = j

SrvIInv ==
  /\ SrvTypeOK /\ AskedOnce /\ InboxOwn /\ CommsOwn /\ UnderOwn /\ Fresh
  /\ OwnReply /\ FiniOnce

-----------------------------------------------------------------------------
(* Sequences.                                                              *)
LEMMA TailFacts ==
  ASSUME NEW S, NEW s \in Seq(S), s # <<>>
  PROVE  /\ Tail(s) \in Seq(S) /\ Head(s) \in S /\ Head(s) = s[1] /\ 1 \in DOMAIN s
         /\ \A i \in DOMAIN Tail(s) : i + 1 \in DOMAIN s /\ i # 0 /\ i \in Nat
                                      /\ Tail(s)[i] = s[i + 1]
         /\ Range(Tail(s)) \subseteq Range(s) /\ Head(s) \in Range(s)
         /\ Range(s) = Range(Tail(s)) \union {Head(s)}
<1>1. Len(s) \in Nat \ {0} /\ DOMAIN s = 1..Len(s) /\ DOMAIN Tail(s) = 1..(Len(s) - 1)
  OBVIOUS
<1>2. \A i \in DOMAIN Tail(s) : i + 1 \in DOMAIN s /\ i # 0 /\ i \in Nat /\ Tail(s)[i] = s[i + 1]
  BY <1>1
<1>3. \A x \in Range(s) : x = Head(s) \/ x \in Range(Tail(s))
  <2> SUFFICES ASSUME NEW i \in DOMAIN s PROVE s[i] = Head(s) \/ s[i] \in Range(Tail(s))
    BY DEF Range
  <2>1. CASE i = 1
    BY <2>1
  <2>2. CASE i # 1
    <3>1. i - 1 \in DOMAIN Tail(s) /\ Tail(s)[i - 1] = s[i]
      BY <1>1, <2>2
    <3> QED BY <3>1 DEF Range
  <2> QED BY <2>1, <2>2
<1> QED BY <1>1, <1>2, <1>3 DEF Range

LEMMA AppendFacts ==
  ASSUME NEW S, NEW s \in Seq(S), NEW e \in S
  PROVE  /\ Append(s, e) \in Seq(S)
         /\ DOMAIN Append(s, e) = DOMAIN s \union {Len(s) + 1} /\ Len(s) + 1 \notin DOMAIN s
         /\ \A i \in DOMAIN s : Append(s, e)[i] = s[i]
         /\ Append(s, e)[Len(s) + 1] = e
         /\ Range(Append(s, e)) = Range(s) \union {e}
<1>1. /\ Append(s, e) \in Seq(S) /\ DOMAIN Append(s, e) = 1..(Len(s) + 1)
      /\ DOMAIN s = 1..Len(s) /\ Len(s) \in Nat
  OBVIOUS
<1>2. /\ \A i \in DOMAIN s : Append(s, e)[i] = s[i]
      /\ Append(s, e)[Len(s) + 1] = e
  OBVIOUS
<1>3. DOMAIN Append(s, e) = DOMAIN s \union {Len(s) + 1} /\ Len(s) + 1 \notin DOMAIN s
  BY <1>1
<1> QED BY <1>1, <1>2, <1>3 DEF Range

-----------------------------------------------------------------------------
LEMMA SrvInitInv == SrvInit => SrvIInv
<1> SUFFICES ASSUME SrvInit PROVE SrvIInv
  OBVIOUS
<1> USE DEF SrvInit
<1>1. SrvTypeOK
  BY DEF SrvTypeOK
<1>2. DOMAIN inbox = {} /\ DOMAIN out = {} /\ DOMAIN upAns = {} /\ Range(upAns) = {}
  BY DEF Range
<1>3. AskedOnce /\ InboxOwn /\ CommsOwn /\ UnderOwn /\ Fresh
  BY <1>2 DEF AskedOnce, InboxOwn, CommsOwn, UnderOwn, Under, Fresh, Ids
<1>4. OwnReply /\ FiniOnce
  BY <1>2 DEF OwnReply, FiniOnce, Ids, Replied
<1> QED BY <1>1, <1>3, <1>4 DEF SrvIInv

(* What the router does: nothing but the channel and its own records.      *)
LEMMA RtrCreatesInv ==
  ASSUME SrvIInv, NEW k \in CommId, NEW o \in ServedObj, RtrCreates(k, o)
  PROVE  SrvIInv'
<1> DEFINE e == [type |-> "create", comm |-> k, obj |-> o]
<1> USE DEF SrvIInv, RtrCreates
<1>1. e \in Event /\ inbox \in Seq(Event) /\ inbox' = Append(inbox, e)
  BY DEF Event, SrvTypeOK, Sends
<1>2. /\ inbox' \in Seq(Event) /\ DOMAIN inbox' = DOMAIN inbox \union {Len(inbox) + 1}
      /\ \A i \in DOMAIN inbox : inbox'[i] = inbox[i]
      /\ inbox'[Len(inbox) + 1] = e
  BY <1>1, AppendFacts
<1>3. /\ made' \in [CommId -> ServedObj \union {NoObj}] /\ made'[k] = o
      /\ \A m \in CommId : made[m] # NoObj => made'[m] = made[m]
  BY DEF SrvTypeOK
<1>4. SrvTypeOK'
  BY <1>2, <1>3 DEF SrvTypeOK
<1>5. AskedOnce'
  BY DEF AskedOnce
<1>6. InboxOwn'
  <2>1. \A i \in DOMAIN inbox : inbox[i].type = "create" =>
           inbox[i].comm \in CommId /\ inbox[i].obj \in ServedObj
    <3> SUFFICES ASSUME NEW i \in DOMAIN inbox, inbox[i].type = "create"
                 PROVE  inbox[i].comm \in CommId /\ inbox[i].obj \in ServedObj
      OBVIOUS
    <3>1. inbox[i] \in Event
      BY <1>1
    <3> QED BY <3>1 DEF Event
  <2>2. \A i \in DOMAIN inbox : inbox[i].type = "create" => inbox[i].obj = made'[inbox[i].comm]
    BY <2>1, <1>3, ServerAssumption DEF InboxOwn
  <2> QED BY <1>2, <1>3, <2>2 DEF InboxOwn
<1>7. CommsOwn'
  BY <1>3, ServerAssumption DEF CommsOwn, SrvTypeOK
<1>8. \A r \in Request : r.comm \in CommId
  BY DEF Request
<1>9. UnderOwn'
  <2>1. \A f \in Under : f \in Entry
    BY DEF Under, SrvTypeOK, Range
  <2>2. Under' = Under
    BY DEF Under
  <2> QED BY <1>3, <1>8, <2>1, <2>2, ServerAssumption DEF UnderOwn, Entry
<1>10. Fresh'
  BY <1>2 DEF Fresh, Under, Replied, Ids
<1>11. OwnReply'
  <2> SUFFICES ASSUME NEW i \in DOMAIN out
               PROVE \E q \in asked : q.id = out[i].id /\ out[i].dest = q.src /\ out[i].obj = made'[q.comm]
    BY DEF OwnReply
  <2>1. out[i] \in Reply
    BY DEF SrvTypeOK
  <2>2. PICK q \in asked : q.id = out[i].id /\ out[i].dest = q.src /\ out[i].obj = made[q.comm]
    BY DEF OwnReply
  <2>3. q.comm \in CommId /\ made[q.comm] # NoObj
    BY <2>1, <2>2, <1>8, ServerAssumption DEF Reply, SrvTypeOK
  <2> QED BY <2>2, <2>3, <1>3
<1>12. FiniOnce'
  BY DEF FiniOnce, Replied, Ids
<1> QED BY <1>4, <1>5, <1>6, <1>7, <1>9, <1>10, <1>11, <1>12

LEMMA RtrDestroysInv ==
  ASSUME SrvIInv, NEW k \in CommId, RtrDestroys(k)
  PROVE  SrvIInv'
<1> DEFINE e == [type |-> "destroy", comm |-> k]
<1> USE DEF SrvIInv, RtrDestroys
<1>1. e \in Event /\ inbox \in Seq(Event) /\ inbox' = Append(inbox, e)
  BY DEF Event, SrvTypeOK, Sends
<1>2. /\ inbox' \in Seq(Event) /\ DOMAIN inbox' = DOMAIN inbox \union {Len(inbox) + 1}
      /\ \A i \in DOMAIN inbox : inbox'[i] = inbox[i]
      /\ inbox'[Len(inbox) + 1].type = "destroy"
  BY <1>1, AppendFacts
<1>3. SrvTypeOK' /\ AskedOnce' /\ CommsOwn' /\ UnderOwn'
  BY <1>2 DEF SrvTypeOK, AskedOnce, CommsOwn, UnderOwn, Under
<1>4. InboxOwn'
  BY <1>2 DEF InboxOwn
<1>5. Fresh'
  BY <1>2 DEF Fresh, Under, Replied, Ids
<1>6. OwnReply' /\ FiniOnce'
  BY DEF OwnReply, FiniOnce, Replied, Ids
<1> QED BY <1>3, <1>4, <1>5, <1>6

(* The id of a new request is one that nothing has had before.             *)
LEMMA RtrAsksInv ==
  ASSUME SrvIInv, NEW q \in Request, RtrAsks(q)
  PROVE  SrvIInv'
<1> DEFINE e == [type |-> "request", req |-> q]
<1> USE DEF SrvIInv, RtrAsks
<1>1. e \in Event /\ inbox \in Seq(Event) /\ inbox' = Append(inbox, e)
  BY DEF Event, SrvTypeOK, Sends
<1>2. /\ inbox' \in Seq(Event) /\ DOMAIN inbox' = DOMAIN inbox \union {Len(inbox) + 1}
      /\ \A i \in DOMAIN inbox : inbox'[i] = inbox[i]
      /\ inbox'[Len(inbox) + 1] = e
  BY <1>1, AppendFacts
<1>3. \A p \in asked : p.id # q.id
  OBVIOUS
<1>4. SrvTypeOK' /\ AskedOnce' /\ CommsOwn' /\ UnderOwn'
  BY <1>2, <1>3 DEF SrvTypeOK, AskedOnce, CommsOwn, UnderOwn, Under
<1>5. InboxOwn'
  BY <1>2 DEF InboxOwn
<1>6. q.id \notin Ids(Under) \union Replied
  BY <1>3 DEF UnderOwn, OwnReply, Ids, Replied
<1>7. \A i \in DOMAIN inbox : inbox[i].type = "request" => inbox[i].req.id # q.id
  BY <1>3 DEF InboxOwn
<1>8. Fresh'
  <2>1. Under' = Under /\ Replied' = Replied
    BY DEF Under, Replied
  <2> QED BY <1>2, <1>6, <1>7, <2>1 DEF Fresh, Ids
<1>9. OwnReply' /\ FiniOnce'
  BY DEF OwnReply, FiniOnce, Replied, Ids
<1> QED BY <1>4, <1>5, <1>8, <1>9

-----------------------------------------------------------------------------
(* What the server does with the first event of the channel.               *)
LEMMA TakesFacts ==
  ASSUME SrvTypeOK, NEW e, TakesOff(e)
  PROVE  /\ srv = "runs" /\ inbox' \in Seq(Event) /\ 1 \in DOMAIN inbox /\ e = inbox[1] /\ e \in Event
         /\ \A i \in DOMAIN inbox' : i + 1 \in DOMAIN inbox /\ i # 0 /\ i \in Nat
                                      /\ inbox'[i] = inbox[i + 1]
BY TailFacts DEF TakesOff, SrvTypeOK

(* The rest of the channel is as it should be.                             *)
LEMMA TakesKeeps ==
  ASSUME SrvIInv, NEW e, TakesOff(e), made' = made, asked' = asked
  PROVE  /\ InboxOwn'
         /\ Ids(Under)' \subseteq Ids(Under) /\ Replied' \subseteq Replied => Fresh'
<1> USE DEF SrvIInv
<1>1. \A i \in DOMAIN inbox' : i + 1 \in DOMAIN inbox /\ i # 0 /\ i \in Nat
                               /\ inbox'[i] = inbox[i + 1]
  BY TakesFacts
<1>2. InboxOwn'
  BY <1>1 DEF InboxOwn
<1>3. ASSUME Ids(Under)' \subseteq Ids(Under), Replied' \subseteq Replied PROVE Fresh'
  <2>1. \A i \in DOMAIN inbox' : inbox'[i].type = "request" =>
           inbox'[i].req.id \notin Ids(Under)' \union Replied'
    BY <1>1, <1>3 DEF Fresh
  <2>2. \A i, j \in DOMAIN inbox' :
       inbox'[i].type = "request" /\ inbox'[j].type = "request"
         /\ inbox'[i].req.id = inbox'[j].req.id => i = j
    <3> SUFFICES ASSUME NEW i \in DOMAIN inbox', NEW j \in DOMAIN inbox',
                        inbox'[i].type = "request", inbox'[j].type = "request",
                        inbox'[i].req.id = inbox'[j].req.id
                 PROVE  i = j
      OBVIOUS
    <3>1. i + 1 = j + 1
      BY <1>1 DEF Fresh
    <3> QED BY <1>1, <3>1
  <2> QED BY <2>1, <2>2 DEF Fresh
<1> QED BY <1>2, <1>3

LEMMA CommCreateInv ==
  ASSUME SrvIInv, NEW e, SrvCommCreate(e)
  PROVE  SrvIInv'
<1> USE DEF SrvIInv, SrvCommCreate
<1>1. /\ inbox' \in Seq(Event) /\ 1 \in DOMAIN inbox /\ e = inbox[1] /\ e \in Event
      /\ made' = made /\ asked' = asked
  BY TakesFacts DEF srvEnv
<1>2. e.comm \in CommId /\ e.obj \in ServedObj /\ e.obj = made[e.comm]
  BY <1>1 DEF Event, InboxOwn
<1>3. SrvTypeOK' /\ AskedOnce'
  BY <1>1, <1>2 DEF SrvTypeOK, AskedOnce
<1>4. CommsOwn'
  BY <1>1, <1>2 DEF CommsOwn, SrvTypeOK
<1>5. Under' = Under /\ Replied' = Replied
  BY DEF Under, Replied
<1>6. InboxOwn' /\ Fresh'
  BY <1>1, <1>5, TakesKeeps DEF Ids
<1>7. UnderOwn'
  BY <1>1, <1>5 DEF UnderOwn
<1>8. OwnReply'
  BY <1>1 DEF OwnReply
<1>9. FiniOnce'
  BY <1>5 DEF FiniOnce, Ids
<1> QED BY <1>3, <1>4, <1>6, <1>7, <1>8, <1>9

LEMMA CommDestroyInv ==
  ASSUME SrvIInv, NEW e, SrvCommDestroy(e)
  PROVE  SrvIInv'
<1> USE DEF SrvIInv, SrvCommDestroy
<1>1. /\ inbox' \in Seq(Event) /\ 1 \in DOMAIN inbox /\ e = inbox[1] /\ e \in Event
      /\ made' = made /\ asked' = asked
  BY TakesFacts DEF srvEnv
<1>2. e.comm \in CommId
  BY <1>1 DEF Event
<1>3. SrvTypeOK' /\ AskedOnce' /\ CommsOwn'
  BY <1>1, <1>2 DEF SrvTypeOK, AskedOnce, CommsOwn
<1>4. Under' = Under /\ Replied' = Replied
  BY DEF Under, Replied
<1>5. InboxOwn' /\ Fresh'
  BY <1>1, <1>4, TakesKeeps DEF Ids
<1>6. UnderOwn'
  BY <1>1, <1>4 DEF UnderOwn
<1>7. OwnReply'
  BY <1>1 DEF OwnReply
<1>8. FiniOnce'
  BY <1>4 DEF FiniOnce, Ids
<1> QED BY <1>3, <1>5, <1>6, <1>7, <1>8


(* A request that is taken off is known nowhere else.                      *)
LEMMA FirstRequest ==
  ASSUME SrvIInv, NEW e, TakesOff(e), e.type = "request"
  PROVE  /\ e.req \in Request /\ e.req \in asked /\ e.req.comm \in CommId
         /\ e.req.id \notin Ids(Under) /\ e.req.id \notin Replied
<1> USE DEF SrvIInv
<1>1. 1 \in DOMAIN inbox /\ e = inbox[1] /\ e \in Event
  BY TakesFacts
<1>2. e.req \in Request /\ e.req \in asked
  BY <1>1 DEF Event, InboxOwn
<1>3. e.req.comm \in CommId
  BY <1>2 DEF Request
<1>4. e.req.id \notin Ids(Under) /\ e.req.id \notin Replied
  BY <1>1 DEF Fresh
<1> QED BY <1>2, <1>3, <1>4

(* And what is behind it stays as fresh as it was.                         *)
LEMMA TakesRequest ==
  ASSUME SrvIInv, NEW e, TakesOff(e), e.type = "request", asked' = asked,
         Ids(Under)' \union Replied' \subseteq Ids(Under) \union Replied \union {e.req.id}
  PROVE  Fresh'
<1> USE DEF SrvIInv
<1>1. /\ 1 \in DOMAIN inbox /\ e = inbox[1] /\ e \in Event
      /\ \A i \in DOMAIN inbox' : i + 1 \in DOMAIN inbox /\ i # 0 /\ i \in Nat
                                   /\ inbox'[i] = inbox[i + 1]
  BY TakesFacts
<1>5. \A i \in DOMAIN inbox' : inbox'[i].type = "request" =>
         inbox'[i].req.id \notin Ids(Under)' \union Replied'
  <2> SUFFICES ASSUME NEW i \in DOMAIN inbox', inbox'[i].type = "request"
               PROVE  inbox'[i].req.id \notin Ids(Under)' \union Replied'
    OBVIOUS
  <2>1. i + 1 # 1 /\ i + 1 \in DOMAIN inbox /\ inbox'[i] = inbox[i + 1]
    BY <1>1
  <2>2. inbox[i + 1].req.id # e.req.id
    BY <1>1, <2>1 DEF Fresh
  <2> QED BY <2>1, <2>2 DEF Fresh
<1>6. \A i, j \in DOMAIN inbox' :
        inbox'[i].type = "request" /\ inbox'[j].type = "request"
          /\ inbox'[i].req.id = inbox'[j].req.id => i = j
  <2> SUFFICES ASSUME NEW i \in DOMAIN inbox', NEW j \in DOMAIN inbox',
                      inbox'[i].type = "request", inbox'[j].type = "request",
                      inbox'[i].req.id = inbox'[j].req.id
               PROVE  i = j
    OBVIOUS
  <2>1. i + 1 = j + 1
    BY <1>1 DEF Fresh
  <2> QED BY <1>1, <2>1
<1> QED BY <1>5, <1>6 DEF Fresh

(* What Fini does for an entry that is there: one answer, for its object.  *)
LEMMA FiniFacts ==
  ASSUME SrvIInv, NEW f \in Entry, NEW fs, f \in fs, NEW err \in BOOLEAN, Fini(f, fs, err),
         f.req \in asked, f.obj = made[f.req.comm], f.req.id \notin Replied,
         made' = made, asked' = asked
  PROVE  /\ srv' = srv /\ finiMap' = fs \ {f} /\ out' \in Seq(Reply)
         /\ Replied' = Replied \union {f.req.id}
         /\ OwnReply'
         /\ \A i, j \in DOMAIN out' : out'[i].id = out'[j].id => i = j
<1> USE DEF SrvIInv
<1>1. srv' = srv /\ finiMap' = fs \ {f} /\ out' = Append(out, ReplyTo(f, err))
  BY DEF Fini
<1>2. f.req \in Request /\ f.obj \in ServedObj
  BY DEF Entry
<1>3. ReplyTo(f, err) \in Reply
  BY <1>2 DEF ReplyTo, Reply, Request
<1>4. out \in Seq(Reply)
  BY DEF SrvTypeOK
<1>5. /\ out' \in Seq(Reply)
      /\ DOMAIN out' = DOMAIN out \union {Len(out) + 1} /\ Len(out) + 1 \notin DOMAIN out
      /\ \A i \in DOMAIN out : out'[i] = out[i]
      /\ out'[Len(out) + 1] = ReplyTo(f, err)
  BY <1>1, <1>3, <1>4, AppendFacts
<1>6. /\ ReplyTo(f, err).id = f.req.id /\ ReplyTo(f, err).dest = f.req.src
      /\ ReplyTo(f, err).obj = f.obj
  BY DEF ReplyTo
<1>7. Replied' = Replied \union {f.req.id}
  <2>1. \A i \in DOMAIN out' : out'[i].id \in Replied \union {f.req.id}
    BY <1>5, <1>6 DEF Replied
  <2>2. \A i \in DOMAIN out : out[i].id \in Replied'
    BY <1>5 DEF Replied
  <2>3. f.req.id \in Replied'
    BY <1>5, <1>6 DEF Replied
  <2> QED BY <2>1, <2>2, <2>3 DEF Replied
<1>8. OwnReply'
  BY <1>5, <1>6 DEF OwnReply
<1>9. \A i, j \in DOMAIN out' : out'[i].id = out'[j].id => i = j
  BY <1>5, <1>6 DEF FiniOnce, Replied
<1> QED BY <1>1, <1>5, <1>7, <1>8, <1>9


(* The three ways of a request: to nothing, answered inside the call, and  *)
(* on its way above.                                                       *)
LEMMA RequestInv ==
  ASSUME SrvIInv, NEW e, e.type = "request", SrvRequest(e)
  PROVE  SrvIInv'
<1> DEFINE q == e.req  o == commMap[q.comm]  f == [req |-> q, obj |-> o]
<1> USE DEF SrvIInv
<1>1. /\ TakesOff(e) /\ made' = made /\ asked' = asked /\ commMap' = commMap /\ upAns' = upAns
      /\ srv = "runs" /\ inbox' \in Seq(Event)
  BY TakesFacts DEF SrvRequest, srvEnv
<1>2. AskedOnce' /\ InboxOwn' /\ CommsOwn'
  BY <1>1, TakesKeeps DEF AskedOnce, CommsOwn
<1>3. CASE srv' # "runs" /\ UNCHANGED <<finiMap, up, out>>
  <2>1. Under' = Under /\ Replied' = Replied /\ Ids(Under)' = Ids(Under)
    BY <1>1, <1>3 DEF Under, Replied, Ids
  <2>2. Fresh'
    BY <1>1, <2>1, TakesKeeps
  <2>3. SrvTypeOK'
    BY <1>1, <1>3 DEF SrvTypeOK
  <2>4. UnderOwn'
    BY <1>1, <2>1 DEF UnderOwn
  <2>5. OwnReply'
    BY <1>1, <1>3 DEF OwnReply
  <2>6. FiniOnce'
    BY <1>1, <1>3, <2>1 DEF FiniOnce, Ids
  <2> QED BY <1>2, <2>2, <2>3, <2>4, <2>5, <2>6
<1>4. ASSUME o # NoObj
      PROVE  /\ f \in Entry /\ f.req \in asked /\ f.obj = made[f.req.comm]
             /\ q.id \notin Ids(Under) /\ q.id \notin Replied /\ f \notin Under
  <2>1. /\ q \in Request /\ q \in asked /\ q.comm \in CommId
        /\ q.id \notin Ids(Under) /\ q.id \notin Replied
    BY <1>1, FirstRequest
  <2>2. o \in ServedObj /\ o = made[q.comm]
    BY <1>4, <2>1 DEF SrvTypeOK, CommsOwn
  <2>3. f \notin Under
    BY <2>1 DEF Ids
  <2> QED BY <2>1, <2>2, <2>3 DEF Entry
<1>5. CASE o # NoObj /\ Fini(f, finiMap \union {f}, FALSE) /\ UNCHANGED up
  <2>1. finiMap' = (finiMap \union {f}) \ {f} /\ out' = Append(out, ReplyTo(f, FALSE)) /\ srv' = srv
    BY <1>5 DEF Fini
  <2>2. finiMap' = finiMap /\ Under' = Under /\ Ids(Under)' = Ids(Under)
    <3>1. f \notin finiMap
      BY <1>4, <1>5 DEF Under
    <3> QED BY <1>1, <1>5, <2>1, <3>1 DEF Under, Ids
  <2>4. /\ out' \in Seq(Reply) /\ Replied' = Replied \union {q.id} /\ OwnReply'
        /\ \A i, j \in DOMAIN out' : out'[i].id = out'[j].id => i = j
    BY <1>1, <1>4, <1>5, FiniFacts
  <2>6. Fresh'
    BY <1>1, <2>2, <2>4, TakesRequest
  <2>8. SrvTypeOK'
    BY <1>1, <1>5, <2>4, <2>2 DEF SrvTypeOK
  <2>9. UnderOwn'
    BY <1>1, <2>2 DEF UnderOwn
  <2>10. Ids(finiMap') \cap Replied' = {}
    <3>1. q.id \notin Ids(finiMap)
      BY <1>4, <1>5 DEF Ids, Under
    <3> QED BY <2>4, <2>2, <3>1 DEF FiniOnce
  <2>11. FiniOnce'
    BY <1>1, <1>5, <2>1, <2>4, <2>2, <2>10 DEF FiniOnce, Ids
  <2> QED BY <1>2, <2>4, <2>6, <2>8, <2>9, <2>11
<1>6. CASE o # NoObj /\ finiMap' = finiMap \union {f} /\ up' = up \union {f} /\ UNCHANGED <<out, srv>>
  <2>1. Under' = Under \union {f} /\ Replied' = Replied
    BY <1>1, <1>6 DEF Under, Replied
  <2>2. Ids(Under)' \subseteq Ids(Under) \union {q.id}
    BY <2>1 DEF Ids
  <2>3. /\ f \in Entry /\ f.req \in asked /\ f.obj = made[f.req.comm]
        /\ q.id \notin Ids(Under) /\ q.id \notin Replied /\ f \notin Under
    BY <1>4, <1>6
  <2>11. Fresh'
    BY <1>1, <2>1, <2>2, TakesRequest
  <2>4. SrvTypeOK'
    BY <1>1, <1>6, <2>3 DEF SrvTypeOK
  <2>5. UnderOwn'
    BY <1>1, <2>1, <2>3 DEF UnderOwn
  <2>6. OwnReply'
    BY <1>1, <1>6 DEF OwnReply
  <2>7. finiMap' = up' \union Range(upAns') /\ up' \cap Range(upAns') = {}
    BY <1>1, <1>6, <2>3 DEF FiniOnce, Under
  <2>8. \A g, h \in finiMap' : g.req.id = h.req.id => g = h
    <3>1. \A g \in finiMap : g.req.id # q.id
      BY <2>3 DEF Ids, Under
    <3> QED BY <1>6, <3>1 DEF FiniOnce
  <2>9. Ids(finiMap') \cap Replied' = {}
    BY <1>6, <2>1, <2>3 DEF Ids, FiniOnce
  <2>10. FiniOnce'
    BY <1>1, <1>6, <2>7, <2>8, <2>9 DEF FiniOnce
  <2> QED BY <1>2, <2>4, <2>5, <2>6, <2>10, <2>11
<1>7. \/ srv' # "runs" /\ UNCHANGED <<finiMap, up, out>>
      \/ o # NoObj /\ Fini(f, finiMap \union {f}, FALSE) /\ UNCHANGED up
      \/ o # NoObj /\ finiMap' = finiMap \union {f} /\ up' = up \union {f} /\ UNCHANGED <<out, srv>>
  BY <1>1 DEF SrvRequest
<1> QED BY <1>3, <1>5, <1>6, <1>7

-----------------------------------------------------------------------------
(* Answers of other servers.                                               *)
LEMMA UpAnswersInv ==
  ASSUME SrvIInv, NEW f \in up, UpAnswers(f)
  PROVE  SrvIInv'
<1> USE DEF SrvIInv, UpAnswers
<1>1. f \in Entry /\ upAns \in Seq(Entry) /\ made' = made /\ asked' = asked
  BY DEF SrvTypeOK, srvEnv
<1>2. /\ upAns' \in Seq(Entry)
      /\ DOMAIN upAns' = DOMAIN upAns \union {Len(upAns) + 1} /\ Len(upAns) + 1 \notin DOMAIN upAns
      /\ \A i \in DOMAIN upAns : upAns'[i] = upAns[i]
      /\ upAns'[Len(upAns) + 1] = f
      /\ Range(upAns') = Range(upAns) \union {f}
  BY <1>1, AppendFacts
<1>3. f \notin Range(upAns)
  BY DEF FiniOnce
<1>4. Under' = Under /\ Replied' = Replied /\ Ids(Under)' = Ids(Under)
  BY <1>2 DEF Under, Replied, Ids
<1>5. SrvTypeOK'
  BY <1>1, <1>2 DEF SrvTypeOK
<1>6. AskedOnce' /\ InboxOwn' /\ CommsOwn'
  BY <1>1 DEF AskedOnce, InboxOwn, CommsOwn
<1>7. UnderOwn'
  BY <1>1, <1>4 DEF UnderOwn
<1>8. Fresh'
  BY <1>4 DEF Fresh
<1>9. OwnReply'
  BY <1>1 DEF OwnReply
<1>10. /\ up' \union Range(upAns') = up \union Range(upAns)
       /\ up' \cap Range(upAns') = {}
  BY <1>2, <1>3 DEF FiniOnce
<1>11. \A i, j \in DOMAIN upAns' : upAns'[i] = upAns'[j] => i = j
  <2>1. \A i \in DOMAIN upAns : upAns[i] # f
    BY <1>3 DEF Range
  <2> QED BY <1>2, <2>1 DEF FiniOnce
<1>12. FiniOnce'
  BY <1>4, <1>10, <1>11 DEF FiniOnce, Ids
<1> QED BY <1>5, <1>6, <1>7, <1>8, <1>9, <1>12

LEMMA ProgressInv ==
  ASSUME SrvIInv, SrvProgress
  PROVE  SrvIInv'
<1> DEFINE f == Head(upAns)  err == Flagged(f.req)
<1> USE DEF SrvIInv
<1>1. /\ srv = "runs" /\ upAns # <<>> /\ upAns' = Tail(upAns) /\ Fini(f, finiMap, err)
      /\ inbox' = inbox /\ made' = made /\ asked' = asked /\ commMap' = commMap /\ up' = up
      /\ upAns \in Seq(Entry)
  BY DEF SrvProgress, srvEnv, SrvTypeOK
<1>2. /\ upAns' \in Seq(Entry) /\ f \in Entry /\ f = upAns[1] /\ 1 \in DOMAIN upAns
      /\ \A i \in DOMAIN upAns' : i + 1 \in DOMAIN upAns /\ i # 0 /\ i \in Nat
                                   /\ upAns'[i] = upAns[i + 1]
      /\ f \in Range(upAns) /\ Range(upAns) = Range(upAns') \union {f}
  BY <1>1, TailFacts
<1>3. f \in finiMap /\ f \in Under /\ f \notin up
  BY <1>1, <1>2 DEF FiniOnce, Under
<1>4. f.req \in asked /\ f.obj = made[f.req.comm] /\ f.req.id \notin Replied
  BY <1>3 DEF UnderOwn, FiniOnce, Ids
<1>5. err \in BOOLEAN
  BY DEF Flagged
<1>6. /\ srv' = srv /\ finiMap' = finiMap \ {f} /\ out' \in Seq(Reply)
      /\ Replied' = Replied \union {f.req.id} /\ OwnReply'
      /\ \A i, j \in DOMAIN out' : out'[i].id = out'[j].id => i = j
  BY <1>1, <1>2, <1>3, <1>4, <1>5, FiniFacts
<1>7. f \notin Range(upAns')
  <2> SUFFICES ASSUME NEW i \in DOMAIN upAns', upAns'[i] = f PROVE FALSE
    BY DEF Range
  <2>1. i + 1 = 1
    BY <1>2 DEF FiniOnce
  <2> QED BY <1>2, <2>1
<1>8. Under' = Under \ {f} /\ finiMap' = up' \union Range(upAns')
  BY <1>1, <1>2, <1>3, <1>6, <1>7 DEF Under, FiniOnce
<1>9. SrvTypeOK'
  BY <1>1, <1>2, <1>6 DEF SrvTypeOK
<1>10. AskedOnce' /\ InboxOwn' /\ CommsOwn'
  BY <1>1 DEF AskedOnce, InboxOwn, CommsOwn
<1>11. UnderOwn'
  BY <1>1, <1>8 DEF UnderOwn
<1>12. Fresh'
  <2>1. f.req.id \in Ids(Under) /\ Ids(Under)' \subseteq Ids(Under)
    BY <1>3, <1>8 DEF Ids
  <2>2. Ids(Under)' \union Replied' \subseteq Ids(Under) \union Replied
    BY <1>6, <2>1
  <2> QED BY <1>1, <2>2 DEF Fresh
<1>13. \A i, j \in DOMAIN upAns' : upAns'[i] = upAns'[j] => i = j
  <2> SUFFICES ASSUME NEW i \in DOMAIN upAns', NEW j \in DOMAIN upAns', upAns'[i] = upAns'[j]
               PROVE  i = j
    OBVIOUS
  <2>1. i + 1 = j + 1
    BY <1>2 DEF FiniOnce
  <2> QED BY <1>2, <2>1
<1>14. \A g, h \in finiMap' : g.req.id = h.req.id => g = h
  BY <1>6 DEF FiniOnce
<1>15. Ids(finiMap') \cap Replied' = {}
  <2>1. \A g \in finiMap' : g.req.id # f.req.id
    BY <1>3, <1>6 DEF FiniOnce
  <2>2. f.req.id \notin Ids(finiMap')
    BY <2>1 DEF Ids
  <2>3. Ids(finiMap') \subseteq Ids(finiMap)
    BY <1>6 DEF Ids
  <2> QED BY <1>6, <2>2, <2>3 DEF FiniOnce
<1>16. FiniOnce'
  <2>1. up' \cap Range(upAns') = {}
    BY <1>1, <1>2 DEF FiniOnce
  <2> QED BY <1>6, <1>8, <1>13, <1>14, <1>15, <2>1 DEF FiniOnce
<1> QED BY <1>6, <1>9, <1>10, <1>11, <1>12, <1>16

LEMMA EndsInv ==
  ASSUME SrvIInv, SrvEnds \/ SrvCutOff
  PROVE  SrvIInv'
<1> USE DEF SrvIInv
<1>0. /\ UNCHANGED <<inbox, made, gone, asked, commMap, finiMap, up, upAns, out, restarted>>
      /\ srv' # "runs"
  BY DEF SrvEnds, SrvCutOff, srvEnv
<1> USE <1>0
<1>1. SrvTypeOK' /\ AskedOnce' /\ InboxOwn' /\ CommsOwn'
  BY DEF SrvTypeOK, AskedOnce, InboxOwn, CommsOwn
<1>2. UnderOwn' /\ Fresh'
  BY DEF UnderOwn, Under, Fresh, Ids, Replied
<1>3. OwnReply' /\ FiniOnce'
  BY DEF OwnReply, FiniOnce, Ids, Replied
<1> QED BY <1>1, <1>2, <1>3

LEMMA RestartsInv ==
  ASSUME SrvIInv, SrvRestarts
  PROVE  SrvIInv'
<1> USE DEF SrvIInv, SrvRestarts, srvEnv
<1>1. DOMAIN inbox' = {} /\ DOMAIN upAns' = {} /\ Range(upAns') = {}
  BY DEF Range
<1>2. SrvTypeOK' /\ AskedOnce' /\ InboxOwn' /\ CommsOwn'
  BY <1>1 DEF SrvTypeOK, AskedOnce, InboxOwn, CommsOwn
<1>3. UnderOwn' /\ Fresh'
  BY <1>1 DEF UnderOwn, Under, Fresh
<1>4. OwnReply'
  BY DEF OwnReply
<1>5. FiniOnce'
  BY <1>1 DEF FiniOnce, Ids, Replied
<1> QED BY <1>2, <1>3, <1>4, <1>5

-----------------------------------------------------------------------------
(* SrvIInv holds of every server, whatever is asked of it, and of one that *)
(* has been restarted.                                                     *)
THEOREM SrvInductive == SrvSpec => []SrvIInv
<1>1. SrvIInv /\ [SrvNext]_srvVars => SrvIInv'
  <2> SUFFICES ASSUME SrvIInv, [SrvNext]_srvVars PROVE SrvIInv'
    OBVIOUS
  <2>1. ASSUME NEW k \in CommId, NEW o \in ServedObj, RtrCreates(k, o) PROVE SrvIInv'
    BY <2>1, RtrCreatesInv
  <2>2. ASSUME NEW k \in CommId, RtrDestroys(k) PROVE SrvIInv'
    BY <2>2, RtrDestroysInv
  <2>3. ASSUME NEW q \in Request, RtrAsks(q) PROVE SrvIInv'
    BY <2>3, RtrAsksInv
  <2>4. ASSUME NEW e, SrvCommCreate(e) \/ SrvCommDestroy(e) PROVE SrvIInv'
    BY <2>4, CommCreateInv, CommDestroyInv
  <2>5. ASSUME NEW e, SrvCommReq(e) \/ SrvCommLogReq(e) \/ SrvCommGetSamples(e) PROVE SrvIInv'
    BY <2>5, RequestInv DEF SrvCommReq, SrvCommLogReq, SrvCommGetSamples
  <2>6. ASSUME NEW f \in up, UpAnswers(f) PROVE SrvIInv'
    BY <2>6, UpAnswersInv
  <2>7. CASE SrvProgress
    BY <2>7, ProgressInv
  <2>8. CASE SrvEnds \/ SrvCutOff
    BY <2>8, EndsInv
  <2>9. CASE SrvRestarts
    BY <2>9, RestartsInv
  <2>10. CASE UNCHANGED srvVars
    <3> USE <2>10 DEF srvVars, SrvIInv
    <3>1. SrvTypeOK' /\ AskedOnce' /\ InboxOwn' /\ CommsOwn'
      BY DEF SrvTypeOK, AskedOnce, InboxOwn, CommsOwn
    <3>2. UnderOwn' /\ Fresh'
      BY DEF UnderOwn, Under, Fresh, Ids, Replied
    <3>3. OwnReply' /\ FiniOnce'
      BY DEF OwnReply, FiniOnce, Ids, Replied
    <3> QED BY <3>1, <3>2, <3>3
  <2> QED BY <2>1, <2>2, <2>3, <2>4, <2>5, <2>6, <2>7, <2>8, <2>9, <2>10 DEF SrvNext, SrvWork
<1> QED BY SrvInitInv, <1>1, PTL DEF SrvSpec

(* A request is answered once, and every request under way has exactly one *)
(* answer to come: the assert of Server::fini holds, for any requests, of  *)
(* any clients, in any order.                                              *)
THEOREM FinishedOnce == SrvSpec => []FiniOnce
<1>1. SrvIInv => FiniOnce
  BY DEF SrvIInv
<1> QED BY SrvInductive, <1>1, PTL

(* Every answer of a server is of the object that the communicator stands  *)
(* for and goes back to the one that has asked.                            *)
THEOREM RepliesAreTheirs == SrvSpec => []OwnReply
<1>1. SrvIInv => OwnReply
  BY DEF SrvIInv
<1> QED BY SrvInductive, <1>1, PTL

-----------------------------------------------------------------------------
(* A server that is the first of its name knows every communicator it is   *)
(* asked about: a create is in the channel before the request, or has been *)
(* taken off it, and a destroy is only sent behind the last request.       *)
CreatedBefore(k, n) ==
  commMap[k] # NoObj
    \/ \E j \in DOMAIN inbox : j < n /\ inbox[j].type = "create" /\ inbox[j].comm = k

NotDestroyedBefore(k, n) ==
  \A j \in DOMAIN inbox : j < n /\ inbox[j].type = "destroy" => inbox[j].comm # k

DestroysAreLast ==
  /\ \A i \in DOMAIN inbox : inbox[i].type = "destroy" => inbox[i].comm \in gone
  /\ \A k \in gone : made[k] # NoObj

CommsKnown ==
  srv = "runs" /\ ~restarted =>
    /\ \A i \in DOMAIN inbox : inbox[i].type = "request" =>
         CreatedBefore(inbox[i].req.comm, i) /\ NotDestroyedBefore(inbox[i].req.comm, i)
    /\ \A k \in CommId : made[k] # NoObj /\ k \notin gone => CreatedBefore(k, Len(inbox) + 1)

SrvBInv == DestroysAreLast /\ CommsKnown /\ SrvBlameless

(* What is in the channel is not disturbed by what is sent after it.       *)
LEMMA SendsFacts ==
  ASSUME SrvTypeOK, NEW e \in Event, Sends(e), commMap' = commMap
  PROVE  /\ DOMAIN inbox' = DOMAIN inbox \union {Len(inbox) + 1} /\ Len(inbox') = Len(inbox) + 1
         /\ DOMAIN inbox = 1..Len(inbox) /\ Len(inbox) \in Nat
         /\ inbox'[Len(inbox) + 1] = e /\ \A i \in DOMAIN inbox : inbox'[i] = inbox[i]
         /\ \A k, n : CreatedBefore(k, n) => CreatedBefore(k, n)'
         /\ \A k : \A n \in 1..(Len(inbox) + 1) : NotDestroyedBefore(k, n) => NotDestroyedBefore(k, n)'
<1>1. inbox \in Seq(Event) /\ inbox' = Append(inbox, e)
  BY DEF Sends, SrvTypeOK
<1>2. /\ DOMAIN inbox' = DOMAIN inbox \union {Len(inbox) + 1}
      /\ inbox'[Len(inbox) + 1] = e /\ \A i \in DOMAIN inbox : inbox'[i] = inbox[i]
  BY <1>1, AppendFacts
<1>3. Len(inbox') = Len(inbox) + 1 /\ DOMAIN inbox = 1..Len(inbox) /\ Len(inbox) \in Nat
  BY <1>1
<1>4. \A k, n : CreatedBefore(k, n) => CreatedBefore(k, n)'
  BY <1>2 DEF CreatedBefore
<1>5. \A k : \A n \in 1..(Len(inbox) + 1) : NotDestroyedBefore(k, n) => NotDestroyedBefore(k, n)'
  BY <1>2, <1>3 DEF NotDestroyedBefore
<1> QED BY <1>2, <1>3, <1>4, <1>5

(* The same of a communicator that stays made and is not destroyed.        *)
LEMMA SendsKnows ==
  ASSUME SrvIInv, SrvBInv, NEW e \in Event, Sends(e), commMap' = commMap, UNCHANGED <<srv, restarted>>,
         gone \subseteq gone', asked \subseteq asked', \A k \in gone' : made'[k] # NoObj,
         e.type = "destroy" => e.comm \in gone',
         e.type = "request" => made[e.req.comm] # NoObj /\ e.req.comm \notin gone /\ e.req.comm \in CommId,
         \A k \in CommId : made'[k] # made[k] => e.type = "create" /\ e.comm = k /\ made[k] = NoObj
  PROVE  SrvBInv'
<1> USE DEF SrvIInv, SrvBInv
<1> PICK n : n = Len(inbox) + 1
  OBVIOUS
<1>1. /\ DOMAIN inbox' = DOMAIN inbox \union {n} /\ Len(inbox') = n
      /\ DOMAIN inbox = 1..Len(inbox) /\ Len(inbox) \in Nat
      /\ inbox'[n] = e /\ \A i \in DOMAIN inbox : inbox'[i] = inbox[i]
      /\ \A k, i : CreatedBefore(k, i) => CreatedBefore(k, i)'
      /\ \A k : \A i \in 1..n : NotDestroyedBefore(k, i) => NotDestroyedBefore(k, i)'
  BY SendsFacts
<1>2. DestroysAreLast'
  BY <1>1 DEF DestroysAreLast
<1>3. ASSUME srv = "runs", ~restarted, NEW i \in DOMAIN inbox', inbox'[i].type = "request",
             NEW k, k = inbox'[i].req.comm
      PROVE  CreatedBefore(k, i)' /\ NotDestroyedBefore(k, i)'
  <2>1. CASE i = n
    <3>1. CreatedBefore(k, n)
      BY <1>1, <1>3, <2>1 DEF CommsKnown
    <3>2. NotDestroyedBefore(k, n)
      BY <1>1, <1>3, <2>1 DEF DestroysAreLast, NotDestroyedBefore
    <3> QED BY <1>1, <2>1, <3>1, <3>2
  <2>2. CASE i # n
    <3>1. CreatedBefore(k, i) /\ NotDestroyedBefore(k, i)
      BY <1>1, <1>3, <2>2 DEF CommsKnown
    <3>2. i \in 1..n
      BY <1>1, <2>2
    <3> QED BY <1>1, <3>1, <3>2
  <2> QED BY <2>1, <2>2
<1>4. ASSUME srv = "runs", ~restarted, NEW k \in CommId, made'[k] # NoObj, k \notin gone'
      PROVE  CreatedBefore(k, n + 1)'
  <2>1. CASE made'[k] # made[k]
    BY <1>1, <2>1 DEF CreatedBefore
  <2>2. CASE made'[k] = made[k]
    <3>1. CreatedBefore(k, n)
      BY <1>4, <2>2 DEF CommsKnown
    <3>2. CreatedBefore(k, n)'
      BY <1>1, <3>1
    <3> QED BY <1>1, <3>2 DEF CreatedBefore
  <2> QED BY <2>1, <2>2
<1>5. CommsKnown'
  BY <1>1, <1>3, <1>4 DEF CommsKnown
<1>6. \A k \in CommId : made[k] \in Strange => made'[k] \in Strange
  BY ServerAssumption
<1> QED BY <1>2, <1>5, <1>6 DEF SrvBlameless

(* What is left in the channel when an event has been taken off.           *)
LEMMA TakesKnows ==
  ASSUME SrvIInv, SrvBInv, NEW e, TakesOff(e), UNCHANGED <<made, gone, asked>>,
         NEW o, commMap' = IF e.type = "create" THEN [commMap EXCEPT ![e.comm] = o]
                           ELSE IF e.type = "destroy" THEN [commMap EXCEPT ![e.comm] = NoObj]
                           ELSE commMap,
         e.type = "create" => e.comm \in CommId /\ o # NoObj,
         srv' = "runs" => srv = "runs", restarted' = restarted
  PROVE  DestroysAreLast' /\ CommsKnown'
<1> USE DEF SrvIInv, SrvBInv
<1>1. /\ srv = "runs" /\ 1 \in DOMAIN inbox /\ e = inbox[1] /\ e \in Event
      /\ \A i \in DOMAIN inbox' : i + 1 \in DOMAIN inbox /\ i # 0 /\ i \in Nat
                                   /\ inbox'[i] = inbox[i + 1]
  BY TakesFacts
<1>2. DestroysAreLast'
  BY <1>1 DEF DestroysAreLast
<1>3. Len(inbox') + 1 = Len(inbox) /\ Len(inbox) \in Nat /\ DOMAIN inbox' = 1..Len(inbox')
      /\ DOMAIN inbox = 1..Len(inbox) /\ Len(inbox') \in Nat
  BY DEF TakesOff, SrvTypeOK
<1>4. ASSUME NEW k \in CommId, NEW i \in Nat, CreatedBefore(k, i + 1), e.type = "destroy" => e.comm # k
      PROVE  CreatedBefore(k, i)'
  <2>1. CASE commMap[k] # NoObj
    <3>1. commMap'[k] # NoObj
      BY <1>4, <2>1 DEF SrvTypeOK
    <3> QED BY <3>1 DEF CreatedBefore
  <2>2. CASE commMap[k] = NoObj
    <3>1. PICK j \in DOMAIN inbox : j < i + 1 /\ inbox[j].type = "create" /\ inbox[j].comm = k
      BY <1>4, <2>2 DEF CreatedBefore
    <3>2. CASE j = 1
      <4>1. commMap'[k] # NoObj
        BY <1>1, <1>4, <3>1, <3>2 DEF SrvTypeOK
      <4> QED BY <4>1 DEF CreatedBefore
    <3>3. CASE j # 1
      <4>1. j - 1 \in DOMAIN inbox' /\ j - 1 < i /\ inbox'[j - 1] = inbox[j]
        BY <1>1, <1>3, <3>1, <3>3
      <4> QED BY <3>1, <4>1 DEF CreatedBefore
    <3> QED BY <3>2, <3>3
  <2> QED BY <2>1, <2>2
<1>5. ASSUME srv = "runs", ~restarted, NEW i \in DOMAIN inbox', inbox'[i].type = "request",
             NEW k, k = inbox'[i].req.comm
      PROVE  CreatedBefore(k, i)' /\ NotDestroyedBefore(k, i)'
  <2>1. /\ i + 1 \in DOMAIN inbox /\ inbox'[i] = inbox[i + 1] /\ i \in Nat
        /\ CreatedBefore(k, i + 1) /\ NotDestroyedBefore(k, i + 1) /\ i # 0
    BY <1>1, <1>5 DEF CommsKnown
  <2>2. k \in CommId
    BY <1>5, <2>1 DEF SrvTypeOK, Event, Request
  <2>3. e.type = "destroy" => e.comm # k
    BY <1>1, <2>1 DEF NotDestroyedBefore
  <2>4. CreatedBefore(k, i)'
    BY <1>4, <2>1, <2>2, <2>3
  <2>5. NotDestroyedBefore(k, i)'
    BY <1>1, <1>3, <2>1 DEF NotDestroyedBefore
  <2> QED BY <2>4, <2>5
<1>6. ASSUME srv = "runs", ~restarted, NEW k \in CommId, made[k] # NoObj, k \notin gone
      PROVE  CreatedBefore(k, Len(inbox) + 1)'
  <2> PICK n : n = Len(inbox') + 1
    OBVIOUS
  <2>1. CreatedBefore(k, n + 1) /\ n \in Nat
    BY <1>3, <1>6 DEF CommsKnown
  <2>2. e.type = "destroy" => e.comm # k
    BY <1>1, <1>6 DEF DestroysAreLast
  <2>3. CreatedBefore(k, n)'
    BY <1>4, <1>6, <2>1, <2>2
  <2> QED BY <2>3
<1>7. CommsKnown'
  BY <1>5, <1>6 DEF CommsKnown
<1> QED BY <1>2, <1>7

LEMMA RequestKnows ==
  ASSUME SrvIInv, SrvBInv, NEW e, e.type = "request", SrvRequest(e)
  PROVE  SrvBInv'
<1> DEFINE q == e.req  o == commMap[q.comm]  f == [req |-> q, obj |-> o]
<1> USE DEF SrvIInv, SrvBInv
<1>1. /\ TakesOff(e) /\ UNCHANGED <<made, gone, asked, commMap, restarted>> /\ srv = "runs"
      /\ 1 \in DOMAIN inbox /\ e = inbox[1]
  BY TakesFacts DEF SrvRequest, srvEnv
<1>2. DestroysAreLast' /\ CommsKnown'
  BY <1>1, TakesKnows
<1>3. q \in asked
  BY <1>1, FirstRequest
<1>4. ~restarted => o # NoObj
  <2>1. ~restarted => CreatedBefore(q.comm, 1)
    BY <1>1 DEF CommsKnown
  <2>2. \A j \in DOMAIN inbox : ~(j < 1)
    BY DEF SrvTypeOK
  <2> QED BY <2>1, <2>2 DEF CreatedBefore
<1>5. Mixes(o, q) => q.fate = "mixed"
  BY DEF Mixes
<1>6. \/ o = NoObj /\ srv' = "undefined"
      \/ Mixes(o, q) /\ srv' = "aborted"
      \/ srv' = srv
  BY DEF SrvRequest, Fini
<1>7. SrvBlameless'
  BY <1>1, <1>3, <1>4, <1>5, <1>6 DEF SrvBlameless
<1> QED BY <1>2, <1>7

(* SrvBInv is inductive beside SrvIInv, which says that the entry of an    *)
(* answer from above is always there.                                      *)
LEMMA SrvBStep ==
  ASSUME SrvIInv, SrvBInv, [SrvNext]_srvVars
  PROVE  SrvBInv'
<1> USE DEF SrvIInv, SrvBInv
<1>1. ASSUME NEW k \in CommId, NEW o \in ServedObj, RtrCreates(k, o) PROVE SrvBInv'
  <2>1. [type |-> "create", comm |-> k, obj |-> o] \in Event
    BY DEF Event
  <2>2. \A j \in CommId : made'[j] # made[j] => j = k /\ made[j] = NoObj
    BY <1>1 DEF RtrCreates, SrvTypeOK
  <2>3. \A j \in gone' : made'[j] # NoObj
    BY <1>1, ServerAssumption DEF RtrCreates, SrvTypeOK, DestroysAreLast
  <2> QED BY <1>1, <2>1, <2>2, <2>3, SendsKnows DEF RtrCreates
<1>2. ASSUME NEW k \in CommId, RtrDestroys(k) PROVE SrvBInv'
  <2>1. [type |-> "destroy", comm |-> k] \in Event
    BY DEF Event
  <2> QED BY <1>2, <2>1, SendsKnows DEF RtrDestroys, DestroysAreLast
<1>3. ASSUME NEW q \in Request, RtrAsks(q) PROVE SrvBInv'
  <2>1. [type |-> "request", req |-> q] \in Event /\ q.comm \in CommId
    BY DEF Event, Request
  <2> QED BY <1>3, <2>1, SendsKnows DEF RtrAsks, DestroysAreLast
<1>4. ASSUME NEW e, SrvCommCreate(e) PROVE SrvBInv'
  <2>1. e \in Event
    BY <1>4, TakesFacts DEF SrvCommCreate
  <2>2. e.comm \in CommId /\ e.obj # NoObj
    BY <1>4, <2>1, ServerAssumption DEF SrvCommCreate, Event
  <2>3. CASE e.obj \notin Strange
    <3>1. DestroysAreLast' /\ CommsKnown'
      BY <1>4, <2>2, <2>3, TakesKnows DEF SrvCommCreate, srvEnv
    <3> QED BY <1>4, <2>3, <3>1 DEF SrvCommCreate, SrvBlameless, srvEnv
  <2>4. CASE e.obj \in Strange
    <3>1. e.obj = made[e.comm] /\ \A i \in DOMAIN inbox' : i + 1 \in DOMAIN inbox /\ inbox'[i] = inbox[i + 1]
      BY <1>4, TakesFacts DEF SrvCommCreate, InboxOwn
    <3> QED BY <1>4, <2>2, <2>4, <3>1 DEF SrvCommCreate, SrvBlameless, DestroysAreLast, CommsKnown, srvEnv
  <2> QED BY <2>3, <2>4
<1>5. ASSUME NEW e, SrvCommDestroy(e) PROVE SrvBInv'
  <2>1. DestroysAreLast' /\ CommsKnown'
    BY <1>5, TakesKnows DEF SrvCommDestroy, srvEnv
  <2> QED BY <1>5, <2>1 DEF SrvCommDestroy, SrvBlameless, srvEnv
<1>6. ASSUME NEW e, SrvCommReq(e) \/ SrvCommLogReq(e) \/ SrvCommGetSamples(e) PROVE SrvBInv'
  BY <1>6, RequestKnows DEF SrvCommReq, SrvCommLogReq, SrvCommGetSamples
<1>7. CASE SrvProgress
  <2>1. Head(upAns) \in finiMap /\ srv = "runs"
    BY <1>7, TailFacts DEF SrvProgress, FiniOnce, SrvTypeOK
  <2>2. srv' = srv
    BY <1>7, <2>1 DEF SrvProgress, Fini
  <2> QED BY <1>7, <2>2 DEF SrvProgress, srvEnv, SrvBlameless, DestroysAreLast, CommsKnown,
                             CreatedBefore, NotDestroyedBefore
<1>8. CASE SrvRestarts
  <2>1. DOMAIN inbox' = {}
    BY <1>8 DEF SrvRestarts
  <2> QED BY <1>8, <2>1 DEF SrvRestarts, srvEnv, SrvBlameless, DestroysAreLast, CommsKnown
<1>9. CASE SrvEnds \/ SrvCutOff \/ (\E f \in up : UpAnswers(f)) \/ UNCHANGED srvVars
  <2>1. UNCHANGED <<inbox, made, gone, asked, commMap, restarted>> /\ srv' \in {srv, "ended", "cut off"}
    BY <1>9 DEF SrvEnds, SrvCutOff, UpAnswers, srvEnv, srvVars
  <2>2. SrvBlameless'
    BY <2>1 DEF SrvBlameless
  <2>3. DestroysAreLast'
    BY <2>1 DEF DestroysAreLast
  <2>4. CommsKnown'
    <3>1. CASE srv' = srv
      BY <2>1, <3>1 DEF CommsKnown, CreatedBefore, NotDestroyedBefore
    <3>2. CASE srv' # "runs"
      BY <3>2 DEF CommsKnown
    <3> QED BY <2>1, <3>1, <3>2
  <2> QED BY <2>2, <2>3, <2>4
<1> QED BY <1>1, <1>2, <1>3, <1>4, <1>5, <1>6, <1>7, <1>8, <1>9 DEF SrvNext, SrvWork

(* A server reads from an empty communicator only after a restart, and its *)
(* asserts fail only for a request that mixes attributes or an object that *)
(* is not in its configuration, whatever the router creates, asks and      *)
(* destroys in whatever order it may.                                      *)
THEOREM NotToBlame == SrvSpec => []SrvBlameless
<1>1. SrvInit => SrvBInv
  <2> SUFFICES ASSUME SrvInit PROVE SrvBInv
    OBVIOUS
  <2>1. DOMAIN inbox = {}
    BY DEF SrvInit
  <2> QED BY <2>1 DEF SrvInit, SrvBInv, DestroysAreLast, CommsKnown, SrvBlameless
<1>2. SrvBInv => SrvBlameless
  BY DEF SrvBInv
<1> QED BY SrvInductive, SrvBStep, <1>1, <1>2, PTL DEF SrvSpec
=============================================================================
