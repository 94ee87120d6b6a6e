---------------------------- MODULE Aggregation ----------------------------
(***************************************************************************)
(* What a router promises its clients: a request on a communicator is      *)
(* copied to every member object of every group of the communicator, the   *)
(* members' responses are collected per group, and one answer carries the  *)
(* contributions of all members back to the requester.                     *)
(*                                                                         *)
(* The module keeps the bookkeeping of CommReqInfo (router.h) exactly, its *)
(* heap address included, because the address travels through the servers  *)
(* as the event id and is cast back to a pointer when a response arrives.  *)
(* Channels between router and servers are sets of messages: which server  *)
(* an object lives on, and the order of its queue, are Router.tla's        *)
(* business.  A sum is represented by the sequence of its summands.        *)
(***************************************************************************)
EXTENDS Integers, Sequences, FiniteSets, Functions

CONSTANTS
  Client,     \* channels to clients
  ReqId,      \* addresses of the clients' CommReq objects
  CommId,     \* communicator ids
  Obj,        \* objects with a server
  InfoId,     \* heap addresses a CommReqInfo can have
  Members,    \* the groups of a communicator, each a set of objects
  NoComm, Free

(* A communicator has at least one group and no group is empty: DistComm   *)
(* is built from a non-empty set of remote objects, DistGrpComm from the   *)
(* communicators of a non-empty list of objects.                           *)
ASSUME CommAssumption ==
  /\ Members \in [CommId -> Seq(SUBSET Obj)]
  /\ \A k \in CommId : /\ Members[k] # <<>>
                       /\ \A g \in DOMAIN Members[k] : /\ Members[k][g] # {}
                                                       /\ IsFiniteSet(Members[k][g])
ASSUME NullAssumption == NoComm \notin CommId

VARIABLES
  waiting,    \* per client, the communicator of each unanswered request
  asked,      \* requests on their way to the router
  info,       \* the heap of CommReqInfo objects
  toSrvr,     \* copies of requests on their way to a member's server
  toRtr,      \* responses on their way back
  lost,       \* copies that died with their server
  answers     \* per client, the answers it has not read yet

vars == <<waiting, asked, info, toSrvr, toRtr, lost, answers>>

Request == [src : Client, id : ReqId, comm : CommId]
Copy    == [info : InfoId, grp : Nat \ {0}, obj : Obj]
Info    == [src : Client, id : ReqId, comm : CommId, grpInfo : Seq(Nat),
            respQ : Seq(Seq(Obj)), value : Seq(Seq(Obj)), pending : Nat]
Answer  == [id : ReqId, value : Seq(Seq(Obj))]

ASSUME FreeAssumption == Free \notin Info

(* Every variable keeps its type: an address holds a CommReqInfo or        *)
(* nothing, through any number of reuses.                                  *)
TypeOK ==
  /\ waiting \in [Client -> [ReqId -> CommId \cup {NoComm}]]
  /\ asked   \in SUBSET Request
  /\ info    \in [InfoId -> Info \cup {Free}]
  /\ toSrvr  \in SUBSET Copy
  /\ toRtr   \in SUBSET Copy
  /\ lost    \in SUBSET Copy
  /\ answers \in [Client -> Seq(Answer)]

Init ==
  /\ waiting = [c \in Client |-> [q \in ReqId |-> NoComm]]
  /\ asked   = {}
  /\ info    = [i \in InfoId |-> Free]
  /\ toSrvr  = {}
  /\ toRtr   = {}
  /\ lost    = {}
  /\ answers = [c \in Client |-> <<>>]

-----------------------------------------------------------------------------
(* The client: DistComm::getValues and its kin put a request on the wire   *)
(* under the address of a CommReq that no unanswered request uses.         *)
Ask(c, q, k) ==
  /\ waiting[c][q] = NoComm
  /\ waiting' = [waiting EXCEPT ![c][q] = k]
  /\ asked' = asked \cup {[src |-> c, id |-> q, comm |-> k]}
  /\ UNCHANGED <<info, toSrvr, toRtr, lost, answers>>

(* The client reads an answer and the CommReq it belongs to is done.       *)
Read(c) ==
  /\ answers[c] # <<>>
  /\ waiting' = [waiting EXCEPT ![c][Head(answers[c]).id] = NoComm]
  /\ answers' = [answers EXCEPT ![c] = Tail(@)]
  /\ UNCHANGED <<asked, info, toSrvr, toRtr, lost>>

(* RtrCommReqEvent::process.                                               *)
Groups(k) == DOMAIN Members[k]

NewInfo(r) ==
  [src |-> r.src, id |-> r.id, comm |-> r.comm,
   grpInfo |-> [g \in Groups(r.comm) |-> Cardinality(Members[r.comm][g])],
   respQ   |-> [g \in Groups(r.comm) |-> <<>>],
   value   |-> [g \in Groups(r.comm) |-> <<>>],
   pending |-> Len(Members[r.comm])]

(* Mutant of Copies: the first group only.                                 *)
CopiesOfFirst(i, k) ==
  {t \in [info : {i}, grp : {1}, obj : Obj] : t.obj \in Members[k][1]}

Copies(i, k) ==
  {t \in [info : {i}, grp : Groups(k), obj : Obj] : t.obj \in Members[k][t.grp]}

(* Mutant of Fan: the request is handled again.                            *)
FanAgain(r, i) ==
  /\ r \in asked
  /\ info[i] = Free
  /\ info' = [info EXCEPT ![i] = NewInfo(r)]
  /\ toSrvr' = toSrvr \cup Copies(i, r.comm)
  /\ UNCHANGED <<waiting, asked, toRtr, lost, answers>>

Fan(r, i) ==
  /\ r \in asked
  /\ info[i] = Free
  /\ asked' = asked \ {r}
  /\ info' = [info EXCEPT ![i] = NewInfo(r)]
  /\ toSrvr' = toSrvr \cup Copies(i, r.comm)
  /\ UNCHANGED <<waiting, toRtr, lost, answers>>

(* A server answers a copy, or dies with it.                               *)
Serve(t) ==
  /\ t \in toSrvr
  /\ toSrvr' = toSrvr \ {t}
  /\ toRtr' = toRtr \cup {t}
  /\ UNCHANGED <<waiting, asked, info, lost, answers>>

Lose(t) ==
  /\ t \in toSrvr \cup toRtr
  /\ toSrvr' = toSrvr \ {t}
  /\ toRtr' = toRtr \ {t}
  /\ lost' = lost \cup {t}
  /\ UNCHANGED <<waiting, asked, info, answers>>

(* RtrCommRespEvent::process: queue the response with its group; when the  *)
(* group is complete sum it; when the last group is complete send the      *)
(* answer and free the CommReqInfo.                                        *)
Queued(t) == Append(info[t.info].respQ[t.grp], t.obj)

(* Mutant of GroupReady: the first response is enough.                     *)
FirstIsEnough(t) == Len(Queued(t)) >= 1

GroupReady(t) == Len(Queued(t)) = info[t.info].grpInfo[t.grp]

(* Mutant of Summed: the last response is left out.                        *)
SummedShort(t) == [info[t.info].value EXCEPT ![t.grp] = info[t.info].respQ[t.grp]]

Summed(t) == [info[t.info].value EXCEPT ![t.grp] = Queued(t)]

Collect(t) ==
  /\ t \in toRtr
  /\ ~ GroupReady(t)
  /\ toRtr' = toRtr \ {t}
  /\ info' = [info EXCEPT ![t.info].respQ[t.grp] = Queued(t)]
  /\ UNCHANGED <<waiting, asked, toSrvr, lost, answers>>

Complete(t) ==
  /\ t \in toRtr
  /\ GroupReady(t)
  /\ info[t.info].pending > 1
  /\ toRtr' = toRtr \ {t}
  /\ info' = [info EXCEPT ![t.info].respQ[t.grp] = Queued(t),
                          ![t.info].value = Summed(t),
                          ![t.info].pending = @ - 1]
  /\ UNCHANGED <<waiting, asked, toSrvr, lost, answers>>

Reply(t) ==
  /\ t \in toRtr
  /\ GroupReady(t)
  /\ info[t.info].pending = 1
  /\ toRtr' = toRtr \ {t}
  /\ answers' = [answers EXCEPT ![info[t.info].src] =
                   Append(@, [id |-> info[t.info].id, value |-> Summed(t)])]
  /\ info' = [info EXCEPT ![t.info] = Free]
  /\ UNCHANGED <<waiting, asked, toSrvr, lost>>

-----------------------------------------------------------------------------
Next ==
  \/ \E c \in Client, q \in ReqId, k \in CommId : Ask(c, q, k)
  \/ \E c \in Client : Read(c)
  \/ \E r \in asked, i \in InfoId : Fan(r, i)
  \/ \E t \in toSrvr : Serve(t)
  \/ \E t \in toSrvr \cup toRtr : Lose(t)
  \/ \E t \in toRtr : Collect(t) \/ Complete(t) \/ Reply(t)

Spec == Init /\ [][Next]_vars

-----------------------------------------------------------------------------
InFlight == toSrvr \cup toRtr \cup lost
Live == {i \in InfoId : info[i] # Free}

(* The event id of every copy and response in flight is the address of a   *)
(* CommReqInfo that has not been freed, still expects this member in this  *)
(* group, and has not had it yet: the cast in RtrCommRespEvent::process    *)
(* never reaches a freed or recycled object.                               *)
ResponsesExpected ==
  \A t \in InFlight :
    /\ info[t.info] # Free
    /\ t.grp \in Groups(info[t.info].comm)
    /\ t.obj \in Members[info[t.info].comm][t.grp]
    /\ t.obj \notin Range(info[t.info].respQ[t.grp])

(* An answer belongs to an unanswered request of the client it is sent to, *)
(* and each group's value sums every member of the group, each once.       *)
AnswersComplete ==
  \A c \in Client : \A n \in DOMAIN answers[c] :
    LET a == answers[c][n]
        k == waiting[c][a.id]
    IN  /\ k # NoComm
        /\ DOMAIN a.value = Groups(k)
        /\ \A g \in Groups(k) : /\ Range(a.value[g]) = Members[k][g]
                                /\ IsInjective(a.value[g])

(* A request is held in one place only: on its way to the router, in one   *)
(* CommReqInfo, or in one answer; so it is answered at most once.          *)
AnsweredOnce ==
  /\ \A i, j \in Live : info[i].src = info[j].src /\ info[i].id = info[j].id => i = j
  /\ \A c \in Client : \A m, n \in DOMAIN answers[c] :
       answers[c][m].id = answers[c][n].id => m = n
  /\ \A c \in Client : \A n \in DOMAIN answers[c] : \A i \in Live :
       ~ (info[i].src = c /\ info[i].id = answers[c][n].id)

(* No member is forgotten: what a live CommReqInfo still waits for is on   *)
(* its way, or was lost with a server.                                     *)
MissingInFlight ==
  \A i \in Live : \A g \in Groups(info[i].comm) :
    \A o \in Members[info[i].comm][g] \ Range(info[i].respQ[g]) :
      [info |-> i, grp |-> g, obj |-> o] \in InFlight

-----------------------------------------------------------------------------
(* The inductive invariant.                                                *)
OpenGroups(x) == {g \in Groups(x.comm) : Range(x.respQ[g]) # Members[x.comm][g]}

InfoOK(x) ==
  /\ DOMAIN x.grpInfo = Groups(x.comm)
  /\ DOMAIN x.respQ = Groups(x.comm)
  /\ DOMAIN x.value = Groups(x.comm)
  /\ \A g \in Groups(x.comm) :
       /\ x.grpInfo[g] = Cardinality(Members[x.comm][g])
       /\ IsInjective(x.respQ[g])
       /\ Range(x.respQ[g]) \subseteq Members[x.comm][g]
       /\ Range(x.respQ[g]) = Members[x.comm][g] => x.value[g] = x.respQ[g]
  /\ OpenGroups(x) # {}
  /\ x.pending = Cardinality(OpenGroups(x))

InfosOK == \A i \in Live : /\ waiting[info[i].src][info[i].id] = info[i].comm
                           /\ InfoOK(info[i])

Disjoint ==
  /\ toSrvr \cap toRtr = {}
  /\ toSrvr \cap lost = {}
  /\ toRtr \cap lost = {}

AskedOnce ==
  \A r \in asked :
    /\ waiting[r.src][r.id] = r.comm
    /\ \A i \in Live : ~ (info[i].src = r.src /\ info[i].id = r.id)
    /\ \A n \in DOMAIN answers[r.src] : answers[r.src][n].id # r.id

(* The bookkeeping is consistent: the parts above, and                     *)
(*   InfosOK    grpInfo, respQ, value and pending of each CommReqInfo      *)
(*              agree, and it belongs to a request that is waited for;     *)
(*   Disjoint   a copy is in one place;                                    *)
(*   AskedOnce  a request under way has no CommReqInfo and no answer yet.  *)
IInv ==
  /\ TypeOK
  /\ InfosOK
  /\ ResponsesExpected
  /\ MissingInFlight
  /\ Disjoint
  /\ AskedOnce
  /\ AnsweredOnce
  /\ AnswersComplete
=============================================================================
