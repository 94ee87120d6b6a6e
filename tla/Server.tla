------------------------------- MODULE Server -------------------------------
(***************************************************************************)
(* A server process: it takes RouterEvents off the channel of its router,  *)
(* does what they ask of the client library, and answers each request      *)
(* through m_finiMap when the library is done, which may be inside the     *)
(* call that asked (the object's devices are local) or when an answer      *)
(* comes back on the library's own channel (the object is served by        *)
(* another server).                                                        *)
(***************************************************************************)
EXTENDS Naturals, Sequences, FiniteSets, Functions

CONSTANTS
  App,        \* who asks: AppIDs of the other ends
  SrvId,      \* the server's own AppID
  CommId,     \* communicators
  ServedObj,  \* objects a communicator can name
  Upstream,   \* those of them whose sources other servers have
  Strange,    \* those of them that the server's configuration does not have
  Op,         \* operations: "get", "set", "log", "samples"
  ReqId,      \* requests of a run: numbers that stand for their addresses
  MaxQueue,   \* events in the channel of the router
  NoObj

ASSUME ServerAssumption ==
  /\ Upstream \subseteq ServedObj /\ Strange \subseteq ServedObj
  /\ NoObj \notin ServedObj
  /\ ReqId \subseteq Nat
  /\ Op \subseteq {"get", "set", "log", "samples"}

VARIABLES
  inbox,      \* the channel from the router
  made,       \* what the router has created: per communicator, its object
  gone,       \* communicators that the router has destroyed
  asked,      \* the requests the router has sent
  commMap,    \* Server::m_commMap
  finiMap,    \* Server::m_finiMap: a request under way and its RouterEvent
  up,         \* requests on their way through other servers
  upAns,      \* their answers: the channel of the client library
  out,        \* the answers sent to the router
  srv,        \* "runs", "ended", "aborted", "undefined", or "cut off"
  restarted   \* whether the server is not the first of its name

srvEnv  == <<made, gone, asked>>
srvVars == <<inbox, made, gone, asked, commMap, finiMap, up, upAns, out, srv, restarted>>

(* What becomes of the attributes of a request: read, refused by a device, *)
(* not attributes of the object, or not all of them.                       *)
Fates == {"own", "failing", "invalid", "mixed"}

Request == {q \in [id : ReqId, src : App, comm : CommId, op : Op, fate : Fates] :
              q.fate = "mixed" => q.op \in {"get", "set"}}
Event   == [type : {"create"}, comm : CommId, obj : ServedObj]
           \union [type : {"destroy"}, comm : CommId]
           \union [type : {"request"}, req : Request]
(* A RouterEvent with an answer: where it goes, whose it is, which object  *)
(* was asked, and whether it carries errors.                               *)
Reply   == [dest : App, src : {SrvId}, id : ReqId, obj : ServedObj, err : BOOLEAN]

SrvInit ==
  /\ inbox = <<>> /\ out = <<>> /\ upAns = <<>>
  /\ made = [k \in CommId |-> NoObj] /\ gone = {} /\ asked = {}
  /\ commMap = [k \in CommId |-> NoObj]
  /\ finiMap = {} /\ up = {}
  /\ srv = "runs" /\ restarted = FALSE

-----------------------------------------------------------------------------
(* The router creates a communicator once, asks it while its client is     *)
(* there, and destroys it when the client has left.  Requests are numbered *)
(* as they are made.  What it sends to a server that has ended is lost.    *)
Sends(e) == srv = "runs" /\ Len(inbox) < MaxQueue /\ inbox' = Append(inbox, e)

RtrCreates(k, o) ==
  /\ made[k] = NoObj
  /\ Sends([type |-> "create", comm |-> k, obj |-> o])
  /\ made' = [made EXCEPT ![k] = o]
  /\ UNCHANGED <<gone, asked, commMap, finiMap, up, upAns, out, srv, restarted>>

RtrDestroys(k) ==
  /\ made[k] # NoObj /\ k \notin gone
  /\ Sends([type |-> "destroy", comm |-> k])
  /\ gone' = gone \union {k}
  /\ UNCHANGED <<made, asked, commMap, finiMap, up, upAns, out, srv, restarted>>

RtrAsks(q) ==
  /\ made[q.comm] # NoObj /\ q.comm \notin gone
  /\ \A p \in asked : p.id # q.id
  /\ \A i \in ReqId : i < q.id => \E p \in asked : p.id = i
  /\ Sends([type |-> "request", req |-> q])
  /\ asked' = asked \union {q}
  /\ UNCHANGED <<made, gone, commMap, finiMap, up, upAns, out, srv, restarted>>

-----------------------------------------------------------------------------
(* SrvrRouterEvent::process makes the entry of m_finiMap, the event of the *)
(* payload does its work, and an event that is done at once takes the      *)
(* entry out again.                                                        *)
TakesOff(e) == srv = "runs" /\ inbox # <<>> /\ Head(inbox) = e /\ inbox' = Tail(inbox)

(* Mutant of SrvCommCreate: only objects with local devices are kept.      *)
CreateNotAbove(e) ==
  /\ TakesOff(e) /\ e.type = "create"
  /\ commMap' = IF e.obj \in Upstream THEN commMap ELSE [commMap EXCEPT ![e.comm] = e.obj]
  /\ UNCHANGED <<srvEnv, finiMap, up, upAns, out, srv, restarted>>

(* A communicator is of one object: RtrCommCreateEvent sends each of them  *)
(* an event of its own, and the assert that there is one never fails.  The *)
(* other, that the object is there, fails for a name that the server's     *)
(* configuration does not have.                                            *)
SrvCommCreate(e) ==
  /\ TakesOff(e) /\ e.type = "create"
  /\ IF e.obj \in Strange
     THEN srv' = "aborted" /\ UNCHANGED commMap
     ELSE commMap' = [commMap EXCEPT ![e.comm] = e.obj] /\ UNCHANGED srv
  /\ UNCHANGED <<srvEnv, finiMap, up, upAns, out, restarted>>

SrvCommDestroy(e) ==
  /\ TakesOff(e) /\ e.type = "destroy"
  /\ commMap' = [commMap EXCEPT ![e.comm] = NoObj]
  /\ UNCHANGED <<srvEnv, finiMap, up, upAns, out, srv, restarted>>

(* Mutant of ReplyTo: the object is looked up when the answer is ready.    *)
ReplyByComm(f, err) ==
  [dest |-> f.req.src, src |-> SrvId, id |-> f.req.id, obj |-> commMap[f.req.comm], err |-> err]

ReplyTo(f, err) == [dest |-> f.req.src, src |-> SrvId, id |-> f.req.id, obj |-> f.obj, err |-> err]

(* Mutant of Fini: the entry is kept.                                      *)
FiniKeeps(f, fs, err) ==
  /\ srv' = srv /\ finiMap' = fs /\ out' = Append(out, ReplyTo(f, err))

(* Server::fini: the answer goes back the way the request has come, and    *)
(* the request, its RouterEvent and its entry are gone.                    *)
Fini(f, fs, err) ==
  IF f \in fs
  THEN srv' = srv /\ finiMap' = fs \ {f} /\ out' = Append(out, ReplyTo(f, err))
  ELSE srv' = "aborted" /\ UNCHANGED <<finiMap, out>>

(* The library is done within the call: a local object, or attributes that *)
(* are none of the object's.  A device of another server can only refuse   *)
(* when it is asked.                                                       *)
Inside(o, q) == o \notin Upstream \/ q.fate = "invalid"

Mixes(o, q) == o \in Upstream /\ q.fate = "mixed"

(* What the three events for requests have in common.  The library calls   *)
(* back from within the call when the object is local, and when the call   *)
(* fails the event does what the callback would do: the Status that has    *)
(* the error is not the one it looks at.                                   *)
SrvRequest(e) ==
  /\ TakesOff(e)
  /\ LET q == e.req  o == commMap[q.comm]  f == [req |-> q, obj |-> o] IN
       \/ o = NoObj /\ srv' = "undefined" /\ UNCHANGED <<finiMap, up, out>>
       \/ o # NoObj /\ Mixes(o, q) /\ srv' = "aborted" /\ UNCHANGED <<finiMap, up, out>>
       \/ /\ o # NoObj /\ ~Mixes(o, q) /\ Inside(o, q)
          /\ Fini(f, finiMap \union {f}, FALSE)
          /\ UNCHANGED up
       \/ /\ o # NoObj /\ ~Mixes(o, q) /\ ~Inside(o, q)
          /\ finiMap' = finiMap \union {f}
          /\ up' = up \union {f}
          /\ UNCHANGED <<out, srv>>
  /\ UNCHANGED <<srvEnv, commMap, upAns, restarted>>

(* SrvrCommReqEvent, SrvrCommLogReqEvent and SrvrCommGetSamplesReqEvent.   *)
SrvCommReq(e)        == e.type = "request" /\ e.req.op \in {"get", "set"} /\ SrvRequest(e)
SrvCommLogReq(e)     == e.type = "request" /\ e.req.op = "log" /\ SrvRequest(e)
SrvCommGetSamples(e) == e.type = "request" /\ e.req.op = "samples" /\ SrvRequest(e)

(* Other servers answer.                                                   *)
UpAnswers(f) ==
  /\ f \in up
  /\ up' = up \ {f}
  /\ upAns' = Append(upAns, f)
  /\ UNCHANGED <<inbox, srvEnv, commMap, finiMap, out, srv, restarted>>

(* Mutant of SrvProgress: there is a callback only when there are errors.  *)
ProgressSilent ==
  /\ srv = "runs" /\ upAns # <<>>
  /\ LET f == Head(upAns) IN
       IF f.req.fate = "failing" THEN Fini(f, finiMap, TRUE) ELSE UNCHANGED <<srv, finiMap, out>>
  /\ upAns' = Tail(upAns)
  /\ UNCHANGED <<inbox, srvEnv, commMap, up, restarted>>

(* The errors that the callback finds in the Status of the request: those  *)
(* of a get, a set and a log; DistRequest::getSamples puts none there.     *)
Flagged(q) == q.fate = "failing" /\ q.op # "samples"

(* CntxtData::process: the library takes an answer and calls back.         *)
SrvProgress ==
  /\ srv = "runs" /\ upAns # <<>>
  /\ LET f == Head(upAns) IN Fini(f, finiMap, Flagged(f.req))
  /\ upAns' = Tail(upAns)
  /\ UNCHANGED <<inbox, srvEnv, commMap, up, restarted>>

(* The channel to the other servers is closed: when the events of it have  *)
(* been taken, makeProgress takes the id of an event that is NULL (or, if  *)
(* the channel was reset, an assert of getEvent fails).                    *)
SrvCutOff ==
  /\ srv = "runs" /\ Upstream # {} /\ upAns = <<>>
  /\ srv' = "cut off"
  /\ UNCHANGED <<inbox, srvEnv, commMap, finiMap, up, upAns, out, restarted>>

(* The router has gone: work() ends when what it has sent is done.         *)
SrvEnds ==
  /\ srv = "runs" /\ inbox = <<>>
  /\ srv' = "ended"
  /\ UNCHANGED <<inbox, srvEnv, commMap, finiMap, up, upAns, out, restarted>>

(* Another process takes the place of a server.  The router knows which    *)
(* communicators it has created, the process does not.                     *)
SrvRestarts ==
  /\ ~restarted /\ restarted' = TRUE
  /\ srv' = "runs"
  /\ inbox' = <<>> /\ up' = {} /\ upAns' = <<>>
  /\ commMap' = [k \in CommId |-> NoObj] /\ finiMap' = {}
  /\ UNCHANGED <<srvEnv, out>>

SrvWork ==
  \/ \E e \in Range(inbox) : SrvCommCreate(e) \/ SrvCommDestroy(e)
                              \/ SrvCommReq(e) \/ SrvCommLogReq(e) \/ SrvCommGetSamples(e)
  \/ SrvProgress

SrvNext ==
  \/ \E k \in CommId, o \in ServedObj : RtrCreates(k, o)
  \/ \E k \in CommId : RtrDestroys(k)
  \/ \E q \in Request : RtrAsks(q)
  \/ SrvWork
  \/ \E f \in up : UpAnswers(f)
  \/ SrvCutOff
  \/ SrvEnds
  \/ SrvRestarts

SrvFair == WF_srvVars(SrvWork) /\ WF_srvVars(\E f \in up : UpAnswers(f))
SrvSpec == SrvInit /\ [][SrvNext]_srvVars /\ SrvFair

-----------------------------------------------------------------------------
Ids(fs) == {f.req.id : f \in fs}
Replied == {out[i].id : i \in DOMAIN out}

(* A request is answered once, whether its callback ran inside the call,   *)
(* was done by the event itself after a failed call, or came with an       *)
(* answer from above; and until then exactly one of those is to come, so   *)
(* that the assert of Server::fini holds and no entry stays for ever       *)
(* (server.cc, commReqEvent.h).                                            *)
FiniOnce ==
  /\ srv = "runs" => finiMap = up \union Range(upAns)
  /\ up \cap Range(upAns) = {}
  /\ \A f, g \in finiMap : f.req.id = g.req.id => f = g
  /\ \A i, j \in DOMAIN out : out[i].id = out[j].id => i = j
  /\ \A i, j \in DOMAIN upAns : upAns[i] = upAns[j] => i = j
  /\ Ids(finiMap) \cap Replied = {}

(* Every answer is of the object that the asker's communicator stands for  *)
(* and goes back to who has asked, although other communicators come and   *)
(* go while the request is above (m_commMap, Server::fini).                *)
OwnReply ==
  \A i \in DOMAIN out : \E q \in asked :
    q.id = out[i].id /\ out[i].dest = q.src /\ out[i].obj = made[q.comm]

(* The server reads from an empty communicator only if it has been         *)
(* restarted, and ends at an assert only for a request that mixes          *)
(* attributes of another server with names that are none, or for an object *)
(* that its configuration does not have.                                   *)
SrvBlameless ==
  /\ srv = "undefined" => restarted
  /\ srv = "aborted" => \/ \E q \in asked : q.fate = "mixed"
                        \/ \E k \in CommId : made[k] \in Strange

(* An error is told to the client that asked: requestFini copies the       *)
(* request's Status into the answer.                                       *)
ErrorsTold ==
  \A i \in DOMAIN out : \A q \in asked :
    q.id = out[i].id /\ q.fate # "own" => out[i].err

(* A request that has reached a server is answered, if the other servers   *)
(* answer, unless this one ends first.                                     *)
SrvAnswers ==
  \A i \in ReqId :
    (\E q \in asked : q.id = i) ~> (i \in Replied \/ srv # "runs" \/ restarted)
=============================================================================
