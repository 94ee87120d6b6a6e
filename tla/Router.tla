------------------------------- MODULE Router -------------------------------
(***************************************************************************)
(* One router process with its clients and servers: Router::work() takes   *)
(* one event at a time from a channel that select() reports and runs its   *)
(* handler to the end.  An EventChannel is named by its heap address, so   *)
(* that a deleted channel and a later one at the same address are told     *)
(* apart only as far as the code can.                                      *)
(*                                                                         *)
(* TCP keeps each direction of a connection in order; a connection is made *)
(* when the router accepts it (what the peer wrote before is in its queue  *)
(* by then).  There is no link to another router: treeCore's getChannel is *)
(* NULL.  The peers are what src/pwr (DistComm) and pwrdaemon/server do on *)
(* the wire.                                                               *)
(***************************************************************************)
EXTENDS Integers, Sequences, FiniteSets, SequencesExt

CONSTANTS
  Chan,       \* addresses of EventChannels
  Server,     \* ServerIDs, numbers
  ReqId,      \* addresses of CommReqs in a client
  CommId,     \* communicator ids
  Obj,        \* objects of communicators
  InfoId,     \* addresses of CommReqInfos
  Home,       \* the route table: the server of an object, or NoRoute
  Members,    \* per communicator its list of groups, each a list of objects
  Ops,        \* per communicator, the operations clients use on it
  NoChan, NoRoute, NoComm, NoObj, NoServer, Free,
  MaxClients, \* bound: clients that ever connect
  MaxAsks,    \* bound: requests ever made
  MaxStarts,  \* bound: how often each server is started
  MayLeave,   \* whether clients leave
  MayDie      \* the servers that may die

VARIABLES
  up,         \* FALSE once the router hit an assert, SIGPIPE or freed memory
  kind,       \* m_clientMap and m_serverMap: what a channel is for
  comms,      \* Client::m_commMap
  name,       \* Server::m_name, as the id findRoute gives it
  localMap,   \* m_localMap
  pending,    \* m_pendingEvents
  info,       \* the heap of CommReqInfos
  inq,        \* bytes from the peer the router has not read
  outq,       \* bytes to the peer it has not read
  conn,       \* the peer's end: open, closed (eof), closed with bytes unread
  want,       \* the peer is a client: communicator of each unanswered request
  made,       \* the peer is a client: DistComms whose CommCreate was sent
  clients, asks, starts,   \* counters for the bounds
  srvChan,    \* a server's channel, NoChan while it is not running
  objs,       \* a server's m_commMap
  work        \* requests a server has accepted and not answered

rtrVars == <<up, kind, comms, name, localMap, pending, info>>
cliVars == <<want, made, clients, asks>>
srvVars == <<starts, srvChan, objs, work>>
vars    == <<rtrVars, inq, outq, conn, cliVars, srvVars>>

ReqOp  == {"get", "avg", "set", "log", "samples"}
OneObj == {"log", "samples"}
Groups(k) == DOMAIN Members[k]

(* The members of a communicator.  Each has a server of its own, as in the *)
(* configurations of examples/config/daemon.py: a server knows one object  *)
(* per communicator.                                                       *)
MembersOf(k) == UNION {Range(Members[k][g]) : g \in Groups(k)}

ASSUME RouteAssumption ==
  /\ \A k \in CommId :
       /\ Members[k] \in Seq(Seq(Obj)) /\ Members[k] # <<>>
       /\ \A g \in Groups(k) : Members[k][g] # <<>> /\ IsInjective(Members[k][g])
       /\ \A o, p \in MembersOf(k) : Home[o] = Home[p] /\ Home[o] # NoRoute => o = p
  /\ \A o \in Obj : Home[o] \in Server \cup {NoRoute}
  /\ NoRoute \notin Server /\ NoRoute # NoChan /\ {NoRoute, NoChan} \cap Chan = {}
  /\ NoComm \notin CommId /\ NoObj \notin Obj

Create(k, o)        == [type |-> "CommCreate", comm |-> k, dst |-> o]
Destroy(k, o)       == [type |-> "CommDestroy", comm |-> k, dst |-> o]
Request(op, q, k)   == [type |-> "CommReq", op |-> op, id |-> q, comm |-> k]
Copy(op, k, i, g, o) ==
  [type |-> "CommReq", op |-> op, comm |-> k, info |-> i, grp |-> g, dst |-> o]
Response(w) ==
  [type |-> "CommResp", op |-> w.op, info |-> w.info, grp |-> w.grp, obj |-> w.obj]

(* A new CommReqInfo; only RtrCommReqEvent sizes grpInfo, respQ and value. *)
(* respQ and value list the members that have contributed, with a value to *)
(* a get or with their errors to a set.  No object is twice in a group.    *)
NewInfo(c, m) ==
  LET G == IF m.op \in OneObj THEN {} ELSE Groups(m.comm)
  IN  [src |-> c, id |-> m.id, comm |-> m.comm, op |-> m.op,
       grpInfo |-> [g \in G |-> Len(Members[m.comm][g])],
       respQ   |-> [g \in G |-> <<>>],
       value   |-> [g \in G |-> <<>>],
       pending |-> Len(Members[m.comm])]

(* What the router keeps of a request.                                     *)
Info == [src : Chan, id : ReqId, comm : CommId, op : ReqOp, grpInfo : Seq(Nat),
         respQ : Seq(Seq(Obj)), value : Seq(Seq(Obj)), pending : Nat]

ASSUME FreeAssumption == Free \notin Info

Unused == [q \in ReqId |-> NoComm]

Init ==
  /\ up = TRUE
  /\ kind = [c \in Chan |-> "free"]
  /\ comms = [c \in Chan |-> {}]
  /\ name = [c \in Chan |-> NoServer]
  /\ localMap = [s \in Server |-> NoChan]
  /\ pending = [s \in Server |-> <<>>]
  /\ info = [i \in InfoId |-> Free]
  /\ inq = [c \in Chan |-> <<>>]
  /\ outq = [c \in Chan |-> <<>>]
  /\ conn = [c \in Chan |-> "none"]
  /\ want = [c \in Chan |-> Unused]
  /\ made = [c \in Chan |-> {}]
  /\ clients = 0 /\ asks = 0
  /\ starts = [s \in Server |-> 0]
  /\ srvChan = [s \in Server |-> NoChan]
  /\ objs = [s \in Server |-> [k \in CommId |-> NoObj]]
  /\ work = [s \in Server |-> {}]

-----------------------------------------------------------------------------
(* Sending.  A write to a connected peer is queued.  A write to a peer     *)
(* that has closed is lost, or kills the router: write() fails an assert   *)
(* or raises SIGPIPE.  A freed channel, and the NULL channel of a router   *)
(* that does not exist, kill the router.                                   *)
Fate(dests) ==
  IF \E d \in dests : d = NoRoute \/ (d \in Chan /\ kind[d] = "free") THEN {FALSE}
  ELSE IF \E d \in dests : d \in Chan /\ conn[d] # "open" THEN {TRUE, FALSE}
  ELSE {TRUE}

(* Router::sendEvent(ObjID): NoChan stands for a server that has not       *)
(* connected.                                                              *)
Route(o) == IF Home[o] = NoRoute THEN NoRoute ELSE localMap[Home[o]]

Only(ms, Test(_)) ==
  FlattenSeq([n \in DOMAIN ms |-> IF Test(ms[n]) THEN <<ms[n]>> ELSE <<>>])

Send(ms) ==
  /\ up' \in Fate({Route(m.dst) : m \in Range(ms)})
  /\ outq' = [c \in Chan |->
       IF conn[c] = "open" THEN outq[c] \o Only(ms, LAMBDA m : Route(m.dst) = c)
       ELSE outq[c]]
  /\ pending' = [s \in Server |->
       IF localMap[s] = NoChan THEN pending[s] \o Only(ms, LAMBDA m : Home[m.dst] = s)
       ELSE pending[s]]

(* The next event of a channel, as EventData::process gets it.             *)
Receive(c, k, type) ==
  /\ up
  /\ kind[c] = k
  /\ inq[c] # <<>>
  /\ Head(inq[c]).type = type
  /\ inq' = [inq EXCEPT ![c] = Tail(@)]

Abort ==
  /\ up' = FALSE
  /\ UNCHANGED <<kind, comms, name, localMap, pending, info>>

(* RtrCommCreateEvent::process: every member's server gets a communicator  *)
(* of its own, of one object.                                              *)
(* Mutant of RtrCommCreate: the loop of ~Client, the first group only.     *)
CreateFirstGroup(c) ==
  /\ Receive(c, "client", "CommCreate")
  /\ LET k == Head(inq[c]).comm
     IN  /\ comms' = [comms EXCEPT ![c] = @ \cup {k}]
         /\ Send([n \in DOMAIN Members[k][1] |-> Create(k, Members[k][1][n])])
  /\ UNCHANGED <<kind, name, localMap, info, conn, cliVars, srvVars>>

RtrCommCreate(c) ==
  /\ Receive(c, "client", "CommCreate")
  /\ LET k == Head(inq[c]).comm
     IN  IF k \in comms[c]
         THEN Abort /\ UNCHANGED outq
         ELSE /\ comms' = [comms EXCEPT ![c] = @ \cup {k}]
              /\ Send([n \in DOMAIN FlattenSeq(Members[k]) |->
                         Create(k, FlattenSeq(Members[k])[n])])
              /\ UNCHANGED <<kind, name, localMap, info>>
  /\ UNCHANGED <<conn, cliVars, srvVars>>

(* RtrCommReqEvent, RtrCommLogReqEvent, RtrCommGetSamplesReqEvent.         *)
Supported(op, k) ==
  op \in OneObj => Len(Members[k]) = 1 /\ Len(Members[k][1]) = 1

CopiesOf(m, i) ==
  FlattenSeq([g \in Groups(m.comm) |->
    [n \in DOMAIN Members[m.comm][g] |-> Copy(m.op, m.comm, i, g, Members[m.comm][g][n])]])

RtrCommReq(c, i) ==
  /\ info[i] = Free
  /\ Receive(c, "client", "CommReq")
  /\ LET m == Head(inq[c])
     IN  IF m.comm \notin comms[c] \/ ~ Supported(m.op, m.comm)
         THEN Abort /\ UNCHANGED outq
         ELSE /\ info' = [info EXCEPT ![i] = NewInfo(c, m)]
              /\ Send(CopiesOf(m, i))
              /\ UNCHANGED <<kind, comms, name, localMap>>
  /\ UNCHANGED <<conn, cliVars, srvVars>>

(* An answer goes to the channel the request came from, whatever has       *)
(* become of it.                                                           *)
Answer(x, v) ==
  /\ up' \in Fate({x.src})
  /\ outq' = IF conn[x.src] = "open"
             THEN [outq EXCEPT ![x.src] = Append(@, [type |-> "Answer", id |-> x.id, value |-> v])]
             ELSE outq

(* RtrCommRespEvent::process: the id is a CommReqInfo; queue the response  *)
(* with its group, sum a group that is complete, answer when all are.      *)
Queued(m) == Append(info[m.info].respQ[m.grp], m.obj)

(* Mutant of GroupReady: the first response is enough.                     *)
FirstIsEnough(m) == Len(Queued(m)) >= 1

GroupReady(m) == Len(Queued(m)) = info[m.info].grpInfo[m.grp]
Summable(m) == info[m.info].op # "avg"   \* assert( FP_ADD == valueOp )

Collect(m) ==
  /\ ~ GroupReady(m)
  /\ info' = [info EXCEPT ![m.info].respQ[m.grp] = Queued(m)]
  /\ UNCHANGED <<up, outq>>

Complete(m) ==
  /\ GroupReady(m) /\ Summable(m)
  /\ info[m.info].pending > 1
  /\ info' = [info EXCEPT ![m.info].respQ[m.grp] = Queued(m),
                          ![m.info].value[m.grp] = Queued(m),
                          ![m.info].pending = @ - 1]
  /\ UNCHANGED <<up, outq>>

(* Mutants of Reply: the CommReqInfo is not freed; the last response is    *)
(* left out.                                                               *)
ReplyAndKeep(m) ==
  /\ GroupReady(m) /\ Summable(m)
  /\ info[m.info].pending = 1
  /\ Answer(info[m.info], [info[m.info].value EXCEPT ![m.grp] = Queued(m)])
  /\ UNCHANGED info

ReplyShort(m) ==
  /\ GroupReady(m) /\ Summable(m)
  /\ info[m.info].pending = 1
  /\ info' = [info EXCEPT ![m.info] = Free]
  /\ Answer(info[m.info], info[m.info].value)

Reply(m) ==
  /\ GroupReady(m) /\ Summable(m)
  /\ info[m.info].pending = 1
  /\ info' = [info EXCEPT ![m.info] = Free]
  /\ Answer(info[m.info], [info[m.info].value EXCEPT ![m.grp] = Queued(m)])

RtrCommResp(c) ==
  /\ Receive(c, "server", "CommResp")
  /\ Head(inq[c]).op \notin OneObj
  /\ LET m == Head(inq[c])
     IN  IF info[m.info] = Free \/ (GroupReady(m) /\ ~ Summable(m))
         THEN up' = FALSE /\ UNCHANGED <<info, outq>>
         ELSE Collect(m) \/ Complete(m) \/ Reply(m)
  /\ UNCHANGED <<kind, comms, name, localMap, pending, conn, cliVars, srvVars>>

(* RtrCommLogRespEvent and RtrCommGetSamplesRespEvent: the one response is *)
(* the answer.                                                             *)
RtrOneResp(c) ==
  /\ Receive(c, "server", "CommResp")
  /\ Head(inq[c]).op \in OneObj
  /\ LET m == Head(inq[c])
         x == info[m.info]
     IN  IF x = Free
         THEN up' = FALSE /\ UNCHANGED <<info, outq>>
         ELSE /\ Answer(x, <<<<m.obj>>>>)
              /\ info' = [info EXCEPT ![m.info] = Free]
  /\ UNCHANGED <<kind, comms, name, localMap, pending, conn, cliVars, srvVars>>

(* RtrServerConnectEvent: addServer, then doPending.                       *)
(* Mutant of RtrServerConnect: doPending is not called.                    *)
ConnectOnly(c) ==
  /\ Receive(c, "server", "ServerConnect")
  /\ LET s == Head(inq[c]).srv
     IN  /\ localMap' = [localMap EXCEPT ![s] = c]
         /\ name' = [name EXCEPT ![c] = s]
  /\ UNCHANGED <<up, outq, pending, kind, comms, info, conn, cliVars, srvVars>>

RtrServerConnect(c) ==
  /\ Receive(c, "server", "ServerConnect")
  /\ LET s == Head(inq[c]).srv
     IN  /\ localMap' = [localMap EXCEPT ![s] = c]
         /\ name' = [name EXCEPT ![c] = s]
         /\ pending' = [pending EXCEPT ![s] = <<>>]
         /\ IF pending[s] = <<>> THEN UNCHANGED <<up, outq>>
            ELSE /\ up' \in Fate({c})
                 /\ outq' = IF conn[c] = "open"
                            THEN [outq EXCEPT ![c] = @ \o pending[s]] ELSE outq
  /\ UNCHANGED <<kind, comms, info, conn, cliVars, srvVars>>

(* EventData::process when getEvent returns NULL: forget the channel.      *)
Closed(c, k) == up /\ kind[c] = k /\ inq[c] = <<>> /\ conn[c] = "eof"

Forget(c) ==
  /\ kind' = [kind EXCEPT ![c] = "free"]
  /\ conn' = [conn EXCEPT ![c] = "none"]

(* delClientChan: ~Client tells the members of the first group of each of  *)
(* its communicators.                                                      *)
(* Mutant of RtrClientClosed: the client's CommReqInfos are freed with it. *)
ClosedAndFreed(c) ==
  /\ Closed(c, "client")
  /\ Forget(c)
  /\ comms' = [comms EXCEPT ![c] = {}]
  /\ info' = [i \in InfoId |-> IF info[i] # Free /\ info[i].src = c THEN Free ELSE info[i]]
  /\ UNCHANGED <<up, pending, outq, name, localMap, inq, cliVars, srvVars>>

RtrClientClosed(c) ==
  /\ Closed(c, "client")
  /\ Forget(c)
  /\ comms' = [comms EXCEPT ![c] = {}]
  /\ LET ks == SetToSeq(comms[c])
     IN  Send(FlattenSeq([n \in DOMAIN ks |->
                [j \in DOMAIN Members[ks[n]][1] |-> Destroy(ks[n], Members[ks[n]][1][j])]]))
  /\ UNCHANGED <<name, localMap, info, inq, cliVars, srvVars>>

(* delServerChan: ~Server calls delServer, which erases ServerID 0.        *)
RtrServerClosed(c) ==
  /\ Closed(c, "server")
  /\ Forget(c)
  /\ name' = [name EXCEPT ![c] = NoServer]
  /\ localMap' = [s \in Server |-> IF s = 0 THEN NoChan ELSE localMap[s]]
  /\ UNCHANGED <<up, comms, pending, info, inq, outq, cliVars, srvVars>>

(* A connection closed with bytes unread is reset: read() returns -1 and   *)
(* getEvent's assert fails.                                                *)
RtrReset(c) ==
  /\ up /\ kind[c] # "free" /\ inq[c] = <<>> /\ conn[c] = "reset"
  /\ Abort
  /\ UNCHANGED <<inq, outq, conn, cliVars, srvVars>>

-----------------------------------------------------------------------------
(* AcceptData::process on the two listening sockets.                       *)
Accept(c, k) ==
  /\ up
  /\ kind[c] = "free"
  /\ kind' = [kind EXCEPT ![c] = k]
  /\ conn' = [conn EXCEPT ![c] = "open"]
  /\ outq' = [outq EXCEPT ![c] = <<>>]
  /\ UNCHANGED <<up, comms, name, localMap, pending, info>>

AcceptClient(c) ==
  /\ clients < MaxClients
  /\ Accept(c, "client")
  /\ inq' = [inq EXCEPT ![c] = <<>>]
  /\ want' = [want EXCEPT ![c] = Unused]
  /\ made' = [made EXCEPT ![c] = {}]
  /\ clients' = clients + 1
  /\ UNCHANGED <<asks, srvVars>>

(* The Server's constructor has written its ServerConnectEvent.            *)
AcceptServer(c, s) ==
  /\ srvChan[s] = NoChan /\ starts[s] < MaxStarts
  /\ Accept(c, "server")
  /\ inq' = [inq EXCEPT ![c] = <<[type |-> "ServerConnect", srv |-> s]>>]
  /\ srvChan' = [srvChan EXCEPT ![s] = c]
  /\ objs' = [objs EXCEPT ![s] = [k \in CommId |-> NoObj]]
  /\ work' = [work EXCEPT ![s] = {}]
  /\ starts' = [starts EXCEPT ![s] = @ + 1]
  /\ UNCHANGED cliVars

-----------------------------------------------------------------------------
(* A client process.  DistComm::getChannel writes the CommCreate just      *)
(* before the first request of a communicator.                             *)
IsClient(c) == kind[c] = "client" /\ conn[c] = "open"

(* gettid() and a counter make a communicator id its client's own.         *)
Own(c, k) == \A d \in Chan \ {c} : kind[d] = "client" => k \notin made[d]

(* Mutant of CliAsk: every request is preceded by a CommCreate.            *)
CreateAndAsk(c, q, k, op) ==
  /\ IsClient(c) /\ up
  /\ want[c][q] = NoComm
  /\ op \in Ops[k] /\ Own(c, k)
  /\ asks < MaxAsks
  /\ inq' = [inq EXCEPT ![c] = @ \o <<Create(k, NoObj), Request(op, q, k)>>]
  /\ want' = [want EXCEPT ![c][q] = k]
  /\ asks' = asks + 1
  /\ UNCHANGED <<rtrVars, outq, conn, made, clients, srvVars>>

CliAsk(c, q, k, op) ==
  /\ IsClient(c) /\ up
  /\ want[c][q] = NoComm
  /\ op \in Ops[k] /\ Own(c, k)
  /\ asks < MaxAsks
  /\ inq' = [inq EXCEPT ![c] = @ \o (IF k \in made[c] THEN <<>> ELSE <<Create(k, NoObj)>>)
                                \o <<Request(op, q, k)>>]
  /\ want' = [want EXCEPT ![c][q] = k]
  /\ made' = [made EXCEPT ![c] = @ \cup {k}]
  /\ asks' = asks + 1
  /\ UNCHANGED <<rtrVars, outq, conn, clients, srvVars>>

CliRead(c) ==
  /\ IsClient(c) /\ outq[c] # <<>> /\ Head(outq[c]).type = "Answer"
  /\ want' = [want EXCEPT ![c][Head(outq[c]).id] = NoComm]
  /\ outq' = [outq EXCEPT ![c] = Tail(@)]
  /\ UNCHANGED <<rtrVars, inq, conn, made, clients, asks, srvVars>>

(* What is left unread decides how the other end finds the connection.     *)
Close(c, unread) ==
  /\ conn' = [conn EXCEPT ![c] = IF unread = <<>> THEN "eof" ELSE "reset"]
  /\ outq' = [outq EXCEPT ![c] = <<>>]

(* A client ends of itself, or at an event that ctx_allocEvent does not    *)
(* know.                                                                   *)
CliLeave(c) ==
  /\ IsClient(c)
  /\ \/ MayLeave /\ up /\ Close(c, outq[c])
     \/ outq[c] # <<>> /\ Head(outq[c]).type # "Answer" /\ Close(c, Tail(outq[c]))
  /\ UNCHANGED <<rtrVars, inq, cliVars, srvVars>>

-----------------------------------------------------------------------------
(* A server process.  It looks a request's object up by the communicator   *)
(* id alone; device operations are non-blocking and end in any order.      *)
SrvTakes(s, type) ==
  /\ srvChan[s] # NoChan
  /\ outq[srvChan[s]] # <<>>
  /\ Head(outq[srvChan[s]]).type = type
  /\ outq' = [outq EXCEPT ![srvChan[s]] = Tail(@)]

SrvCommCreate(s) ==
  /\ SrvTakes(s, "CommCreate")
  /\ LET m == Head(outq[srvChan[s]])
     IN  objs' = [objs EXCEPT ![s][m.comm] = m.dst]
  /\ UNCHANGED <<rtrVars, inq, conn, cliVars, starts, srvChan, work>>

SrvCommDestroy(s) ==
  /\ SrvTakes(s, "CommDestroy")
  /\ LET m == Head(outq[srvChan[s]])
     IN  objs' = [objs EXCEPT ![s][m.comm] = NoObj]
  /\ UNCHANGED <<rtrVars, inq, conn, cliVars, starts, srvChan, work>>

SrvCommReq(s) ==
  /\ SrvTakes(s, "CommReq")
  /\ LET m == Head(outq[srvChan[s]])
     IN  /\ objs[s][m.comm] # NoObj
         /\ work' = [work EXCEPT ![s] = @ \cup
                       {[op |-> m.op, info |-> m.info, grp |-> m.grp, obj |-> objs[s][m.comm]]}]
  /\ UNCHANGED <<rtrVars, inq, conn, cliVars, starts, srvChan, objs>>

(* requestFini and its kin.                                                *)
SrvReply(s, w) ==
  /\ w \in work[s]
  /\ work' = [work EXCEPT ![s] = @ \ {w}]
  /\ inq' = [inq EXCEPT ![srvChan[s]] = Append(@, Response(w))]
  /\ UNCHANGED <<rtrVars, outq, conn, cliVars, starts, srvChan, objs>>

(* A server stops: killed, or by an event it cannot take (a communicator   *)
(* it does not know is an index into an empty vector).                     *)
SrvStops(s, unread) ==
  /\ Close(srvChan[s], unread)
  /\ srvChan' = [srvChan EXCEPT ![s] = NoChan]
  /\ work' = [work EXCEPT ![s] = {}]
  /\ UNCHANGED <<rtrVars, inq, cliVars, starts, objs>>

SrvDie(s) ==
  /\ up /\ s \in MayDie
  /\ srvChan[s] # NoChan
  /\ SrvStops(s, outq[srvChan[s]])

Unserved(s) ==
  LET m == Head(outq[srvChan[s]])
  IN  m.type = "Answer" \/ (m.type = "CommReq" /\ objs[s][m.comm] = NoObj)

SrvCrash(s) ==
  /\ srvChan[s] # NoChan
  /\ outq[srvChan[s]] # <<>>
  /\ Unserved(s)
  /\ SrvStops(s, Tail(outq[srvChan[s]]))

-----------------------------------------------------------------------------
RtrStep(c) ==
  \/ RtrCommCreate(c)
  \/ \E i \in InfoId : RtrCommReq(c, i)
  \/ RtrCommResp(c)
  \/ RtrOneResp(c)
  \/ RtrServerConnect(c)
  \/ RtrClientClosed(c)
  \/ RtrServerClosed(c)
  \/ RtrReset(c)

SrvStep(s) ==
  \/ SrvCommCreate(s)
  \/ SrvCommDestroy(s)
  \/ SrvCommReq(s)
  \/ SrvCrash(s)
  \/ \E w \in work[s] : SrvReply(s, w)

Next ==
  \/ \E c \in Chan : RtrStep(c)
  \/ \E c \in Chan : AcceptClient(c)
  \/ \E c \in Chan, s \in Server : AcceptServer(c, s)
  \/ \E c \in Chan, q \in ReqId, k \in CommId, op \in ReqOp : CliAsk(c, q, k, op)
  \/ \E c \in Chan : CliRead(c)
  \/ \E c \in Chan : CliLeave(c)
  \/ \E s \in Server : SrvStep(s)
  \/ \E s \in Server : SrvDie(s)

Spec == Init /\ [][Next]_vars

(* work() never rests while a channel is ready, a started server runs, and *)
(* a client reads its answers.  Requests are bounded, so select() choosing *)
(* the lowest descriptor cannot starve a channel.                          *)
Fairness ==
  /\ WF_vars(\E c \in Chan : RtrStep(c))
  /\ \A s \in Server : /\ WF_vars(SrvStep(s))
                       /\ WF_vars(\E c \in Chan : AcceptServer(c, s))
  /\ \A c \in Chan : WF_vars(CliRead(c))

FairSpec == Spec /\ Fairness

-----------------------------------------------------------------------------
(* What the router promises, in terms of Aggregation: the CommReqInfos     *)
(* with the vectors that the one-object requests leave empty filled in.    *)
AsInfo(x) ==
  IF x = Free THEN Free
  ELSE LET one == x.op \in OneObj
       IN  [src |-> x.src, id |-> x.id, comm |-> x.comm, pending |-> x.pending,
            grpInfo |-> IF one THEN <<1>> ELSE x.grpInfo,
            respQ   |-> IF one THEN <<<<>>>> ELSE x.respQ,
            value   |-> IF one THEN <<<<>>>> ELSE x.value]

Queues(f) == UNION {Range(f[x]) : x \in DOMAIN f}

MemberSets == [k \in CommId |-> [g \in Groups(k) |-> Range(Members[k][g])]]

Requested ==
  UNION {{[src |-> c, id |-> m.id, comm |-> m.comm] :
            m \in {m \in Range(inq[c]) : m.type = "CommReq"}} : c \in Chan}

Heap == [i \in InfoId |-> AsInfo(info[i])]

Outward ==
  {[info |-> m.info, grp |-> m.grp, obj |-> m.dst] :
     m \in {m \in Queues(pending) \cup Queues(outq) : m.type = "CommReq"}}
  \cup UNION {{[info |-> w.info, grp |-> w.grp, obj |-> w.obj] : w \in work[s]} : s \in Server}

Inward ==
  {[info |-> m.info, grp |-> m.grp, obj |-> m.obj] :
     m \in {m \in Queues(inq) : m.type = "CommResp"}}

ToldBy(q) == [n \in DOMAIN q |-> [id |-> q[n].id, value |-> q[n].value]]
Replies == [c \in Chan |-> ToldBy(Only(outq[c], LAMBDA m : m.type = "Answer"))]

Promise == INSTANCE Aggregation WITH
  Client  <- Chan,
  Members <- MemberSets,
  waiting <- want,
  asked   <- Requested,
  info    <- Heap,
  toSrvr  <- Outward,
  toRtr   <- Inward,
  lost    <- {},
  answers <- Replies

ASSUME PromiseAssumption == Free \notin Promise!Info

-----------------------------------------------------------------------------
Msg(q, type) == {m \in Range(q) : m.type = type}

(* No assert of the router fails, nothing kills it.                        *)
NoAbort == up

(* No server has stopped: what a server knew is lost with it, and requests *)
(* for server 1 may go to whatever gets the address of its channel.        *)
NoneStopped ==
  \A s \in Server : starts[s] <= 1 /\ (starts[s] = 1 => srvChan[s] # NoChan)

(* Until a server stops, what a server finds under a request's             *)
(* communicator id, when the request comes to be served, is the object the *)
(* request was sent to: the CommCreate is ahead of the request, through    *)
(* the pending queue of a server that has yet to connect as well, and no   *)
(* CommDestroy overtakes or precedes it.                                   *)
Stream(s) == (IF srvChan[s] = NoChan THEN <<>> ELSE outq[srvChan[s]]) \o pending[s]

Found(s, k, n) ==
  LET prior == {j \in 1 .. n - 1 : Stream(s)[j].type \in {"CommCreate", "CommDestroy"}
                                  /\ Stream(s)[j].comm = k}
      last  == Stream(s)[Max(prior)]
  IN  IF prior = {} THEN objs[s][k]
      ELSE IF last.type = "CommCreate" THEN last.dst ELSE NoObj

RightObject ==
  NoneStopped => \A s \in Server : \A n \in DOMAIN Stream(s) :
    LET m == Stream(s)[n]
    IN  m.type = "CommReq" => Found(s, m.comm, n) = m.dst

(* A server that is connected can be reached: m_localMap has its channel.  *)
Reachable ==
  \A c \in Chan : kind[c] = "server" /\ conn[c] = "open" /\ name[c] # NoServer
                 => localMap[name[c]] = c

(* A server is only sent events that its allocEvent knows.                 *)
KnownEvents ==
  \A s \in Server : srvChan[s] # NoChan => Msg(outq[srvChan[s]], "Answer") = {}

(* The router does what Aggregation promises.                              *)
KeepsPromise == Promise!Spec

(* Until a server stops, an id that comes back from a server is still the  *)
(* address of the CommReqInfo it was taken from, which still expects this  *)
(* response.                                                               *)
CastIsSafe == NoneStopped => Promise!ResponsesExpected

(* Every client that has connected is connected.                           *)
NoneLeft == clients = Cardinality({c \in Chan : kind[c] = "client" /\ conn[c] = "open"})

(* Until a client leaves, each answer belongs to a request and has all its *)
(* members' values, although servers stop with requests under way.         *)
AnswersWhole == NoneLeft => Promise!AnswersComplete

(* Every request is answered.                                              *)
Answered ==
  \A c \in Chan, q \in ReqId : want[c][q] # NoComm ~> want[c][q] = NoComm

-----------------------------------------------------------------------------
(* The inductive invariant of the proofs.                                  *)

(* What is on the connections, in a server, and in the variables.          *)
Created == [type : {"CommCreate"}, comm : CommId, dst : Obj]
Destroyed == [type : {"CommDestroy"}, comm : CommId, dst : Obj]
Copied == [type : {"CommReq"}, op : ReqOp, comm : CommId, info : InfoId, grp : Nat, dst : Obj]
Answers == [type : {"Answer"}, id : ReqId, value : Seq(Seq(Obj))]
ForServers == Created \cup Destroyed \cup Copied

Opened == [type : {"CommCreate"}, comm : CommId, dst : {NoObj}]
AskedFor == [type : {"CommReq"}, op : ReqOp, id : ReqId, comm : CommId]
Responses == [type : {"CommResp"}, op : ReqOp, info : InfoId, grp : Nat, obj : Obj]
Connects == [type : {"ServerConnect"}, srv : Server]
ForRouter == Opened \cup AskedFor \cup Responses \cup Connects

Works == [op : ReqOp, info : InfoId, grp : Nat, obj : Obj]

RtrTypeOK ==
  /\ up \in BOOLEAN
  /\ kind \in [Chan -> {"free", "client", "server"}]
  /\ conn \in [Chan -> {"none", "open", "eof", "reset"}]
  /\ comms \in [Chan -> SUBSET CommId] /\ made \in [Chan -> SUBSET CommId]
  /\ name \in [Chan -> Server \cup {NoServer}]
  /\ localMap \in [Server -> Chan \cup {NoChan}] /\ srvChan \in [Server -> Chan \cup {NoChan}]
  /\ pending \in [Server -> Seq(ForServers)]
  /\ info \in [InfoId -> Info \cup {Free}]
  /\ inq \in [Chan -> Seq(ForRouter)]
  /\ outq \in [Chan -> Seq(ForServers \cup Answers)]
  /\ want \in [Chan -> [ReqId -> CommId \cup {NoComm}]]
  /\ clients \in Nat /\ asks \in Nat /\ starts \in [Server -> Nat]
  /\ objs \in [Server -> [CommId -> Obj \cup {NoObj}]]
  /\ work \in [Server -> SUBSET Works]
  /\ \A c \in Chan : IsFiniteSet(comms[c])
  /\ \A i \in InfoId : info[i] # Free => DOMAIN info[i].respQ = DOMAIN info[i].value

(* A communicator is its client's own.                                     *)
Apart ==
  /\ \A c, d \in Chan : c # d /\ kind[c] = "client" /\ kind[d] = "client"
                        => made[c] \cap made[d] = {}
  /\ \A c \in Chan : comms[c] \subseteq made[c] /\ (kind[c] # "client" => comms[c] = {})
  /\ \A c \in Chan : kind[c] = "client" =>
       \A n \in DOMAIN inq[c] : inq[c][n].type = "CommCreate" => inq[c][n].comm \in made[c]

(* A running server has an open channel of its own.                        *)
Plugged ==
  /\ \A s \in Server : srvChan[s] # NoChan =>
       kind[srvChan[s]] = "server" /\ conn[srvChan[s]] = "open" /\ starts[s] > 0
  /\ \A s, t \in Server : srvChan[s] = srvChan[t] /\ srvChan[s] # NoChan => s = t

(* Until a server stops, m_localMap and what is on the connections agree   *)
(* with the servers that run.                                              *)
Linked ==
  /\ \A c \in Chan : kind[c] = "server" => \E s \in Server : srvChan[s] = c
  /\ \A s \in Server : localMap[s] # NoChan => localMap[s] = srvChan[s] /\ pending[s] = <<>>
  /\ \A s \in Server : localMap[s] = NoChan =>
       objs[s] = [k \in CommId |-> NoObj] /\ work[s] = {}
  /\ \A c \in Chan : \A n \in DOMAIN inq[c] :
       /\ inq[c][n].type = "ServerConnect" => srvChan[inq[c][n].srv] = c
       /\ inq[c][n].type = "CommResp" => \E s \in Server : srvChan[s] = c
  /\ \A c \in Chan : \A n \in DOMAIN outq[c] :
       outq[c][n].type # "Answer" => \E s \in Server : localMap[s] = c

(* What a server has yet to take, wherever it waits, and what came back.   *)
Queue(s) == IF localMap[s] = NoChan THEN pending[s] ELSE outq[srvChan[s]]
Back(s)  == IF srvChan[s] = NoChan THEN <<>> ELSE inq[srvChan[s]]

About(m, k) == m.type \in {"CommCreate", "CommDestroy"} /\ m.comm = k

(* After n - 1 events of q, a server that begins with object b under k has *)
(* o there.                                                                *)
Stands(q, b, k, n, o) ==
  \E j \in 0 .. n - 1 :
    /\ IF j = 0 THEN b = o ELSE q[j] = Create(k, o)
    /\ \A i \in j + 1 .. n - 1 : About(q[i], k) => q[i] = Create(k, o)

InPlace ==
  /\ \A s \in Server : \A n \in DOMAIN Queue(s) :
       LET m == Queue(s)[n]
       IN  /\ m.type # "Answer" => Home[m.dst] = s
           /\ m.type = "CommReq" => Stands(Queue(s), objs[s][m.comm], m.comm, n, m.dst)
  /\ \A c \in Chan : \A k \in comms[c] : \A o \in MembersOf(k) : \A s \in Server :
       Home[o] = s => Stands(Queue(s), objs[s][k], k, Len(Queue(s)) + 1, o)

(* The contributions a request still has to get, wherever they are: in the *)
(* queue of a server, in its work, or on their way back.                   *)
Token(m) ==
  [op |-> m.op, info |-> m.info, grp |-> m.grp,
   obj |-> IF m.type = "CommReq" THEN m.dst ELSE m.obj]
Places(q, type) == {n \in DOMAIN q : q[n].type = type}
Tokens(q, type) == {Token(q[n]) : n \in Places(q, type)}
Once(q, type)   == \A m, n \in Places(q, type) : Token(q[m]) = Token(q[n]) => m = n

Asked(s)    == Tokens(Queue(s), "CommReq")
Returned(s) == Tokens(Back(s), "CommResp")

Expected(t) ==
  LET x == AsInfo(info[t.info])
  IN  /\ info[t.info] # Free /\ info[t.info].op = t.op
      /\ t.grp \in Groups(x.comm)
      /\ t.obj \in Range(Members[x.comm][t.grp])
      /\ t.obj \notin Range(x.respQ[t.grp])

(* Each is in one place, and its CommReqInfo expects it.                   *)
Even(s, A, W, R) ==
  /\ A \cap W = {} /\ (A \cup W) \cap R = {}
  /\ \A t \in A \cup W \cup R : Home[t.obj] = s /\ Expected(t)

Tallied ==
  /\ \A s \in Server : /\ Once(Queue(s), "CommReq") /\ Once(Back(s), "CommResp")
                       /\ Even(s, Asked(s), work[s], Returned(s))
  /\ \A i \in InfoId : info[i] # Free => Promise!InfoOK(AsInfo(info[i]))

(* Every reachable state is typed, and everything is in its place for as   *)
(* long as no server has stopped.                                          *)
IInv == RtrTypeOK /\ Apart /\ Plugged /\ (NoneStopped => Linked /\ InPlace /\ Tallied)

-----------------------------------------------------------------------------
(* Where clients and servers stay, and clients ask for what the router     *)
(* supports on objects that have a route.                                  *)
Calm ==
  /\ ~ MayLeave /\ MayDie = {}
  /\ \A k \in CommId : /\ \A op \in Ops[k] : op # "avg" /\ Supported(op, k)
                       /\ \A o \in MembersOf(k) : Home[o] # NoRoute

(* Every connection is open, and each side of it has what belongs there.   *)
Settled ==
  /\ up /\ NoneStopped
  /\ \A c \in Chan :
       /\ conn[c] = IF kind[c] = "free" THEN "none" ELSE "open"
       /\ kind[c] = "free" => inq[c] = <<>> /\ outq[c] = <<>> /\ want[c] = Unused
       /\ Places(outq[c], "Answer") # {} => kind[c] = "client"
  /\ \A i \in InfoId : info[i] # Free => kind[info[i].src] = "client"

(* A communicator is created once, and before it is used.                  *)
Introduced(q, K, M) ==
  /\ \A n \in Places(q, "CommCreate") :
       /\ q[n].comm \notin K
       /\ \A l \in Places(q, "CommCreate") : q[l].comm = q[n].comm => l = n
  /\ \A k \in M : k \in K \/ \E n \in Places(q, "CommCreate") : q[n].comm = k
  /\ \A n \in Places(q, "CommReq") :
       /\ q[n].op \in Ops[q[n].comm]
       /\ q[n].comm \in K \/ \E l \in Places(q, "CommCreate") : l < n /\ q[l].comm = q[n].comm

(* A request is in one place: on its way, in a CommReqInfo, or answered;   *)
(* and what is answered is whole.                                          *)
KeptFor(c) == {i \in InfoId : info[i] # Free /\ info[i].src = c}
KeptIds(c) == {info[i].id : i \in KeptFor(c)}
ToldIds(c) == {outq[c][n].id : n \in Places(outq[c], "Answer")}

Whole(v, k) ==
  /\ k \in CommId /\ DOMAIN v = Groups(k)
  /\ \A g \in Groups(k) : Range(v[g]) = Range(Members[k][g]) /\ IsInjective(v[g])

AsksOnce(q, w, I) ==
  \A n \in Places(q, "CommReq") :
    /\ w[q[n].id] = q[n].comm /\ q[n].id \notin I
    /\ \A l \in Places(q, "CommReq") : q[l].id = q[n].id => l = n

ToldOnce(q, w) ==
  \A n \in Places(q, "Answer") :
    /\ Whole(q[n].value, w[q[n].id])
    /\ \A l \in Places(q, "Answer") : q[l].id = q[n].id => l = n

KeptOnce(c) ==
  \A i \in KeptFor(c) :
    /\ want[c][info[i].id] = info[i].comm /\ info[i].op \in Ops[info[i].comm]
    /\ \A j \in KeptFor(c) : info[j].id = info[i].id => i = j

HeldOnce(c) ==
  /\ AsksOnce(inq[c], want[c], KeptIds(c) \cup ToldIds(c))
  /\ KeptOnce(c) /\ KeptIds(c) \cap ToldIds(c) = {}
  /\ ToldOnce(outq[c], want[c])

Steady ==
  /\ Settled
  /\ \A c \in Chan : kind[c] = "client" =>
       Introduced(inq[c], comms[c], made[c]) /\ HeldOnce(c)

(* While everyone is calm, the handlers of the router find what they look  *)
(* for (getCommList, the CommReqInfo under an id, the channel of a server) *)
(* and a request is answered once: everything is in its place, and a       *)
(* request in one place.  The inductive invariant of the refinement.       *)
CalmIInv == IInv /\ Steady
=============================================================================
