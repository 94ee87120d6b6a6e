# A TLA+ development of the Power API prototype

The repository implements Sandia's Power API: a library (`src/pwr`) through
which a client reads and writes power attributes of the objects of a platform,
plug-ins for the devices (`src/plugins`), and a daemon
(`tools/pwrdaemon`) in which routers connect clients to servers that own the
devices. This directory holds TLA+ models of that system, the TLC runs that
check them, and proofs that TLAPS checks.

## 1. The system

| part | state it keeps | operations | talks to |
|---|---|---|---|
| **router** `pwrdaemon/router` | `m_clientMap`, `m_serverMap` (what a channel is for), each client's `m_commMap`, `m_localMap` (channel of a server), `m_pendingEvents`, and on the heap one `CommReqInfo` per request under way | one handler per event type; accept and close of channels; `sendEvent`, `doPending` | clients, servers and other routers, by events on TCP channels |
| **links between routers** `treeCore`, `torusCore` | one sending and one listening channel per link, with the range of router ids behind it | `getChannel`; forwarding of `RouterEvent`s | other routers |
| **server** `pwrdaemon/server` | `m_commMap` (communicator id to object), `m_finiMap` (requests under way) | handlers for CommCreate, CommDestroy and three kinds of request; `fini` | its router; the library, whose callbacks finish requests |
| **communicators** `distComm`, `distGrpComm` | the id, the members, the channel once used | `getValues`, `setValues`, `startLog`, `stopLog`, `getSamples` | the router |
| **requests** `distRequest`, `Status` | the set of CommReqs under way, where values go, the callback | `wait`, `getValue`, `setValue`, `setRetval`, `getSamples`; `DistCntxt::makeProgress` | the channel of the context, shared by all requests |
| **objects** `object`, `distObject` | per attribute its local devices or its communicator | blocking and non-blocking get, set, log, samples | devices, communicators |
| **groups** `group`, `distGroup` | local and remote members in order, one communicator | add, get, set | objects, communicators |
| **context** `cntxt`, `distCntxt` | objects, groups, devices, communicators by set of objects | init, lookup, `initAttr`, `traverse`, `makeProgress` | configuration, channels |
| **statistics** `deviceStat` | logging or not, start and stop times | start, stop, clear, get | objects and groups |
| **event channel** `tcpEventChannel` | a descriptor; the select's map of channels | accept, getEvent, sendEvent, wait | the kernel |
| **serialisation** `serialize.h`, `events.h` | a byte stack | `<<` and `>>` | – |
| **configuration** `xmlConfig`, `pyConfig` | the parsed document | queries | – |
| **daemon** `pwrdaemon.cc`, `powerrt.cc` | one mutex, the threads; the MPI runtime's children | start threads one by one; fork and wait for SIGUSR1 | – |
| **logger** `pwrdaemon/logger` | one piece of work, its attributes, the last reading | parse, make the work, a round each second | the library |
| **plug-ins** `src/plugins` | per device and per open string; two keep statics | init, open, read, write, readv, writev, log, close, final | files, registers, a serial line, an agent, vendor libraries |

How they interact. A client process writes a CommCreate before its first
request on a communicator. The router keeps the member list and sends each
member's server a CommCreate of one object. A request makes the router allocate
a `CommReqInfo` and send each member of each group a copy whose event id *is the
address of the CommReqInfo*; a response is routed by casting the id back. When a
group is complete its values are summed, when all groups are, one answer goes to
the channel the request came from. Events for a server that has not connected
wait in `m_pendingEvents`.

What is hard. The router is single-threaded, but everything around it is
concurrent: several requests of several clients are under way at once, servers
answer in any order, connect after the first request for them, stop and come
back; clients leave with requests under way; heap addresses serve as message
ids and as the identity of channels, and are reused. In the library one channel
is shared by all requests of a context, and completing one request handles the
answers of others. A server's callback may run inside the call that started the
operation. Routers find their way by ranges that are written into the arguments
of each. MPI ranks, daemons and their threads wait for each other by signals and
one mutex. A plug-in shares its statics, or a line, between readers. `PROJECT.json`
lists the hazards one by one, each at its line with the properties that cover
it, or the reason why none does.

What makes the parts correct:

* router: a response finds its request; an answer has every member's value once;
  a request is answered at most once, and at least once if its servers live; a
  request finds its communicator on the server; no sequence of legal calls fails
  an assert;
* links: an event reaches the router it is for, in order and unchanged;
* server: the object asked is the object read, errors come back, `fini` finds
  its request;
* requests: a callback runs once, after the last answer; every error reaches the
  caller; `wait` returns;
* groups: each member's values go to the member's place, and a set reaches all;
* statistics: what a start has turned on, a stop or the end turns off;
* context: each device of the document is read once, by whoever owns it;
* plug-ins: a value is the one of its attribute and sensor, a status tells
  whether there is one, and files are closed;
* logger: what it prints is what was read;
* daemon: nothing is signalled ready before it is, and nothing that a client
  still needs is killed.

## 2. What is modelled

| module | what it is |
|---|---|
| `Aggregation` | abstract specification: what a router promises its clients |
| `Aggregation_proofs` | its inductive invariant and six theorems |
| `MCAggregation` | its instance for TLC |
| `Router` | one router, handler by handler, with clients and servers; implements `Aggregation` |
| `Router_proofs` | its inductive invariant and four theorems |
| `RouterPromise_proofs` | that it implements `Aggregation` while nobody leaves or stops; four theorems |
| `MCRouter` | its instance, for six configurations |
| `DistRequest` | a client process of the library: operations, their requests, and the channel they share |
| `DistRequest_proofs` | its inductive invariant and five theorems |
| `MCDistRequest` | its instance for TLC |
| `Server` | a server between its router's channel and the library's |
| `Server_proofs` | its inductive invariant and four theorems |
| `RouterTree` | routers connected as a tree: arguments, forwarding, waiting, ends |
| `RouterTree_proofs` | its inductive invariant and four theorems |
| `Launch` | MPI ranks, the daemons they fork, their threads and signals |
| `Launch_proofs` | its inductive invariant and five theorems |
| `MCDaemons` | the three as parts of one instance: a behaviour picks its part |
| `PlugInOps` | what one call of each of eight plug-ins does, as the set of its outcomes |
| `PlugIns` | the devices of a context, which call them |
| `WuDev`, `PiapiDev` | the two plug-ins that wait for somebody: a meter on a line, an agent with a callback |
| `Groups` | groups and statistics behind the C API |
| `Context` | a configuration and the objects a context makes of it |
| `Logger` | the daemon's logger |
| `Library_proofs` | of `PlugIns`, `WuDev`, `PiapiDev`, `Groups`, `Logger` and `Context`: an inductive invariant each, and nineteen theorems |
| `MCLibrary` | the six parts of one process as parts of one instance |

### Aggregation

`Aggregation` keeps the fields of `CommReqInfo` (`router.h:205`): `grpInfo`,
`respQ`, `pending`, and the partial sums of `resp->value`; a sum is the sequence
of its summands, so that a missing or doubled one shows. `info` is the heap:
`info[i]` is the object at address `i` or `Free`, and addresses are reused. The
wires are sets of messages, so every order of delivery is included.

| action | code |
|---|---|
| `Ask`, `Read` | `DistComm::getValues` and its kin; the answer read by `DistRequest` |
| `Fan` | `RtrCommReqEvent::process` |
| `Serve`, `Lose` | a server's answer; a server that ends |
| `Collect`, `Complete`, `Reply` | the three outcomes of `RtrCommRespEvent::process`: the group is not complete; it is, and others are not; all are |

Numbers of groups start at 1 where the code's start at 0. The model's `Ask`
takes a `CommReq` address only when no unanswered request uses it, as `new`
does in the library.

### Router

A channel is named by the heap address of its `EventChannel`; an address freed
by `EventData::process` may be given to the next accepted channel. `kind` is the
domain of `m_clientMap` and `m_serverMap`, `comms` the keys of each client's
`m_commMap`, `localMap` is `m_localMap`, `pending` is `m_pendingEvents`, `info`
the heap of `CommReqInfo`s. `inq` and `outq` are the two directions of each
connection, `conn` the state of the peer's end. `up` becomes FALSE when an
assert of the router fails, when it writes to a closed peer in a way that kills
it, or when it follows a freed pointer (where the code's behaviour is undefined,
the model lets it end there).

| action | code |
|---|---|
| `RtrCommCreate`, `RtrCommReq`, `RtrCommResp`, `RtrOneResp`, `RtrServerConnect` | the `process` of the event types; `RtrCommReq` stands for the three kinds of request, `RtrOneResp` for the responses to log and sample requests |
| `RtrClientClosed`, `RtrServerClosed`, `RtrReset` | `EventData::process` on a closed channel, with `~Client`, `~Server` and `delServer`; a connection reset |
| `AcceptClient`, `AcceptServer` | `AcceptData::process`; the Server's constructor has sent its ServerConnect |
| `CliAsk`, `CliRead`, `CliLeave` | a client of `src/pwr`: any number of requests under way, answers read in order; it leaves when it likes, or because it is sent something that is no answer (`src/pwr/allocEvent.cc` asserts) |
| `SrvCommCreate`, `SrvCommDestroy`, `SrvCommReq`, `SrvReply` | a server: handlers, and requests finished in any order |
| `SrvDie`, `SrvCrash` | a server killed; a server stopped by an event it cannot take |

`Send` models `Router::sendEvent` for a list of events: an event for a server
without a channel is queued, others are written; `Fate` says what that write may
do to the router. `Promise` is `Aggregation` with its variables computed from
`Router`'s: what is in `inq`, `outq`, `pending` and the servers' `work`.

Left out: other routers (`m_routerCore` has no links, so its `getChannel` is
NULL; they are `RouterTree`'s), serialisation, wording of log output, time
stamps, and the two operations that end the router by its own assert (averages
and integer sums, `commRespEvent.h:59`): `Summable` is checked for sums. Members of one
communicator are on different servers, as in the configurations that
`examples/config/daemon.py` writes (one object of the route table per server).

### DistRequest

The other end of `Router`'s wire: one process, one thread, one event channel,
any number of operations on objects and groups under way. `req` is the
`DistRequest`s (on the heap from `PWR_ReqCreate`, on the stack in a blocking
call), with `out` for `m_commReqs`, `val` for `value[0]` and `err` for
`m_status` not being empty; `creq` is the heap of `DistCommReq`s, whose addresses
are the event ids; `pc` is the request whose `wait` the thread is in. `call`,
`result`, `called`, `buffer` and `outcome` remember per operation what was
called, what the application was told, how often its callback ran, whose values
are in its buffer and what the other end answered.

| action | code |
|---|---|
| `Issue`, `Block` (with `Refuse`, `Launch`) | the non-blocking and the blocking calls of `DistObject` and `DistGrp`; `Refuse` is `Object::attrStartLog` and its kin returning on a device's error |
| `ReqCreate`, `ReqWait`, `ReqDestroy` | `PWR_ReqCreate(Callback)`, `PWR_ReqWait`, `PWR_ReqDestroy` |
| `WaitRead`, `WaitDone`, `WaitBroken`, `WaitReset` | `DistRequest::wait`: a turn of its loop; its end, and what the blocking call around it returns; the channel at its end; a connection reset |
| `MakeProgress`, `ProgressFails` | `DistCntxt::makeProgress`; the NULL event it uses when the channel is at its end |
| `Process` (part of `WaitRead` and `MakeProgress`) | `getValue`, `setValue`, `setRetval`, `getSamples` |
| `Reply`, `Close` | the router answers, in any order, with or without errors; the connection ends |

Abstracted: a buffer has one place, a Status is empty or not, and the devices of
an object work or fail as one. Attributes of an object are local or remote and
never both, because the constructor of `DistObject` asserts it
(`distObject.cc:39`); groups mix local and remote members (`CallsAssumption`).

The application is any program that keeps to three rules, each for a reason that
is in the code: one operation per request at a time (`value[0]`, the callback and
`m_status` are one each); no `PWR_ReqDestroy` while an answer can still come (the
answer's CommReq points to the request); and no wait for a request that has
called back (`wait` calls back again, `distRequest.cc:50`). It may reuse a
request, or its address, at once after that.

### Server

`inbox` is the channel from the router, `commMap` and `finiMap` are
`Server::m_commMap` and `m_finiMap`; `up` and `upAns` are what the library has
under way at other servers and the answers on its own channel. `made`, `gone`
and `asked` are what the router knows. A *fate* is what becomes of a request's
attributes: read, refused by a device, not the object's, or mixed. `Strange`
are the objects that a communicator may be made of and the server's own
configuration does not have.

| action | code |
|---|---|
| `SrvCommCreate`, `SrvCommDestroy` | the `process` of those events, with the asserts of the first for an object that is not there |
| `SrvCommReq`, `SrvCommLogReq`, `SrvCommGetSamples` (with `SrvRequest`, `Fini`) | the three kinds of request: the library calls back inside the call (`Inside`), or the request goes above; `Fini` is `Server::fini` with its assert |
| `SrvProgress` | `CntxtData::process`: the library takes an answer and calls back |
| `SrvCutOff` | `CntxtData::process` when the channel to the other servers is closed: `makeProgress` uses a NULL event |
| `UpAnswers`, `SrvEnds`, `SrvRestarts` | another server; the router has gone; another process with the same name |
| `RtrCreates`, `RtrDestroys`, `RtrAsks` | what the router may send, in the order in which `Router` sends it |

### RouterTree

`net` are the `--rtr.routerInfo` arguments of every router; `links` is
`TreeCore::m_rtrLinks` as `initTreeInfo` makes it of them, with its `resize`, the
cut of the last nid, and the cut of the other host's port for link 0 (`Cut`: to
one digit more than that host's name has letters, so that the link leads
nowhere; an argument therefore has the lengths of both). `wire` are the connections between routers, `open`
which of them are connected (the first event does it), `known` the keys of
`m_localMap`, `pend` is `m_pendingEvents` with, per event, whether it outlives
the call that queued it.

| action | code |
|---|---|
| `Ask` | a client's request for a server anywhere; the router makes the RouterEvent |
| `Pass` (with `Route`, `Channel`) | `RtrRouterEvent::process`, `Router::sendEvent`, `TreeCore::getChannel` |
| `SrvReplies` | the answer of a server, passed on by its router |
| `SrvConnects` | `addServer` and `doPending` |
| `RtrDies`, `EndOfFile` | a router is killed; its neighbours read the end of file |

What a router does with an event that is for itself is `Router`'s; here the id
of a request that comes back is noted in `back`. An event notes the routers it
has gone through in `path`, up to `MaxHops`.

### Launch

Ranks are `1..Size`, on the hosts of `job`. `mpi` is how far a rank is in
`MPI_Init` (with `runtimeInit`) and `MPI_Finalize`; a *launcher* is the first
rank of its host and forks a daemon and, at `ClientNid`, a client. `handler` is
per signal the default, the code's handler, or the code's handler for one
signal only: `sa_flags` is never set (`powerrt.cc:257`), so the model picks.
`lock` is the mutex of `pwrdaemon.cc`, `thr` the daemon's threads in the order
of `Plan`.

| action | code |
|---|---|
| `Enter`, `Follows`, `Prepares`, `LaunchFails` | `MPI_Init` up to `runtimeInit`; the route file is written |
| `Fork`, `ForkFails`, `Pause`, `Launched`, and `Deliver` inside others | fork, which may return -1, and `pause()`; a signal wakes, kills, or comes too early |
| `Finalize`, `Finishes` | the client is killed, the barrier, the daemon is killed |
| `CreateThread`, `RtrListens`, `Built`, `BuildFails`, `Ready` | `main` and the threads it starts; the constructors' waits for routers and the route file; SIGUSR1 |
| `ThreadEnds`, `MainReturns`, `DaemonDies`, `ClientReady`, `ClientDies` | ends; the client's own SIGUSR1 |

`Written` is the name that `createNidList` makes of a host, with its search for
names of another width that stops at the launcher itself.

### PlugInOps, PlugIns

`PlugInOps` has for each plug-in an operator for init, open, and read and write
of one attribute. Each gives the set of outcomes of the call: status, what is in
the caller's buffer (a reading is named by the tokens that chose its sensor and
its attribute), the descriptor's data, file descriptors left open, and whether
the call ends at all (`cpudev`, `pmcdev` and `xtpmdev` compare `read()` with
EOF). Strings are sequences of tokens, because `rapldev` takes its layer from
`strtok( NULL )`: `tok` is what is left of whatever string the process has cut
up last.

| action of `PlugIns` | code |
|---|---|
| `InitDevice`, `NewDevice` | `DistCntxt::initDevice` and `traverse`: a plug-in's init once, a `Device` per open string |
| `Begin`, `Step` | `Device::getValue(s)`, `setValue(s)` and the plug-in's `readv`, `writev`: one step per attribute |
| `Log` | `startLog`, `stopLog`, `getSamples`: NULL in all plug-ins but the dummy |
| `CloseAll` | `~DistCntxt`: close of every descriptor, final of every device |

### WuDev, PiapiDev

`WuDev`: `wuMeter` is what the meter has yet to answer, `wuRx` what is on the
line, `wuRead` the read under way with its buffer. A reply is two parts, of
which the second has the terminator. `WuCommand` and `WuTakes` are
`wudev_write` and `wudev_read`; the line is opened with `O_NDELAY`, so that
`WuGivesUp` is possible whenever nothing has come; `WuGarbage` is the `continue`
of `wudev_read` that tests a character that was never read.

`PiapiDev`: the two loops around `piapidev_reading`, step by step, for any
number of threads: `PiRead`, `PiReadv`, `PiWait`, `PiSet`, `PiAsk`,
`PiAskFails`, `PiTake`, and of the agent's thread `PiCallback`, which brings the
last sample of a counter, and `PiCallbackPart`, which brings one that is not the
last or does not say how many there are, and leaves the flag set. `piRaced` is set
when two threads were between the loops at a time: then a sample may be another
thread's, or torn.

### Groups

`heap` are the groups by address (a `DistGrp` with its three lists and the
members of its communicator, or the plain group of an object's children),
`kids` is `m_children` of the entry point, `stat` the statistics with the
objects they have turned a log on for (`has`), `left` those of destroyed
statistics. `told` is what the last call has told the application. `odd` and
`blame` are history: what a group's lists are no longer good for (`mixed` local
and remote members, a local member `twice`, one `removed`, a remote one added
`late`), and what the application has done that it should not have.
The actions are the calls of the C API: `GrpCreate`, `GetGrpByType`,
`ObjGetChildren`, `GrpDestroy`, `GrpAddObj`, `GrpRemoveObj`,
`GrpAttrGetValues`, `GrpAttrSetValues`, `ObjCreateStat`, `GrpCreateStat`,
`StatStart`, `StatStop` (and clear), `StatDestroy`, `StatGetValue`,
`StatGetValues`. `Buffer` is where a get puts values: local members one after
the other, remote ones over them by their index among the remote members.

A local object has either no log (`NoLog`), or one that starts and stops without
fail: of the plug-ins only the dummy has logs, and its start and stop return 0
whatever happens (`dummy_dev.c:129-140`); without one `Device` fails both. What
`has` says of a remote object is that its server was asked to turn the log on
and not yet asked to turn it off; what becomes of such a request is
`DistRequest`'s.

### Context

`ctxDoc` is the document, `ctxRoot` the entry point, `ctxObjs` is `m_objMap`:
per object and attribute its local devices and its remote objects. `Traverse`
is `DistCntxt::traverse`, with `XmlConfig`'s queries and asserts
(`LocationOk`, `ObjDevsOk`, `AttrChildrenOk`) around it; the actions are
`CntxtInit`, `GetObjByName`, `GetParent`, `GetChildren` and `GetGrp`. The server
of an object is a context whose entry point is that object, so that what holds of
every entry point holds of the context and of each server it asks. `Listed` and
`Devices` are the reference: the objects that the document lists for an attribute
at or below one, and their devices. `Splits` compares `traverse` with it: a
context reads each device at most once, and only its own (`Owner`); it leaves the
others to objects further down that have nothing in common; and together these
are all that the document lists. `TraverseOne` is one call of `traverse`, when it
is known what the calls it makes return.

### Logger

`LgrMake` parses the arguments as `Logger`'s constructor and the work classes
do, `LgrFail`, `EnergyRound`, `PowerRound`, `RateEnds`, `SetMultEnds` and
`StatRound` are the `work` of each kind, `Consume` is the machine it runs on.

## 3. What is checked

| run | bounds | properties |
|---|---|---|
| `aggregation` | 2 clients, 2 requests each, 2 addresses, 2 objects, a communicator of one group of two and one of two groups | `ResponsesExpected`, `AnswersComplete`, `AnsweredOnce`, `MissingInFlight` |
| `calls` | 2 clients, 2 servers, 2 requests, 3 communicators, all operations; servers connect at any time | `NoAbort`, `CalmIInv`, `KeepsPromise` |
| `live` | 1 client, 2 requests on a communicator of two groups, 1 address | `Answered` |
| `troubles` | 3 channels, so that a channel is recycled. Either 2 clients, whose requests have one and the same id, leave at any time (`MayBeLeft`), or server 0 stops and starts again once under one client with 2 requests (`MayStop`); the constraint `OneTrouble` keeps the two apart | `CastIsSafe`, `RightObject`, `AnswersWhole` |
| `requests` | 2 operations out of 10 forms of calls, 2 requests, 2 CommReqs, a connection that closes or is reset at any time | `AnswersExpected`, `SuccessIsWhole`, `CallbackOnce`, `WaitReturns` |
| `library` | see below | `OwnSensor`, `StatusTells`, `FilesHeld`, `WuReplyIsOwn`, `PiOwnSample`, `PiReturns`, `Placed`, `SetReaches`, `LogsEnd`, `Blameless`, `CountedOnce`, `LogTells` |
| `daemons` | see below | `FiniOnce`, `OwnReply`, `SrvBlameless`, `SrvAnswers`, `NoDetour`, `InOrder`, `TreeBlameless`, `TreeAnswers`, `OneBuilds`, `StartedIsReady`, `ClientsFirst`, `NamesRight`, `GoesOn` |
| `unroutable` | an object without a route | `NoAbort` is violated |
| `delserver` | server 1 stops | `Reachable` is violated |
| `recycled` | clients leave | `KnownEvents` is violated |
| `errors` | the bounds of `daemons` | `ErrorsTold` is violated |
| `untold` | the bounds of `library`, with `pgdev` only | `AllTell` is violated |

Why the bounds are enough. The router treats requests alike and its handlers
look at one request at a time, so that two requests show every way in which two
can share an address, a server or a channel; two members show a group that is
half complete, and two groups an answer that is half complete; two clients show
an answer for the wrong one. Three channels with two servers and two clients
make the fourth connection reuse an address. The bounds `MaxClients`, `MaxAsks`
and `MaxStarts` count connects, requests and starts of servers.
`CHECK_DEADLOCK FALSE` everywhere: when the requests are used up and answered,
the system rests.

In `requests`, two operations suffice for a wait or makeProgress that reads the
answer of another request, and for an operation that gets the address of an
earlier one's request; a third would meet the same two cases. The ten forms are
every kind of call with each way it can end: blocking or not, on a local or a
remote object or a group of both, with devices that work or fail.
`SuccessIsWhole` names its exceptions: errors of remote samples are dropped
(`distRequest.cc:61`, a FIX ME), and blocking log and sample calls and groups
ignore that the connection was lost.

In `library`:

* devices: each plug-in with one or two open strings, and `rapldev` twice, as
  `examples/config` has it and with its layers behind the core next to a plug-in
  that cuts up another string in between; calls of up to 2 attributes
  (`MaxElems`) out of three, of which each plug-in knows some; 2 files
  (`MaxFiles`), so that a leak ends in a process that cannot open any.
* meter: 3 commands (`MaxCmds`): one whose reply is left, the one that takes it,
  and one after. An attribute with a field in the reply and one without.
* agent: two threads, 4 requests (`MaxRounds`): a `readv` of two attributes in one
  thread and a read in the other, with any number of samples ahead of the last.
* groups: a local object, a local one that cannot log, two remote ones (so that
  a group that has been asked can get another of its kind); two
  addresses of groups, one made by the application (`MaxMade`) next to the
  children's, so that an address is reused; groups of two (`MaxSize`); one
  statistic. The application errs at most once (`Careless`, `MayErr`).
* context: four objects in three levels, with a location or without in every
  combination, a cabinet that sums its leaves, reads a device or does both, with
  different sources for two attributes, and documents that miss objects or
  children.
* logger: every kind of work, of an object or a type that is there or not, with
  up to three attributes; a counter up to 3 (`MaxEnergy`), which has a zero,
  equal readings and jumps; 4 rounds (`MaxRnds`).

In `daemons`:

* server: two communicators, so that one is destroyed or made while a request on
  the other is above (they are alike until one is asked, and the first request
  goes to the first); one object that is local, one that is not, and one that
  the server does not know; two requests
  of every operation and fate; a channel of one event (`MaxQueue`), which loses
  no order as the router decides freely when to fill it; one restart.
* routers: five trees: the one of `examples/config/daemon.py`, one of three
  levels with a range of two digits, one whose range goes from one digit to
  three, one with its links in descending order, and one with a host whose name
  is shorter than a port; two requests; up to 5 hops
  (`MaxHops`, one more than any way without a detour); one router may die.
* launch: two ranks on one host, or on two with plain or padded names; one
  daemon with router, server and logger, one with two servers that connect to
  the other's router; a client on one; one death of a daemon or client, or one
  launch or fork that fails (`MaxDies`).

A property that cannot hold for every program or every configuration says so in
its premise, never by a bound that hides the case:

| property | what it excepts |
|---|---|
| `OwnSensor` | three plug-ins that read another sensor than the one they were opened for |
| `StatusTells` | of its second half (status 0 exactly if there is a reading), `Mute`: every attribute of `pgdev` and `apmdev`, which return 0 with the buffer untouched or with junk when their library or `setpci` fails; `pstate`, `cstate` and `temp` of `cpudev`, which are always zero; and of the dummy what `open` does not fill in. And attributes that a plug-in has no case for (outside `Known`). Its first half (any other status leaves the buffer alone) has no exception |
| `FilesHeld` | `cpudev` and `apmdev`, which leave files open |
| `Placed`, `SetReaches` | groups whose places overlap or are lost: local and remote members, a local member twice, a member removed; a remote one added too late |
| `Blameless` | what the application has destroyed or asked wrongly, and a remote member that came after the first call |
| `PiOwnSample`, `PiReturns` | two threads between the loops; a request that has failed |
| `WuReplyIsOwn` | what comes after a read that gave up |
| `CountedOnce` | documents that list a source of an attribute twice (`ListsOnce`: what is listed twice is read twice); and that what a context asks for has a server which places it as the context does, it says of documents in which everything below a located object is located (`EachPlaced`) |
| `SrvBlameless` | a server that was restarted, requests that mix attributes, objects that the server does not know |
| `NoDetour`, `TreeBlameless` | arguments that do not mean what they say (`SaysSo`: links out of order, a nid or a port that loses digits) |
| `NamesRight` | names that are neither padded nor in order |
| `GoesOn` | a signal before its pause, a handler for one signal only, a fork that failed |

What is excepted is not thereby right: it does happen in the models, and so in the
code. Run `untold` takes the exceptions of `StatusTells` away, because the library
says in so many words that errors are in the status. The others are hazards that
these properties do not cover, each with a note in `PROJECT.json`:

* `makeProgress` calls back too early with two operations on one request
  (`distCntxt.cc:390`; `DistRequest` has one at a time);
* in a group of local and remote members places overlap (`distGroup.cc:123`); a
  remote member that is added after the first call fails the assert of
  `DistRequest::getValue`, for calls that are all legal (`distGroup.cc:112`);
* the group of an object's children can be destroyed by whoever gets it, as the
  test of section 4.2 does, and is returned again (`distCntxt.cc:191`);
* a server asks itself for what is below its own object without a location
  (`xmlConfig.cc:411`; `examples/config/dummySystemCab0-daemon.xml` is such a
  document);
* two readers share one sample, and the flag stays set after a failure
  (`pwr_piapidev.c:185`); the next read takes what a read has left on the line
  (`pwr_wudev.c:151`);
* a fork that fails passes for a child (`powerrt.cc:238`), and a rank waits for a
  signal that nobody sends.

Fairness (`requests`): a thread in `wait` runs on, and the router answers or
closes the connection. Nothing is assumed of the application: `WaitReturns` needs
no other call.

Fairness (`live`): the router's loop takes an event whenever one is ready, a
started server runs and connects (its constructor retries the connection), a
client that has an answer reads it. Which ready channel the router takes is the
lowest descriptor in the code; with a bounded number of requests every choice
empties the queues, and only the weak fairness of the loop as a whole is
assumed. Servers do not stop in this run: the code never answers a request whose
server is gone (listed as a hazard).

Fairness (`library`, `PiFair`): the agent comes to the last sample of what it has
been asked for, and a thread that spins in `sched_yield()` is scheduled. (An
agent whose samples say that there are none in all, `total` being 0, leaves the
flag set for ever; that it does not do so is assumed of the agent, which is not
part of the repository.) A request that failed is the
exception `PiReturns` names: then the flag stays set.

Fairness (`daemons`): `SrvFair`, the server works through its two channels and
the other servers answer; `TreeFair`, routers take what has come and servers
connect and answer, one of them at a time; `LaunchFair`, processes and threads
are scheduled, and constructors count their attempts to connect. Each is of its
part's steps as a whole where those can only end. Nothing is assumed of
failures: `SrvAnswers` excuses a server that ended or was restarted,
`TreeAnswers` a router that ended, `GoesOn` a missed signal.

Five runs show the code disagree with what it says of itself; `findings` in
`PROJECT.json` quotes the lines. In short:

* `unroutable`: an event without a route is not dropped but ends the router;
* `delserver`: when server 1 leaves, server 0 is forgotten;
* `recycled`: the answer to a client that has left can be sent to a server whose
  channel got the client's address;
* `errors`: the error of a device is lost between a server's library and its answer;
* `untold`: "errors will be flagged in the status structure", but `pgdev` returns
  0 when its library fails, with nothing in the buffer.

`AnswersWhole` is checked with server 0 stopping, and says nothing when a client
has left: its answer can go to whoever gets its channel (`recycled`). If server 1 stops, the router keeps its
freed channel (the `delserver` finding) and may write a request for it to
whatever got the address: an answer can then hold two readings of one object.

`RightObject` is not checked with servers that restart: a restarted server knows
no communicator, and the code has nothing that tells it.

## 4. What is proved

`Aggregation_proofs` proves, for every set of clients, request ids, objects,
addresses and communicators (possibly infinite; each group finite and not empty,
`CommAssumption`):

| theorem | says |
|---|---|
| `Inductive` | `IInv` is an invariant |
| `TypeCorrect` | `TypeOK` |
| `CastIsSafe` | an id that comes back is a live `CommReqInfo` that expects it |
| `AnswersAreComplete` | every answer has each member of each group exactly once |
| `AnswersAreUnique` | a request is answered at most once |
| `NothingForgotten` | what is waited for is on its way or was lost with a server |

The argument. None of these is inductive alone. That an answer is complete
follows from the count `grpInfo` only if responses are never doubled
(`ResponsesExpected` says what is in flight has not been counted, `Disjoint`
that a copy is in one place) and only come from members: then a queue without
repetitions of as many members as the group has is the whole group
(`FullByLength`, from finite cardinalities). That `pending = 1` and a complete
group mean that *all* groups are complete needs `pending` to be the number of
groups still open (`InfoOK`, lemmas `OneGroupLess` and `CompleteOK`). That a
`CommReqInfo` is freed only when nothing refers to it needs `MissingInFlight`'s
converse: the last response leaves no member out. And that a new `CommReqInfo`
does not answer a request that another one answers needs `AskedOnce`. `IInv` is
the conjunction.

The proof has one lemma per action (`AskStep` to `ReplyStep`); the three
outcomes of a response share `ReceiveStep`. `Router` is tied to these proofs by
`KeepsPromise`: each of its steps is a step of `Aggregation` or none, which
`RouterPromise_proofs` proves while nobody leaves or stops; for clients that
leave and servers that die the properties of `Aggregation` are proved or checked
on `Router` directly (`CastIsSafe`, `AnswersWhole`).

`Router_proofs` proves, for every route table, set of communicators, channels,
servers and addresses, any bounds, with clients that leave at any time and any
set of servers that die:

| theorem | says |
|---|---|
| `TypesHold` | `RtrTypeOK` is an invariant |
| `RouterInductive` | `IInv` is an invariant |
| `RightObjectHolds` | until a server stops, a request finds the object it was sent to under its communicator's id (`RightObject`) |
| `CastIsSafeHolds` | until a server stops, an id that comes back is a live `CommReqInfo` that expects this response (`CastIsSafe`) |

It assumes `RouteAssumption` (communicators are lists of groups, none empty, no
object twice in a group, members on servers of their own) and that `Free` is no
`CommReqInfo`, neither of `Router` nor of `Promise` (`FreeAssumption`,
`PromiseAssumption`).

Both properties, and half of `IInv`, end when a server stops (`NoneStopped`), for
a reason that TLC shows: a client may leave with a request under way, its
channel's address may go to server 0, the answer is then written to server 0,
which crashes; a CommCreate in its queue is lost; `delServer` empties
`m_localMap[0]`; and the next request is queued for server 0 without a CommCreate
ahead of it. No invariant about the content of queues survives this, and the code
promises nothing after it. The types, `Apart` and `Plugged` hold throughout.

The argument. `Queue(s)` is what server `s` has yet to take, wherever it waits:
in `m_pendingEvents` until its channel is known, in the channel after
(`Linked`). `InPlace` says of it, for every request, that the object the server
will have under its communicator's id when the request's turn comes is the
request's (`Stands`: a CommCreate ahead of it and no other event about this
communicator between them), and for every communicator that a client has open,
that the same will be so at the end of the queue, which is what the next request
needs. Sending, in any order and to any number of servers, appends; what a
handler appends to one server's queue is computed by `Only` from a list of
events with different destinations. A CommDestroy is harmless because the
client that causes it leaves, and no other client has its communicator
(`Apart`).

`Tallied` is the account of the contributions a `CommReqInfo` waits for. Each is
a token that is in one place of one server (queue, work, way back; `Once`,
`Even`), and each is expected (`Expected`), so that an address is not reused
while a token with it exists: when the last response is taken, every member of
every group has been counted (`FullByLength`, `LastDue`), and a token that was
left would be expected by a full group. Here the members of a communicator being
on servers of their own is used. `InfoOK` is `Aggregation`'s, on the same fields.

What a list of events becomes in the queues is given by `FlattenSeq`, which is
recursive. It is reasoned about through its defining equation, by a least
counterexample on lengths (lemmas `Flat…` and `Picked…`): which elements the
flattened list has, that their order is kept, and that what `Only` picks of a
list with one event per server is one event or none.

`RouterPromise_proofs` proves, under `Calm`, for every route table, set of
communicators, channels, servers and addresses, and any bounds:

| theorem | says |
|---|---|
| `CalmInductive` | `CalmIInv`, which is `IInv` and `Steady`, is an invariant |
| `NoAbortHolds` | no assert of the router fails, and it writes to no closed or NULL channel (`NoAbort`) |
| `AnswersWholeHolds` | an answer belongs to a request that its client waits for and has each member's value once (`AnswersWhole`, here also without its premise: nobody leaves under `Calm`) |
| `KeepsPromiseHolds` | `Router` implements `Aggregation` (`KeepsPromise`) |

`Calm` says that clients do not leave and servers do not stop, that no
communicator is asked for an average or for an operation its kind of group does
not have, and that every member has a route. Each part is needed: a client that
leaves lets an answer go to whoever gets its channel (run `recycled`), a server
that stops takes its copies with it, an operation that is not supported and an
object without a route end the router (run `unroutable`). The constants of
`calls` and `live` satisfy it; servers may connect at any time, before or after
the requests that wait for them. What holds when servers do stop is checked
by run `troubles` (`AnswersWhole`), and proved only as far as `Router_proofs` goes.

The argument. A handler of the router computes with what it finds in its maps:
`RtrCommCreate` aborts at a communicator that it has already, `RtrCommReq` at one
that it has not been told of, a response casts its id to a `CommReqInfo`, and each
writes to a channel that must be there. `Steady` makes it find them, with the
tokens of `Tallied` for the cast. `Introduced`: in what a
client has sent, the CommCreate of a communicator is ahead of its first request,
once, unless the router has it already. `HeldOnce`: a request is in one place,
on its way (`AsksOnce`), in one `CommReqInfo` (`KeptOnce`), or in one answer
(`ToldOnce`), and the answer is `Whole`; so a client that reads an answer waits
for it. `Settled`: every connection is open. With `IInv` the set of these is
inductive (`SteadyKept`, one lemma per action), and it also says that the two
ways a server stops by itself cannot be taken (`NoneEnds`).

For the refinement the mapping has to be followed. `Aggregation` sees sets where
`Router` has queues in two stages: `Outward` and `Inward` are the tokens of
`Tallied` without their operation (`OutwardIs`, `InwardIs`, `TokensApart`: no two
tokens become one), so that a queue that moves from `m_pendingEvents` to a
channel changes nothing and a server that takes a request from its channel only
moves a token within `Outward`; the lemmas `…Tokens` say what each action does to
them. `Requested` is what `ReqsOf` finds in the channels, `Replies` what
`RepliesBoth` finds, and `HeapWritten` follows a `CommReqInfo`. A communicator
that is made, a connect and a server's step before its answer stutter
(`CreateStutters`, `ConnectStutters`, `AcceptStutters`, `ServerStutters`); a
request, the router's fan-out, a server's answer, the three outcomes of a
response and a read are `Ask`, `Fan`, `Serve`, `Collect`, `Complete` or `Reply`,
and `Read` (`AskRefines` to `ReadRefines`, together `StepRefines`). A request of
one object, which the router keeps without the vectors of groups and answers at
once (`RtrOneResp`), is to `Aggregation` a group of one.

`DistRequest_proofs` proves, for every set of operations, requests, CommReqs and
forms of calls that satisfies `CallsAssumption`:

| theorem | says |
|---|---|
| `Inductive` | `IInv` is an invariant |
| `TypesHold` | `TypeOK` |
| `AnswersFindTheirRequest` | an answer finds its own CommReq and DistRequest, alive, whoever reads it |
| `SuccessMeansAll` | success means all values and no lost error (`SuccessIsWhole`) |
| `CallsBackOnce` | a callback runs once, after its answer was handled |

The argument. `AnswersExpected` ties each id under way to one CommReq, one
DistRequest and one operation. It is kept because an id is under way once
(`OnceUnderWay`), so that handling an answer takes nothing away that another
answer needs, and because an operation has one DistRequest (`OneOwner`), so that
giving one up at the end of a wait touches no other's answer. `SettledOK` says
how far a DistRequest is when its answers have or have not come: values in the
buffer, errors in the Status, no callback yet. From it the end of `wait`, and the
callback, tell the truth (`SuccessIsWhole`, `CallbackOnce`), although the answer
may have been handled long before by somebody else's `wait`.

The lemmas follow the code: `ProcessFacts` is what handling an answer does, for
`WaitReadStep` and `MakeProgressStep`; `ReleaseFacts` and `EndOfWait` are the end
of a wait, for `WaitDoneStep` and `WaitBrokenStep`; `LaunchFacts` and
`StartOfCall` are the start of an operation, for `IssueStep` and `BlockStep`.

`Server_proofs` proves, for every set of clients, communicators, objects and
requests that satisfies `ServerAssumption`, restarts included:

| theorem | says |
|---|---|
| `SrvInductive` | `SrvIInv` is an invariant |
| `FinishedOnce` | every request is answered at most once, and each one under way has exactly one answer to come (`FiniOnce`): the assert of `Server::fini` holds |
| `RepliesAreTheirs` | an answer is of the object its communicator stands for and goes to whoever asked (`OwnReply`) |
| `NotToBlame` | a server ends only because its router or the channel to the other servers has gone, or because of what it was asked: attributes that mix, an object it does not have (`SrvBlameless`) |

The argument. `FiniOnce` is kept when a request is taken off the channel only if
it is not under way yet and has no answer (`Fresh`); `OwnReply` only if what
`m_commMap` and the entries under way say of a communicator is what the router
made of it (`CommsOwn`, `UnderOwn`), which goes back to what is in the channel
(`InboxOwn`). `FiniFacts` is what an answer does, for a callback inside the call
(`RequestInv`) and for one that comes later (`ProgressInv`).

`RouterTree_proofs` proves, for every set of trees, servers and requests, any
`MaxHops`, with or without a router that dies:

| theorem | says |
|---|---|
| `TreeInductive` | `TreeIInv` is an invariant |
| `SentInOrder` | what one router sends to a server reaches it in the order it was sent (`InOrder`) |
| `NoneTwiceThrough` | no event goes through a router twice (`NoDetour`) |
| `TreeNotToBlame` | a router ends only because of its neighbours or its arguments, and uses freed memory only after another router's event has waited (`TreeBlameless`) |

Two assumptions are about the trees. `TreeAssumption`: every `--rtr.routerInfo`
names a router of the tree. `TreesAgree`: where the arguments say what they mean
(`SaysSo`), the ranges of two neighbours agree (`Agree`): each router is behind a
link of every other one, a link leads to a router behind it, and what is behind a
link is not sought elsewhere from there. `examples/config/daemon.py` gives such
ranges; TLC evaluates both assumptions on the trees of run `daemons`, among them
one whose arguments do *not* say what they mean, of which nothing is assumed.

The argument. `SentInOrder` needs no agreement of ranges, nor that a way ends:
`Channel` depends on the router and the destination alone, so that all events
from one router to one server take one way (`Ways`). On it an older event is
never behind a younger one, in the order wire after wire, then
`m_pendingEvents`, then the server (`OlderAhead`, `OlderCame`, `CameInOrder`);
and what is asked now is younger than all (`AsksCounted`, `Counted`). A way may
be of any length; that two ways to a server are one (`OneWay`) and that none has
a router twice (`NoRound`) is shown of the least hop at which it would not be so.
`Route` is used by three actions with three sets of channels, so that the lemmas
about it (`RouteCases`, `RouteTypes`, `RouteOnCourse`, `RouteTraced`,
`RouteInOrder`) take the channels as parameters, and each action shows of its own
what they ask. `NoneTwiceThrough` is kept because everything an event has gone
through is outside of what is behind the link it takes (`NoneTwice`, `HopAhead`);
`TreeNotToBlame` because each event under way is traced to the request it is of
(`Traced`).

`Launch_proofs` proves, for every job and every set of arguments of its daemons,
whoever dies and whenever a signal comes:

| theorem | says |
|---|---|
| `LaunchInductive` | `LaunchIInv` is an invariant |
| `OneBuildsAtATime` | one constructor of a daemon runs at a time, and none when it has signalled (`OneBuilds`) |
| `StartedWhenReady` | the application runs when the daemon of its node is ready or has died (`StartedIsReady`) |
| `ClientsEndFirst` | no daemon is killed while a client runs anywhere (`ClientsFirst`) |
| `NamesAsTheyAre` | launchers write the names of hosts as they are (`NamesRight`) |

The argument. A rank is woken by whatever signal comes, so that
`StartedWhenReady` needs to know which can come: the daemon's SIGUSR1, or the
SIGCHLD of its end, are the only ones while the rank waits for the first child
(`Waits`), since the client is forked second (`Launching`); and the mutex says
that a daemon that signals has built all its threads (`OneAtATime`).
`ClientsEndFirst` needs that a rank at the barrier is not woken or killed by a
late signal (`Ending`, `EndTogether`). `LaunchAssumption` says that a host's
number is read off its name, and therefore not longer than it; `NamesAsTheyAre`
then rests on `DigitsMonotone`, that a greater number has no fewer digits.

`Library_proofs` is in six parts. It proves of `WuDev`, for every set of attributes and any number of commands,
`WuInductive`, `RepliesAreOwn` (`WuReplyIsOwn`) and `LineIsClean`: as long as no
read has given up, the reply of the read under way is, from its end, in the
meter, on the line and in the buffer, and nothing else is (`WuOnLine`), so that
the terminator that ends the read is the end of its own reply.

It proves of `PiapiDev`, for any number of threads, `PiInductive`, `ReadsAreOwn`
(`PiOwnSample`) and `FlagIsHonest`: as long as no two threads have been between
the loops together, one at most is there (`PiMutex`), and where it is says
whether the flag is set and whose sample is on its way (`PiSettled`). The lemmas
follow the steps, and `PiTake` is safe because a cleared flag with a thread in
its second loop means that its own callback has run.

It proves of `PlugIns`, for every configuration, any number of descriptors and
calls of any length, `PlugInsInductive`, `SensorsAreOwn` (`OwnSensor`),
`StatusesTell` (`StatusTells`) and `FilesAreHeld` (`FilesHeld`), with the
exceptions of these properties: `StatusesTell` says of every plug-in that a
status other than 0 leaves the buffer alone, but that 0 means a reading only of
what is not in `Mute`, and so never of `pgdev` and `apmdev`, for which it is
false (run `untold`). What a call has
to keep is that a descriptor's data are those of its own open string (`Right`):
`OpenIsRight` says so of each open, the lemmas `CpuGood` to `PgGood` of each
plug-in's read and write, whose outcomes are good (`Good`) whatever `strtok` has
left over; `ElementGood` puts them together. That files are held needs
`Cardinality` of the devices that are initialised, which one call changes by one
at most (`HeldIs`). Strings are any sequences of the tokens, `MaxFiles` any
number.

It proves of `Groups`, for any objects, documents, groups and statistics, and
of a careless application too, `GroupsInductive`, `ValuesArePlaced` (`Placed`),
`SetsReach` (`SetReaches`), `StatisticsStop` (`LogsEnd`) and `FaultsAreBlamed`
(`Blameless`). `GrpIInv` has three parts. The lists of a group agree
(`ListsAgree`): all members are the local or the remote ones, place by place,
and the communicator is made of the remote ones, until `odd` says otherwise; an
addition keeps it (`AddToSound`), and therefore so do any number of them, the
makings of a group (`AddEachSound`, by a least counterexample). A statistic has
turned on no more than the objects up to the first failure of what it covers
(`StatOK`), which holds while members are added because those come last
(`UpToFailureFacts`). And what a statistic or the entry point points to is gone
only by the application's fault (`NoneGone`): addresses are used again, but not
those that something points to. The parts are stated of values (`HeapFine`,
`StatsFine`), so that one lemma says what the change of one group does to all of
them (`GroupChanges`) and one what the change of one statistic does
(`StatChanges`); the action lemmas only say which change it is.

It proves of `Logger`, for any arguments and objects and any energies,
`LgrInductive` and `LogIsTrue` (`LogTells`): an energy log adds up the
differences of neighbours, and what is left is the difference of its first and
last reading, for readings never fall (`EnergyRoundInv`); the place of a value
that `Mult` computes from row and column is that of its object and attribute,
because it can be taken apart again (`RowAndColumn`, `PlaceOf`).

It proves of `Context`, for any documents, of any size, any entry point and any
attributes, `CtxInductive` and `DevicesAreCounted` (`CountedOnce`). `CtxIInv`
says that what the context has made of an object is what `traverse` computes for
its entry point; the rest is about `Traverse` itself. It is defined for every
name, because names in a document are no longer than some number (`LongestOf`),
and therefore computes what `TraverseOne` does with its calls for the children
(`TravExists`, `TraverseIs`). What is listed at and below an object is its own
devices and, apart from each other, what is listed at and below its children
(`ListedBelow`, `PartsAre`); so that if the calls for the children return what
they should (`SoundAt`), the call for the object does (`SoundJoin`,
`TraverseStep`), and all do, by the longest name of which they do not
(`TraverseSound`). `OwnerIsLongest` connects it with the places of objects.

Out of the prover's reach, and checked by TLC only: liveness (`Answered`,
`WaitReturns`, `SrvAnswers`, `TreeAnswers`, `GoesOn`, `PiReturns`).
Induction over data is done where it is over numbers, by a least counterexample
(lemmas `Least` of `RouterTree_proofs` and `Router_proofs`, `LeastOf` of
`Library_proofs`). Of `Router`, `AnswersWhole` when servers stop is
model-checked only.

## 5. Not modelled

* `TorusCore`: it reads its arguments, but its `getChannel` is an assert, so that
  there is no routing to model.
* Averages and integer sums in the router: asserts that a configuration reaches.
* The event channel's choice of the lowest ready descriptor, partial reads, and
  writes that block: connections are unbounded queues. Two hazards rest on it
  (a client that never stops asking, and a router and a client that write to
  each other).
* `pyConfig`: it calls a Python file for the queries that `XmlConfig` answers.
* The byte stack of `serialize.h`, and the bytes of ids: two communicators of
  two hosts can have one id (a hazard without a property: the instances have
  ids that differ).
* Metadata, names and units of attributes (`pwr.cc`), `static.cc`.
* The arithmetic over samples (`ops.h`), the conversion of registers to units in
  the plug-ins, time stamps, formatting of the logger's lines.
* Several operations on one request at a time (the library does not promise
  them; the rules of an application are above).
* The tools, the Python binding, the examples, and tinyxml2, which is not this
  repository's code.

Hazards that no property covers have their reason in `PROJECT.json`: where the
code promises nothing (a request whose server has died), nothing can be violated.

## 6. What is left to do

In this order:

1. A channel with bounded buffers between `Router` and `DistRequest`.
2. `Aggregation` with clients that leave and groups of servers lost, so that
   `troubles` checks `KeepsPromise` too; two operations on one request in
   `DistRequest`.
