----------------------------- MODULE RouterTree -----------------------------
(***************************************************************************)
(* Routers connected as a tree, by the links that the arguments of each    *)
(* daemon give it: how the arguments become links, how an event finds its  *)
(* way from a client's router to the router of a server and the answer its *)
(* way back, what waits for servers that have not connected, and what a    *)
(* router that ends does to the others.  What happens to an event inside   *)
(* its router is Router's business.                                        *)
(***************************************************************************)
EXTENDS Naturals, Sequences, FiniteSets, FiniteSetsExt, SequencesExt

CONSTANTS
  Nets,       \* trees: per router, its --rtr.routerInfo arguments in order
  Servers,    \* AppIDs of servers: router and number
  Asks,       \* requests of a run: 1..n
  MaxHops,    \* hops of an event that are counted
  MayDie,     \* whether a router may be killed
  NoRtr       \* where there is no channel

Self == "self"      \* the ServerID -1: the router itself

(* An argument: the link, the router at its other end, how long the name   *)
(* of that router's host and its port are, and the nids behind it, which   *)
(* are given for every link but 0, the way up.                             *)
Arg == [link : Nat, other : Nat, host : Nat, port : Nat, start : Nat, stop : Nat]

Rtrs(n) == DOMAIN n

ASSUME TreeAssumption ==
  /\ \A n \in Nets :
       /\ Rtrs(n) \subseteq Nat /\ NoRtr \notin Rtrs(n)
       /\ \A r \in Rtrs(n) :
            n[r] \in Seq(Arg) /\ \A i \in DOMAIN n[r] : n[r][i].other \in Rtrs(n)
  /\ \A d \in Servers : d.srv # Self
  /\ Asks \subseteq Nat /\ MaxHops \in Nat

-----------------------------------------------------------------------------
(* The port of the way up is cut to one digit more than the name of its    *)
(* host has characters: pos is that of the colon before it.                *)
Cut(a) == a.link = 0 /\ a.port > a.host + 1

(* The arguments say what they mean: their links are in order and without  *)
(* gaps, and no range and no port loses digits.                            *)
NidDigits(n) == IF n < 10 THEN 1 ELSE IF n < 100 THEN 2 ELSE 3

SaysSo(n) ==
  \A r \in Rtrs(n) : LET args == n[r] IN
    /\ \A i \in DOMAIN args : args[i].link = i - 1 /\ ~Cut(args[i])
    /\ \A i \in DOMAIN args : i > 1 => NidDigits(args[i].stop) <= NidDigits(args[i].start) + 1

(* The routers that a link of r to h is for, by the arguments of r.        *)
Ranges(n, r, x) == {i \in 2..Len(n[r]) : n[r][i].start <= x /\ x <= n[r][i].stop}

Behind(n, r, h) ==
  {x \in Rtrs(n) \ {r} :
     IF Ranges(n, r, x) = {} THEN n[r] # <<>> /\ n[r][1].other = h
     ELSE \E i \in Ranges(n, r, x) : n[r][i].other = h}

(* The ranges of a tree: each router is behind a link of each other one,   *)
(* a link leads to a router behind it, and what is behind a link is not    *)
(* sought elsewhere from there (examples/config/daemon.py gives such).     *)
Agree(n) ==
  \A r \in Rtrs(n) :
    /\ \A x \in Rtrs(n) \ {r} : \E h \in Rtrs(n) : x \in Behind(n, r, h)
    /\ \A h \in Rtrs(n) : Behind(n, r, h) # {} =>
         /\ h \in Behind(n, r, h)
         /\ \A g \in Rtrs(n) : Behind(n, h, g) \cap Behind(n, r, h) # {} =>
              Behind(n, h, g) \subseteq Behind(n, r, h)

ASSUME TreesAgree == \A n \in Nets : SaysSo(n) => Agree(n)

VARIABLES
  net,        \* the tree
  links,      \* TreeCore::m_rtrLinks of each router, from link 0
  rtr,        \* "runs", "killed", "aborted", or "undefined": used freed memory
  wire,       \* events on the connection between two routers
  open,       \* links that are connected, which the first event does
  known,      \* servers in the m_localMap of their router
  pend,       \* m_pendingEvents: events that wait for a server
  srvQ,       \* events on their way to a server
  seen,       \* what has been sent to a server, in order
  asks,       \* the requests that have been made
  back        \* the requests whose answers have come back

treeVars == <<net, links, rtr, wire, open, known, pend, srvQ, seen, asks, back>>

-----------------------------------------------------------------------------
(* initTreeInfo: the link numbers need not come in order, but the resize   *)
(* drops what is behind the one that is being read; the last nid of a link *)
(* is cut to one digit more than the first one has.  Nobody listens at a   *)
(* port that has been cut.                                                 *)
Skipped == [other |-> NoRtr, start |-> 0, stop |-> 0]

Stop(a) ==
  IF NidDigits(a.stop) <= NidDigits(a.start) + 1 THEN a.stop
  ELSE a.stop \div (10 ^ (NidDigits(a.stop) - NidDigits(a.start) - 1))

LinkOf(a) ==
  [other |-> IF Cut(a) THEN NoRtr ELSE a.other,
   start |-> IF a.link = 0 THEN 0 ELSE a.start,
   stop |-> IF a.link = 0 THEN 0 ELSE Stop(a)]

(* The arguments that give link i - 1 and come after every resize below it.*)
Given(args, i) ==
  {j \in DOMAIN args :
     args[j].link = i - 1 /\ \A k \in DOMAIN args : k > j => args[k].link >= i - 1}

Links(args) ==
  [i \in 1..(IF args = <<>> THEN 0 ELSE Last(args).link + 1) |->
     IF Given(args, i) = {} THEN Skipped ELSE LinkOf(args[Max(Given(args, i))])]

(* Mutant of Channel: always the way up.                                   *)
ChannelAnyUp(r, id) == IF links[r] = <<>> THEN NoRtr ELSE links[r][1].other

(* TreeCore::getChannel: the first link whose range has the id, or link 0. *)
Channel(r, id) ==
  LET down == {i \in 2..Len(links[r]) : links[r][i].start <= id /\ id <= links[r][i].stop} IN
  IF links[r] = <<>> THEN NoRtr
  ELSE links[r][IF down = {} THEN 1 ELSE Min(down)].other

TreeInit ==
  /\ net \in Nets
  /\ links = [r \in Rtrs(net) |-> Links(net[r])]
  /\ rtr = [r \in Rtrs(net) |-> "runs"]
  /\ wire = [r \in Rtrs(net) |-> [s \in Rtrs(net) |-> <<>>]]
  /\ open = {} /\ known = {} /\ asks = {} /\ back = {}
  /\ pend = [d \in Servers |-> <<>>]
  /\ srvQ = [d \in Servers |-> <<>>]
  /\ seen = [d \in Servers |-> <<>>]

-----------------------------------------------------------------------------
RtrEnds(r, how) == rtr' = [rtr EXCEPT ![r] = how]

(* Mutant of Delivered: an event that can be sent does not wait its turn.  *)
DeliveredUnlessWaiting(d) == pend[d] # <<>> \/ d \in known

(* A server is sent what it is to be sent when it has connected.           *)
Delivered(d) == d \in known

(* Router::sendEvent of an event for an AppID.  w and q are the channels   *)
(* without the event; kept says whether the event outlives the call.  A    *)
(* link without a channel fails an assert, and so does a write to a router *)
(* that is not there.                                                      *)
Route(r, e, kept, w, q) ==
  LET hop  == Channel(r, e.dest.rtr)
      here == [e EXCEPT !.path = IF Len(@) < MaxHops THEN Append(@, r) ELSE @]
  IN
  \/ /\ e.dest.rtr # r /\ (IF hop = NoRtr THEN TRUE ELSE rtr[hop] # "runs")
     /\ RtrEnds(r, "aborted")
     /\ wire' = w /\ srvQ' = q /\ UNCHANGED <<open, pend, seen, back>>
  \/ /\ e.dest.rtr # r /\ (IF hop = NoRtr THEN FALSE ELSE rtr[hop] = "runs")
     /\ wire' = [w EXCEPT ![r][hop] = Append(@, here)]
     /\ open' = open \union {<<r, hop>>}
     /\ srvQ' = q /\ UNCHANGED <<rtr, pend, seen, back>>
  \/ /\ e.dest.rtr = r /\ e.dest.srv = Self
     /\ back' = back \union {e.id}
     /\ wire' = w /\ srvQ' = q /\ UNCHANGED <<rtr, open, pend, seen>>
  \/ /\ e.dest.rtr = r /\ e.dest.srv # Self /\ Delivered(e.dest)
     /\ srvQ' = [q EXCEPT ![e.dest] = Append(@, here)]
     /\ seen' = [seen EXCEPT ![e.dest] = Append(@, here)]
     /\ wire' = w /\ UNCHANGED <<rtr, open, pend, back>>
  \/ /\ e.dest.rtr = r /\ e.dest.srv # Self /\ ~Delivered(e.dest)
     /\ pend' = [pend EXCEPT ![e.dest] = Append(@, [ev |-> here, kept |-> kept])]
     /\ wire' = w /\ srvQ' = q /\ UNCHANGED <<rtr, open, seen, back>>

(* Mutant of Ask: the router deletes its RouterEvent though it waits.       *)
AskDeletes(r, d, i) ==
  /\ rtr[r] = "runs" /\ i = Cardinality(asks) + 1 /\ i \in Asks
  /\ asks' = asks \union {[id |-> i, at |-> r, of |-> d]}
  /\ Route(r, [id |-> i, src |-> [rtr |-> r, srv |-> Self], dest |-> d, path |-> <<>>],
           FALSE, wire, srvQ)
  /\ UNCHANGED <<net, links, known>>

(* A client of router r asks for an object of server d: the router makes a *)
(* RouterEvent of its own.                                                 *)
Ask(r, d, i) ==
  /\ rtr[r] = "runs" /\ i = Cardinality(asks) + 1 /\ i \in Asks
  /\ asks' = asks \union {[id |-> i, at |-> r, of |-> d]}
  /\ Route(r, [id |-> i, src |-> [rtr |-> r, srv |-> Self], dest |-> d, path |-> <<>>],
           TRUE, wire, srvQ)
  /\ UNCHANGED <<net, links, known>>

(* RtrRouterEvent::process of an event of a neighbour, which is deleted    *)
(* afterwards whatever has become of it.                                   *)
Pass(s, r) ==
  /\ rtr[r] = "runs" /\ wire[s][r] # <<>>
  /\ Route(r, Head(wire[s][r]), FALSE, [wire EXCEPT ![s][r] = Tail(@)], srvQ)
  /\ UNCHANGED <<net, links, known, asks>>

(* A server answers, and its router passes the answer on.                  *)
SrvReplies(d) ==
  /\ rtr[d.rtr] = "runs" /\ srvQ[d] # <<>>
  /\ LET e == Head(srvQ[d]) IN
       Route(d.rtr, [id |-> e.id, src |-> e.dest, dest |-> e.src, path |-> <<>>],
             FALSE, wire, [srvQ EXCEPT ![d] = Tail(@)])
  /\ UNCHANGED <<net, links, known, asks>>

(* addServer and doPending: what waits is sent, also what is freed.        *)
SrvConnects(d) ==
  /\ d.rtr \in Rtrs(net) /\ rtr[d.rtr] = "runs" /\ d \notin known
  /\ known' = known \union {d}
  /\ pend' = [pend EXCEPT ![d] = <<>>]
  /\ IF \A i \in DOMAIN pend[d] : pend[d][i].kept
     THEN LET evs == [i \in DOMAIN pend[d] |-> pend[d][i].ev] IN
          /\ srvQ' = [srvQ EXCEPT ![d] = @ \o evs]
          /\ seen' = [seen EXCEPT ![d] = @ \o evs]
          /\ UNCHANGED rtr
     ELSE RtrEnds(d.rtr, "undefined") /\ UNCHANGED <<srvQ, seen>>
  /\ UNCHANGED <<net, links, wire, open, asks, back>>

RtrDies(r) ==
  /\ MayDie /\ \A s \in Rtrs(net) : rtr[s] = "runs"
  /\ RtrEnds(r, "killed")
  /\ UNCHANGED <<net, links, wire, open, known, pend, srvQ, seen, asks, back>>

(* RouterData::process reads the end of file of the channel it sends on,   *)
(* and close() of a channel is an assert.                                  *)
EndOfFile(r, s) ==
  /\ rtr[r] = "runs" /\ <<r, s>> \in open /\ rtr[s] # "runs"
  /\ RtrEnds(r, "aborted")
  /\ UNCHANGED <<net, links, wire, open, known, pend, srvQ, seen, asks, back>>

Here == {d \in Servers : d.rtr \in Rtrs(net)}

TreeWork ==
  \/ \E s, r \in Rtrs(net) : Pass(s, r)
  \/ \E d \in Here : SrvReplies(d) \/ SrvConnects(d)

TreeNext ==
  \/ TreeWork
  \/ \E r \in Rtrs(net), d \in Here, i \in Asks : Ask(r, d, i)
  \/ \E r \in Rtrs(net) : RtrDies(r)
  \/ \E r, s \in Rtrs(net) : EndOfFile(r, s)

(* Every router takes the events that have come, and every server connects *)
(* and answers.  What they do ends where the ranges agree, so that it is   *)
(* enough that one of them goes on.                                        *)
TreeFair == WF_treeVars(TreeWork)

TreeSpec == TreeInit /\ [][TreeNext]_treeVars /\ TreeFair

-----------------------------------------------------------------------------
(* An event goes through no router twice, so that none goes round for      *)
(* ever: the ranges of all routers agree (TreeCore::getChannel).           *)
NoDetour ==
  SaysSo(net) =>
    /\ \A s, r \in Rtrs(net) : \A i \in DOMAIN wire[s][r] : IsInjective(wire[s][r][i].path)
    /\ \A d \in Here : \A i \in DOMAIN seen[d] : IsInjective(seen[d][i].path)

(* What one router sends to a server reaches it in the order it was sent,  *)
(* whether it has waited for the server or not: a CommCreate is ahead of   *)
(* its requests (Router::sendEvent, doPending).                            *)
InOrder ==
  \A d \in Here : \A i, j \in DOMAIN seen[d] :
    i < j /\ seen[d][i].src = seen[d][j].src => seen[d][i].id < seen[d][j].id

(* A router ends only because another has ended that it is linked to or    *)
(* because its arguments do not say what they mean, and it uses freed      *)
(* memory only when an event of another router had to wait for a server.   *)
TreeBlameless ==
  \A r \in Rtrs(net) :
    /\ rtr[r] = "aborted" =>
         ~SaysSo(net) \/ \E i \in DOMAIN links[r] :
                           links[r][i].other # NoRtr /\ rtr[links[r][i].other] # "runs"
    /\ rtr[r] = "undefined" => \E q \in asks : q.of.rtr = r /\ q.at # r

(* Every request to a server is answered at the router that has asked, if  *)
(* every router keeps running.                                             *)
TreeAnswers ==
  \A i \in Asks :
    (\E q \in asks : q.id = i)
      ~> (i \in back \/ ~SaysSo(net) \/ \E r \in Rtrs(net) : rtr[r] # "runs")
=============================================================================
