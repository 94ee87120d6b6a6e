------------------------- MODULE RouterTree_proofs -------------------------
(***************************************************************************)
(* Proofs, for any trees, servers and numbers of requests.                 *)
(*                                                                         *)
(* SentInOrder is true whatever the links are: getChannel depends on the   *)
(* router and the destination alone, so that all events from one router to *)
(* one server take one way (Ways), on which none is ever behind a younger  *)
(* one (Orderly).  That the way to a server is one, and has no router      *)
(* twice, is shown of the least hop at which it would not be so (OneWay,   *)
(* NoRound).  NoneTwiceThrough needs the ranges to agree (TreesAgree):     *)
(* then what an event has still to go through is behind the link it takes, *)
(* and nothing it has gone through is (NoneTwice).  TreeNotToBlame needs to*)
(* know of every event under way who has asked for it (Traced).            *)
(***************************************************************************)
EXTENDS RouterTree, Integers, FiniteSetTheorems, SequenceTheorems, WellFoundedInduction, TLAPS

-----------------------------------------------------------------------------
(* Sets of numbers have a least element, and bounded ones a greatest.      *)
LEMMA Least ==
  ASSUME NEW T, T \subseteq Nat, T # {}
  PROVE  \E m \in T : \A y \in T : m <= y
<1>1. \E x \in T : \A y \in T : <<y, x>> \notin OpToRel(<, Nat)
  BY NatLessThanWellFounded, WFMin
<1>2. OpToRel(<, Nat) = {ss \in Nat \X Nat : ss[1] < ss[2]}
  BY Zenon DEF OpToRel
<1>3. \A x, y \in Nat : x < y => <<x, y>> \in OpToRel(<, Nat)
  BY <1>2
<1>4. \E x \in T : \A y \in T : ~(y < x)
  BY <1>1, <1>3, Zenon
<1> QED BY <1>4

LEMMA MinFacts ==
  ASSUME NEW T, T \subseteq Nat, T # {}
  PROVE  Min(T) \in T /\ \A y \in T : Min(T) <= y
BY Least DEF Min

LEMMA MaxFacts ==
  ASSUME NEW n \in Nat, NEW T, T \subseteq 0..n, T # {}
  PROVE  Max(T) \in T
<1> DEFINE U == {n - x : x \in T}
<1>0. U \subseteq Nat /\ U # {}
  <2>1. \A x \in T : n - x \in Nat
    OBVIOUS
  <2> QED BY <2>1
<1>1. PICK m \in U : \A y \in U : m <= y
  BY <1>0, Least
<1>2. PICK x \in T : m = n - x
  BY <1>1
<1>3. ASSUME NEW y \in T PROVE x >= y
  <2>1. m <= n - y
    BY <1>1
  <2> QED BY <1>2, <2>1
<1> QED BY <1>2, <1>3 DEF Max

-----------------------------------------------------------------------------
(* What the arguments of a router become.                                  *)
LEMMA LinkFacts ==
  ASSUME NEW n \in Nets, NEW r \in Rtrs(n)
  PROVE  /\ Links(n[r]) = <<>> <=> Len(Links(n[r])) = 0
         /\ Len(Links(n[r])) \in Nat
         /\ DOMAIN Links(n[r]) = 1..Len(Links(n[r]))
         /\ \A i \in DOMAIN Links(n[r]) : Links(n[r])[i].other \in Rtrs(n) \union {NoRtr}
<1> DEFINE args == n[r]
           top == IF args = <<>> THEN 0 ELSE Last(args).link + 1
<1>1. args \in Seq(Arg) /\ \A i \in DOMAIN args : args[i].other \in Rtrs(n)
  BY TreeAssumption
<1>0. \A i \in DOMAIN args : args[i].link \in Nat
  <2>1. \A i \in DOMAIN args : args[i] \in Arg
    BY <1>1
  <2> QED BY <2>1 DEF Arg
<1>2. top \in Nat
  <2>1. args # <<>> => Len(args) \in DOMAIN args
    BY <1>1
  <2> QED BY <1>0, <2>1 DEF Last
<1>3. ASSUME NEW i \in 1..top
      PROVE  (IF Given(args, i) = {} THEN Skipped ELSE LinkOf(args[Max(Given(args, i))])).other
               \in Rtrs(n) \union {NoRtr}
  <2>1. Given(args, i) \subseteq 0..Len(args)
    BY <1>1 DEF Given
  <2>2. Given(args, i) # {} => Max(Given(args, i)) \in DOMAIN args
    <3>1. Len(args) \in Nat /\ Given(args, i) \subseteq DOMAIN args
      BY <1>1 DEF Given
    <3> QED BY <2>1, <3>1, MaxFacts
  <2> QED BY <1>1, <2>2 DEF Skipped, LinkOf
<1>4. Links(args) = [i \in 1..top |-> IF Given(args, i) = {} THEN Skipped
                                      ELSE LinkOf(args[Max(Given(args, i))])]
  BY DEF Links
<1> HIDE DEF top
<1>5. Len(Links(args)) = top /\ DOMAIN Links(args) = 1..top
  BY <1>2, <1>4
<1>6. \A i \in 1..top : Links(args)[i].other \in Rtrs(n) \union {NoRtr}
  BY <1>3, <1>4
<1>7. Links(args) = <<>> <=> top = 0
  BY <1>2, <1>4
<1> QED BY <1>2, <1>5, <1>6, <1>7

(* Where the arguments say what they mean, a link is as its argument says. *)
LEMMA SaidLinks ==
  ASSUME NEW n \in Nets, NEW r \in Rtrs(n), SaysSo(n)
  PROVE  /\ Len(Links(n[r])) = Len(n[r])
         /\ \A i \in 1..Len(n[r]) :
              /\ Links(n[r])[i].other = n[r][i].other
              /\ i > 1 => Links(n[r])[i].start = n[r][i].start /\ Links(n[r])[i].stop = n[r][i].stop
<1> DEFINE args == n[r]
           top == IF args = <<>> THEN 0 ELSE Last(args).link + 1
<1>1. args \in Seq(Arg)
  BY TreeAssumption
<1>2. /\ \A i \in DOMAIN args : args[i].link = i - 1 /\ ~Cut(args[i])
      /\ \A i \in DOMAIN args : i > 1 => NidDigits(args[i].stop) <= NidDigits(args[i].start) + 1
  BY DEF SaysSo
<1>3. top = Len(args)
  <2>1. \A i \in DOMAIN args : args[i].link = i - 1
    BY <1>2
  <2>2. Len(args) \in Nat /\ (args = <<>> => Len(args) = 0)
    BY <1>1
  <2>3. args # <<>> => Len(args) \in DOMAIN args
    BY <1>1
  <2>4. args # <<>> => args[Len(args)].link = Len(args) - 1
    BY <2>1, <2>3
  <2> QED BY <2>2, <2>4 DEF Last
<1>4. Links(args) = [i \in 1..top |-> IF Given(args, i) = {} THEN Skipped
                                      ELSE LinkOf(args[Max(Given(args, i))])]
  BY DEF Links
<1> HIDE DEF top
<1>5. ASSUME NEW i \in 1..Len(args) PROVE Links(args)[i] = LinkOf(args[i])
  <2>1. Given(args, i) = {i}
    BY <1>1, <1>2 DEF Given
  <2>2. Max(Given(args, i)) = i
    BY <2>1, MaxFacts
  <2> QED BY <1>3, <1>4, <2>1, <2>2
<1>6. Len(Links(args)) = Len(args)
  BY <1>1, <1>3, <1>4
<1>7. ASSUME NEW i \in 1..Len(args)
      PROVE  /\ LinkOf(args[i]).other = args[i].other
             /\ i > 1 => LinkOf(args[i]).start = args[i].start /\ LinkOf(args[i]).stop = args[i].stop
  <2>1. args[i].link = i - 1 /\ ~Cut(args[i]) /\ (i > 1 => NidDigits(args[i].stop) <= NidDigits(args[i].start) + 1)
    BY <1>1, <1>2
  <2>2. i > 1 => args[i].link # 0
    BY <2>1
  <2> QED BY <2>1, <2>2 DEF LinkOf, Stop
<1> QED BY <1>5, <1>6, <1>7

-----------------------------------------------------------------------------
(* Requests go from routers to servers, and answers back.                  *)
TreeRequest ==
  [id : Asks, src : [rtr : Rtrs(net), srv : {Self}], dest : Here, path : Seq(Rtrs(net))]
TreeReply ==
  [id : Asks, src : Here, dest : [rtr : Rtrs(net), srv : {Self}], path : Seq(Rtrs(net))]
TreeEvent == TreeRequest \union TreeReply

TreeTypeOK ==
  /\ net \in Nets
  /\ links = [r \in Rtrs(net) |-> Links(net[r])]
  /\ rtr \in [Rtrs(net) -> {"runs", "killed", "aborted", "undefined"}]
  /\ wire \in [Rtrs(net) -> [Rtrs(net) -> Seq(TreeEvent)]]
  /\ open \subseteq Rtrs(net) \X Rtrs(net)
  /\ known \subseteq Here
  /\ pend \in [Servers -> Seq([ev : TreeRequest, kept : BOOLEAN])]
  /\ srvQ \in [Servers -> Seq(TreeRequest)]
  /\ seen \in [Servers -> Seq(TreeRequest)]
  /\ asks \subseteq [id : Asks, at : Rtrs(net), of : Here] /\ IsFiniteSet(asks)
  /\ back \subseteq Asks

(* What has come to a server, or waits for it, is for that server.         *)
Addressed ==
  \A d \in Servers :
    /\ \A i \in 1..Len(pend[d]) : pend[d][i].ev.dest = d
    /\ \A i \in 1..Len(srvQ[d]) : srvQ[d][i].dest = d
    /\ \A i \in 1..Len(seen[d]) : seen[d][i].dest = d

LEMMA NetStays ==
  ASSUME net' = net
  PROVE  /\ Here' = Here /\ TreeRequest' = TreeRequest /\ TreeReply' = TreeReply
         /\ TreeEvent' = TreeEvent /\ Rtrs(net)' = Rtrs(net)
BY DEF Here, TreeRequest, TreeReply, TreeEvent, Rtrs

LEMMA EventFacts ==
  ASSUME net \in Nets, NEW e \in TreeEvent
  PROVE  /\ e.id \in Asks /\ e.dest.rtr \in Rtrs(net) /\ e.src.rtr \in Rtrs(net)
         /\ e.path \in Seq(Rtrs(net))
         /\ e \in TreeRequest <=> e.dest.srv # Self
         /\ e \in TreeRequest => e.dest \in Here /\ e.src.srv = Self
         /\ e \in TreeReply <=> e.dest.srv = Self
         /\ e \in TreeReply => e.src \in Here
BY TreeAssumption DEF TreeEvent, TreeRequest, TreeReply, Here

LEMMA HopFacts ==
  ASSUME TreeTypeOK, NEW r \in Rtrs(net), NEW id
  PROVE  /\ Channel(r, id) \in Rtrs(net) \union {NoRtr}
         /\ Channel(r, id) # NoRtr =>
              \E i \in DOMAIN links[r] : links[r][i].other = Channel(r, id)
<1> DEFINE down == {i \in 2..Len(links[r]) : links[r][i].start <= id /\ id <= links[r][i].stop}
           at == IF down = {} THEN 1 ELSE Min(down)
<1>1. net \in Nets /\ links[r] = Links(net[r])
  BY DEF TreeTypeOK
<1>2. /\ Len(links[r]) \in Nat /\ DOMAIN links[r] = 1..Len(links[r])
      /\ links[r] = <<>> <=> Len(links[r]) = 0
      /\ \A i \in DOMAIN links[r] : links[r][i].other \in Rtrs(net) \union {NoRtr}
  BY <1>1, LinkFacts
<1>3. ASSUME links[r] # <<>> PROVE at \in DOMAIN links[r]
  <2>1. down \subseteq Nat /\ down \subseteq DOMAIN links[r]
    BY <1>2
  <2>2. down # {} => Min(down) \in down
    BY <2>1, MinFacts
  <2> QED BY <1>2, <1>3, <2>1, <2>2
<1>4. Channel(r, id) = IF links[r] = <<>> THEN NoRtr ELSE links[r][at].other
  BY DEF Channel
<1> QED BY <1>2, <1>3, <1>4

(* What becomes of an event, f being the event with its path.              *)
Stamped(f, e, r) ==
  /\ f \in TreeEvent /\ f.id = e.id /\ f.src = e.src /\ f.dest = e.dest
  /\ f.path = e.path \/ f.path = Append(e.path, r)
Fails(r, e, w, q) ==
  /\ e.dest.rtr # r
  /\ Channel(r, e.dest.rtr) # NoRtr => rtr[Channel(r, e.dest.rtr)] # "runs"
  /\ rtr' = [rtr EXCEPT ![r] = "aborted"]
  /\ wire' = w /\ srvQ' = q /\ UNCHANGED <<open, pend, seen, back>>
GoesOn(r, h, e, f, w, q) ==
  /\ e.dest.rtr # r /\ h = Channel(r, e.dest.rtr) /\ h \in Rtrs(net)
  /\ wire' = [w EXCEPT ![r][h] = Append(@, f)]
  /\ open' = open \union {<<r, h>>}
  /\ srvQ' = q /\ UNCHANGED <<rtr, pend, seen, back>>
IsBack(r, e, w, q) ==
  /\ e.dest.rtr = r /\ e \in TreeReply
  /\ back' = back \union {e.id}
  /\ wire' = w /\ srvQ' = q /\ UNCHANGED <<rtr, open, pend, seen>>
Reaches(r, e, f, w, q) ==
  /\ e.dest.rtr = r /\ e \in TreeRequest /\ f \in TreeRequest /\ e.dest \in known
  /\ srvQ' = [q EXCEPT ![e.dest] = Append(@, f)]
  /\ seen' = [seen EXCEPT ![e.dest] = Append(@, f)]
  /\ wire' = w /\ UNCHANGED <<rtr, open, pend, back>>
HasToWait(r, e, f, kept, w, q) ==
  /\ e.dest.rtr = r /\ e \in TreeRequest /\ f \in TreeRequest /\ e.dest \notin known
  /\ pend' = [pend EXCEPT ![e.dest] = Append(@, [ev |-> f, kept |-> kept])]
  /\ wire' = w /\ srvQ' = q /\ UNCHANGED <<rtr, open, seen, back>>

LEMMA RouteCases ==
  ASSUME TreeTypeOK, NEW r \in Rtrs(net), NEW e \in TreeEvent, NEW kept, NEW w, NEW q,
         Route(r, e, kept, w, q)
  PROVE  \E f : /\ Stamped(f, e, r)
                /\ \/ Fails(r, e, w, q)
                   \/ \E h : GoesOn(r, h, e, f, w, q)
                   \/ IsBack(r, e, w, q)
                   \/ Reaches(r, e, f, w, q)
                   \/ HasToWait(r, e, f, kept, w, q)
<1> DEFINE f == [e EXCEPT !.path = IF Len(@) < MaxHops THEN Append(@, r) ELSE @]
<1>1. /\ e.path \in Seq(Rtrs(net)) /\ (e \in TreeRequest <=> e.dest.srv # Self)
      /\ (e \in TreeReply <=> e.dest.srv = Self)
  BY EventFacts DEF TreeTypeOK
<1>2. Stamped(f, e, r) /\ (e \in TreeRequest => f \in TreeRequest)
  <2>1. Append(e.path, r) \in Seq(Rtrs(net))
    BY <1>1
  <2> QED BY <1>1, <2>1 DEF Stamped, TreeEvent, TreeRequest, TreeReply
<1>3. Channel(r, e.dest.rtr) \in Rtrs(net) \union {NoRtr}
  BY HopFacts
<1> QED BY <1>1, <1>2, <1>3
           DEF Route, RtrEnds, Delivered, Fails, GoesOn, IsBack, Reaches, HasToWait

-----------------------------------------------------------------------------
(* Types: every step of the routers keeps them, sent events with them.     *)
LEMMA Appended ==
  ASSUME NEW S, NEW s \in Seq(S), NEW x
  PROVE  /\ Len(Append(s, x)) = Len(s) + 1
         /\ \A i \in 1..Len(Append(s, x)) : Append(s, x)[i] = IF i = Len(s) + 1 THEN x ELSE s[i]
         /\ \A i \in 1..Len(Append(s, x)) : i = Len(s) + 1 \/ i \in 1..Len(s)
OBVIOUS

LEMMA RouteTypes ==
  ASSUME TreeTypeOK, Addressed, NEW r \in Rtrs(net), NEW e \in TreeEvent, NEW kept \in BOOLEAN,
         NEW w \in [Rtrs(net) -> [Rtrs(net) -> Seq(TreeEvent)]],
         NEW q \in [Servers -> Seq(TreeRequest)],
         \A d \in Servers : \A i \in 1..Len(q[d]) : q[d][i].dest = d,
         Route(r, e, kept, w, q), UNCHANGED <<net, links, known>>,
         asks' \subseteq [id : Asks, at : Rtrs(net), of : Here], IsFiniteSet(asks')
  PROVE  TreeTypeOK' /\ Addressed'
<1> USE DEF TreeTypeOK
<1>0. /\ Here' = Here /\ TreeRequest' = TreeRequest /\ TreeEvent' = TreeEvent
      /\ Rtrs(net)' = Rtrs(net)
  BY NetStays
<1>1. /\ e.id \in Asks /\ (e \in TreeRequest => e.dest \in Here)
      /\ (e \in TreeRequest <=> e.dest.srv # Self)
  BY EventFacts
<1>2. Channel(r, e.dest.rtr) \in Rtrs(net) \union {NoRtr}
  BY HopFacts
<1>3. \A s \in Rtrs(net) : wire[s] \in [Rtrs(net) -> Seq(TreeEvent)] /\ w[s] \in [Rtrs(net) -> Seq(TreeEvent)]
  OBVIOUS
<1>4. PICK f : /\ Stamped(f, e, r)
               /\ \/ Fails(r, e, w, q)
                  \/ \E h : GoesOn(r, h, e, f, w, q)
                  \/ IsBack(r, e, w, q)
                  \/ Reaches(r, e, f, w, q)
                  \/ HasToWait(r, e, f, kept, w, q)
  BY RouteCases
<1>5. CASE Fails(r, e, w, q)
  BY <1>0, <1>5 DEF Fails, Addressed
<1>6. CASE \E h : GoesOn(r, h, e, f, w, q)
  <2>1. PICK h : GoesOn(r, h, e, f, w, q)
    BY <1>6
  <2>2. Append(w[r][h], f) \in Seq(TreeEvent)
    BY <1>3, <1>4, <2>1 DEF GoesOn, Stamped
  <2>3. wire' \in [Rtrs(net) -> [Rtrs(net) -> Seq(TreeEvent)]]
    BY <1>3, <2>1, <2>2 DEF GoesOn
  <2>4. /\ h \in Rtrs(net) /\ open' = open \union {<<r, h>>}
        /\ srvQ' = q /\ UNCHANGED <<rtr, pend, seen, back>>
    BY <2>1 DEF GoesOn
  <2>5. open' \subseteq Rtrs(net) \X Rtrs(net)
    <3>1. open \subseteq Rtrs(net) \X Rtrs(net)
      OBVIOUS
    <3> HIDE DEF TreeTypeOK
    <3>2. <<r, h>> \in Rtrs(net) \X Rtrs(net)
      BY <2>4
    <3> QED BY <2>4, <3>1, <3>2
  <2>6. TreeTypeOK'
    BY <1>0, <2>3, <2>4, <2>5
  <2> QED BY <1>0, <2>4, <2>6 DEF Addressed
<1>7. CASE IsBack(r, e, w, q)
  BY <1>0, <1>1, <1>7 DEF IsBack, Addressed
<1>8. CASE Reaches(r, e, f, w, q)
  <2>1. /\ e.dest \in Servers /\ f \in TreeRequest /\ f.dest = e.dest
        /\ srvQ' = [q EXCEPT ![e.dest] = Append(@, f)] /\ seen' = [seen EXCEPT ![e.dest] = Append(@, f)]
        /\ wire' = w /\ UNCHANGED <<rtr, open, pend, back>>
    BY <1>1, <1>4, <1>8 DEF Reaches, Stamped, Here
  <2>2. srvQ' \in [Servers -> Seq(TreeRequest)] /\ seen' \in [Servers -> Seq(TreeRequest)]
    BY <2>1
  <2>3. ASSUME NEW d \in Servers
        PROVE  /\ \A i \in 1..Len(srvQ'[d]) : srvQ'[d][i].dest = d
               /\ \A i \in 1..Len(seen'[d]) : seen'[d][i].dest = d
    <3>1. CASE d = e.dest
      <4>1. /\ srvQ'[d] = Append(q[d], f) /\ seen'[d] = Append(seen[d], f)
            /\ q[d] \in Seq(TreeRequest) /\ seen[d] \in Seq(TreeRequest)
        BY <2>1, <3>1
      <4>2. /\ \A i \in 1..Len(q[d]) : q[d][i].dest = d
            /\ \A i \in 1..Len(seen[d]) : seen[d][i].dest = d
        BY DEF Addressed
      <4>3. f.dest = d
        BY <2>1, <3>1
      <4> QED BY <4>1, <4>2, <4>3, Appended
    <3>2. CASE d # e.dest
      BY <2>1, <3>2 DEF Addressed
    <3> QED BY <3>1, <3>2
  <2> QED BY <1>0, <2>1, <2>2, <2>3 DEF Addressed
<1>9. CASE HasToWait(r, e, f, kept, w, q)
  <2>1. /\ e.dest \in Servers /\ f \in TreeRequest /\ f.dest = e.dest
        /\ pend' = [pend EXCEPT ![e.dest] = Append(@, [ev |-> f, kept |-> kept])]
        /\ wire' = w /\ srvQ' = q /\ UNCHANGED <<rtr, open, seen, back>>
    BY <1>1, <1>4, <1>9 DEF HasToWait, Stamped, Here
  <2> DEFINE Waiting == [ev : TreeRequest, kept : BOOLEAN]
             it == [ev |-> f, kept |-> kept]
  <2>2. pend' \in [Servers -> Seq(Waiting)]
    <3>1. it \in Waiting
      BY <2>1
    <3>2. pend[e.dest] \in Seq(Waiting) /\ pend' = [pend EXCEPT ![e.dest] = Append(@, it)]
      BY <2>1
    <3> HIDE DEF Waiting, it
    <3>3. Append(pend[e.dest], it) \in Seq(Waiting)
      BY <3>1, <3>2
    <3>4. pend \in [Servers -> Seq(Waiting)]
      BY DEF Waiting
    <3> QED BY <3>2, <3>3, <3>4
  <2>3. ASSUME NEW d \in Servers PROVE \A i \in 1..Len(pend'[d]) : pend'[d][i].ev.dest = d
    <3>1. CASE d = e.dest
      <4>1. pend'[d] = Append(pend[d], it) /\ pend[d] \in Seq(Waiting) /\ it.ev = f
        BY <2>1, <3>1
      <4>2. \A i \in 1..Len(pend[d]) : pend[d][i].ev.dest = d
        BY DEF Addressed
      <4>3. f.dest = d
        BY <2>1, <3>1
      <4> HIDE DEF Waiting, it
      <4> QED BY <4>1, <4>2, <4>3, Appended
    <3>2. CASE d # e.dest
      BY <2>1, <3>2 DEF Addressed
    <3> QED BY <3>1, <3>2
  <2> QED BY <1>0, <2>1, <2>2, <2>3 DEF Addressed
<1> QED BY <1>4, <1>5, <1>6, <1>7, <1>8, <1>9

(* The three actions that send an event, each with what it sends.          *)
LEMMA AskSends ==
  ASSUME TreeTypeOK, Addressed, NEW r \in Rtrs(net), NEW d \in Here, NEW i \in Asks, Ask(r, d, i)
  PROVE  \E e, w, q :
           /\ e \in TreeEvent
           /\ e \in TreeRequest /\ e.id = i /\ e.src = [rtr |-> r, srv |-> Self]
           /\ e.dest = d /\ e.path = <<>>
           /\ w = wire /\ q = srvQ /\ Route(r, e, TRUE, w, q)
<1> DEFINE e == [id |-> i, src |-> [rtr |-> r, srv |-> Self], dest |-> d, path |-> <<>>]
<1>1. e \in TreeRequest
  BY DEF TreeRequest
<1>2. Route(r, e, TRUE, wire, srvQ)
  BY DEF Ask
<1> HIDE DEF e
<1>3. PICK w, q : w = wire /\ q = srvQ
  OBVIOUS
<1>4. Route(r, e, TRUE, w, q)
  BY <1>2, <1>3 DEF Route
<1> QED BY <1>1, <1>3, <1>4 DEF e, TreeEvent

LEMMA PassSends ==
  ASSUME TreeTypeOK, Addressed, NEW s \in Rtrs(net), NEW r \in Rtrs(net), Pass(s, r)
  PROVE  \E e, w, q :
           /\ e \in TreeEvent
           /\ e = Head(wire[s][r]) /\ w = [wire EXCEPT ![s][r] = Tail(@)] /\ q = srvQ
           /\ w \in [Rtrs(net) -> [Rtrs(net) -> Seq(TreeEvent)]]
           /\ Route(r, e, FALSE, w, q)
<1>1. wire[s][r] \in Seq(TreeEvent) /\ wire[s][r] # <<>> /\ wire[s] \in [Rtrs(net) -> Seq(TreeEvent)]
  BY DEF TreeTypeOK, Pass
<1>2. Head(wire[s][r]) \in TreeEvent /\ Tail(wire[s][r]) \in Seq(TreeEvent)
  BY <1>1
<1>3. PICK e, w, q : e = Head(wire[s][r]) /\ w = [wire EXCEPT ![s][r] = Tail(@)] /\ q = srvQ
  OBVIOUS
<1>4. Route(r, e, FALSE, w, q)
  BY <1>3 DEF Pass, Route
<1>5. w \in [Rtrs(net) -> [Rtrs(net) -> Seq(TreeEvent)]]
  BY <1>1, <1>2, <1>3 DEF TreeTypeOK
<1> QED BY <1>2, <1>3, <1>4, <1>5

LEMMA SrvSends ==
  ASSUME TreeTypeOK, Addressed, NEW d \in Here, SrvReplies(d)
  PROVE  \E e, w, q :
           /\ e \in TreeEvent
           /\ e \in TreeReply /\ e.src = d /\ e.path = <<>>
           /\ w = wire /\ q = [srvQ EXCEPT ![d] = Tail(@)]
           /\ q \in [Servers -> Seq(TreeRequest)]
           /\ \A c \in Servers : \A i \in 1..Len(q[c]) : q[c][i].dest = c
           /\ Route(d.rtr, e, FALSE, w, q)
<1> DEFINE h == Head(srvQ[d])
           e == [id |-> h.id, src |-> h.dest, dest |-> h.src, path |-> <<>>]
<1>1. d \in Servers /\ srvQ[d] \in Seq(TreeRequest) /\ srvQ[d] # <<>>
  BY DEF TreeTypeOK, SrvReplies, Here
<1>2. h \in TreeRequest /\ h.dest = d
  BY <1>1 DEF Addressed
<1>3. e \in TreeReply /\ e.src = d /\ e.path = <<>>
  BY <1>2 DEF TreeRequest, TreeReply
<1>4. PICK w, q : w = wire /\ q = [srvQ EXCEPT ![d] = Tail(@)]
  OBVIOUS
<1>5. Route(d.rtr, e, FALSE, w, q)
  BY <1>4 DEF SrvReplies, Route
<1> HIDE DEF e, h
<1>6. q \in [Servers -> Seq(TreeRequest)]
  BY <1>1, <1>4 DEF TreeTypeOK
<1>7. ASSUME NEW c \in Servers PROVE \A i \in 1..Len(q[c]) : q[c][i].dest = c
  <2>1. \A i \in 1..Len(srvQ[c]) : srvQ[c][i].dest = c
    BY DEF Addressed
  <2>2. q[c] = IF c = d THEN Tail(srvQ[c]) ELSE srvQ[c]
    BY <1>4 DEF TreeTypeOK
  <2> QED BY <1>1, <2>1, <2>2
<1> QED BY <1>3, <1>4, <1>5, <1>6, <1>7 DEF TreeEvent

(* What waits for a server is put behind what it has been sent.            *)
Waiting(d) == [i \in DOMAIN pend[d] |-> pend[d][i].ev]

LEMMA WaitingFacts ==
  ASSUME TreeTypeOK, Addressed, NEW d \in Servers
  PROVE  /\ Waiting(d) \in Seq(TreeRequest) /\ Len(Waiting(d)) = Len(pend[d])
         /\ \A i \in 1..Len(pend[d]) : Waiting(d)[i] = pend[d][i].ev /\ Waiting(d)[i].dest = d
<1>1. pend[d] \in Seq([ev : TreeRequest, kept : BOOLEAN])
  BY DEF TreeTypeOK
<1>2. \A i \in 1..Len(pend[d]) : pend[d][i] \in [ev : TreeRequest, kept : BOOLEAN]
  BY <1>1, ElementOfSeq
<1>3. DOMAIN pend[d] = 1..Len(pend[d]) /\ Len(pend[d]) \in Nat
  BY <1>1
<1>4. \A i \in 1..Len(pend[d]) : pend[d][i].ev \in TreeRequest /\ pend[d][i].ev.dest = d
  BY <1>2 DEF Addressed
<1> QED BY <1>3, <1>4 DEF Waiting

LEMMA Joined ==
  ASSUME NEW S, NEW s \in Seq(S), NEW u \in Seq(S)
  PROVE  /\ s \o u \in Seq(S) /\ Len(s \o u) = Len(s) + Len(u)
         /\ Len(s) \in Nat /\ Len(u) \in Nat
         /\ \A i \in 1..Len(s \o u) :
              (s \o u)[i] = IF i <= Len(s) THEN s[i] ELSE u[i - Len(s)]
         /\ \A i \in 1..Len(s \o u) : i \in 1..Len(s) \/ (i > Len(s) /\ i - Len(s) \in 1..Len(u))
OBVIOUS

LEMMA TypesInit == TreeInit => TreeTypeOK /\ Addressed
<1> SUFFICES ASSUME TreeInit PROVE TreeTypeOK /\ Addressed
  OBVIOUS
<1>1. IsFiniteSet(asks)
  BY FS_EmptySet DEF TreeInit
<1> QED BY <1>1 DEF TreeInit, TreeTypeOK, Addressed

LEMMA TypesStep ==
  ASSUME TreeTypeOK, Addressed, [TreeNext]_treeVars
  PROVE  TreeTypeOK' /\ Addressed'
<1>1. ASSUME NEW r \in Rtrs(net), NEW d \in Here, NEW i \in Asks, Ask(r, d, i)
      PROVE  TreeTypeOK' /\ Addressed'
  <2>1. PICK e, w, q : e \in TreeEvent /\ w = wire /\ q = srvQ /\ Route(r, e, TRUE, w, q)
    BY <1>1, AskSends
  <2>2. /\ w \in [Rtrs(net) -> [Rtrs(net) -> Seq(TreeEvent)]] /\ q \in [Servers -> Seq(TreeRequest)]
        /\ \A c \in Servers : \A j \in 1..Len(q[c]) : q[c][j].dest = c
    BY <2>1 DEF TreeTypeOK, Addressed
  <2>3. UNCHANGED <<net, links, known>> /\ asks' = asks \union {[id |-> i, at |-> r, of |-> d]}
    BY <1>1 DEF Ask
  <2>4. asks' \subseteq [id : Asks, at : Rtrs(net), of : Here] /\ IsFiniteSet(asks')
    <3>1. [id |-> i, at |-> r, of |-> d] \in [id : Asks, at : Rtrs(net), of : Here]
      OBVIOUS
    <3>2. IsFiniteSet(asks) /\ asks \subseteq [id : Asks, at : Rtrs(net), of : Here]
      BY DEF TreeTypeOK
    <3>3. IsFiniteSet(asks \union {[id |-> i, at |-> r, of |-> d]})
      BY <3>2, FS_AddElement
    <3> QED BY <2>3, <3>1, <3>2, <3>3
  <2> QED BY <2>1, <2>2, <2>3, <2>4, RouteTypes
<1>2. ASSUME NEW s \in Rtrs(net), NEW r \in Rtrs(net), Pass(s, r)
      PROVE  TreeTypeOK' /\ Addressed'
  <2>1. PICK e, w, q :
          /\ e \in TreeEvent
          /\ q = srvQ /\ w \in [Rtrs(net) -> [Rtrs(net) -> Seq(TreeEvent)]]
          /\ Route(r, e, FALSE, w, q)
    BY <1>2, PassSends
  <2>2. /\ q \in [Servers -> Seq(TreeRequest)]
        /\ \A c \in Servers : \A j \in 1..Len(q[c]) : q[c][j].dest = c
    BY <2>1 DEF TreeTypeOK, Addressed
  <2>3. UNCHANGED <<net, links, known, asks>>
    BY <1>2 DEF Pass
  <2>4. asks' \subseteq [id : Asks, at : Rtrs(net), of : Here] /\ IsFiniteSet(asks')
    BY <2>3 DEF TreeTypeOK
  <2> QED BY <2>1, <2>2, <2>3, <2>4, RouteTypes
<1>3. ASSUME NEW d \in Here, SrvReplies(d)
      PROVE  TreeTypeOK' /\ Addressed'
  <2>1. PICK e, w, q :
          /\ e \in TreeEvent
          /\ w = wire /\ q \in [Servers -> Seq(TreeRequest)]
          /\ \A c \in Servers : \A i \in 1..Len(q[c]) : q[c][i].dest = c
          /\ Route(d.rtr, e, FALSE, w, q)
    BY <1>3, SrvSends
  <2>2. w \in [Rtrs(net) -> [Rtrs(net) -> Seq(TreeEvent)]] /\ d.rtr \in Rtrs(net)
    BY <2>1 DEF TreeTypeOK, Here
  <2>3. UNCHANGED <<net, links, known, asks>>
    BY <1>3 DEF SrvReplies
  <2>4. asks' \subseteq [id : Asks, at : Rtrs(net), of : Here] /\ IsFiniteSet(asks')
    BY <2>3 DEF TreeTypeOK
  <2> QED BY <2>1, <2>2, <2>3, <2>4, RouteTypes
<1>4. ASSUME NEW d \in Here, SrvConnects(d)
      PROVE  TreeTypeOK' /\ Addressed'
  <2> USE DEF TreeTypeOK
  <2>1. /\ d \in Servers /\ UNCHANGED <<net, links, wire, open, asks, back>>
        /\ known' = known \union {d} /\ pend' = [pend EXCEPT ![d] = <<>>]
        /\ \/ /\ srvQ' = [srvQ EXCEPT ![d] = @ \o Waiting(d)]
              /\ seen' = [seen EXCEPT ![d] = @ \o Waiting(d)]
              /\ UNCHANGED rtr
           \/ rtr' = [rtr EXCEPT ![d.rtr] = "undefined"] /\ UNCHANGED <<srvQ, seen>>
    BY <1>4 DEF SrvConnects, Here, Waiting, RtrEnds
  <2>2. Here' = Here /\ TreeRequest' = TreeRequest /\ TreeEvent' = TreeEvent /\ Rtrs(net)' = Rtrs(net)
    BY <2>1, NetStays
  <2>3. /\ srvQ[d] \o Waiting(d) \in Seq(TreeRequest) /\ seen[d] \o Waiting(d) \in Seq(TreeRequest)
        /\ \A i \in 1..Len(srvQ[d] \o Waiting(d)) : (srvQ[d] \o Waiting(d))[i].dest = d
        /\ \A i \in 1..Len(seen[d] \o Waiting(d)) : (seen[d] \o Waiting(d))[i].dest = d
    <3>1. srvQ[d] \in Seq(TreeRequest) /\ seen[d] \in Seq(TreeRequest)
      BY <2>1
    <3>2. /\ \A i \in 1..Len(srvQ[d]) : srvQ[d][i].dest = d
          /\ \A i \in 1..Len(seen[d]) : seen[d][i].dest = d
      BY <2>1 DEF Addressed
    <3>3. /\ Waiting(d) \in Seq(TreeRequest)
          /\ \A i \in 1..Len(Waiting(d)) : Waiting(d)[i].dest = d
      BY <2>1, WaitingFacts
    <3> QED BY <3>1, <3>2, <3>3, Joined
  <2>4. srvQ' \in [Servers -> Seq(TreeRequest)] /\ seen' \in [Servers -> Seq(TreeRequest)]
    BY <2>1, <2>3
  <2>5. pend' \in [Servers -> Seq([ev : TreeRequest, kept : BOOLEAN])]
    <3> DEFINE W == [ev : TreeRequest, kept : BOOLEAN]
    <3>1. pend \in [Servers -> Seq(W)] /\ pend' = [pend EXCEPT ![d] = <<>>]
      BY <2>1
    <3> HIDE DEF W, TreeTypeOK
    <3>2. <<>> \in Seq(W)
      OBVIOUS
    <3>3. pend' \in [Servers -> Seq(W)]
      BY <3>1, <3>2
    <3> QED BY <3>3 DEF W
  <2>6. rtr' \in [Rtrs(net) -> {"runs", "killed", "aborted", "undefined"}]
    BY <2>1
  <2>7. ASSUME NEW c \in Servers
        PROVE  /\ \A i \in 1..Len(pend'[c]) : pend'[c][i].ev.dest = c
               /\ \A i \in 1..Len(srvQ'[c]) : srvQ'[c][i].dest = c
               /\ \A i \in 1..Len(seen'[c]) : seen'[c][i].dest = c
    <3>1. CASE c = d
      <4>1. pend'[c] = <<>>
        BY <2>1, <3>1
      <4>2. \A i \in 1..Len(pend'[c]) : pend'[c][i].ev.dest = c
        BY <4>1
      <4>3. \A i \in 1..Len(srvQ'[c]) : srvQ'[c][i].dest = c
        <5>1. CASE srvQ'[c] = srvQ[c]
          BY <5>1 DEF Addressed
        <5>2. CASE srvQ'[c] = srvQ[d] \o Waiting(d)
          BY <3>1, <5>2, <2>3
        <5> QED BY <2>1, <3>1, <5>1, <5>2
      <4>4. \A i \in 1..Len(seen'[c]) : seen'[c][i].dest = c
        <5>1. CASE seen'[c] = seen[c]
          BY <5>1 DEF Addressed
        <5>2. CASE seen'[c] = seen[d] \o Waiting(d)
          BY <3>1, <5>2, <2>3
        <5> QED BY <2>1, <3>1, <5>1, <5>2
      <4> QED BY <4>2, <4>3, <4>4
    <3>2. CASE c # d
      BY <2>1, <3>2 DEF Addressed
    <3> QED BY <3>1, <3>2
  <2>8. TreeTypeOK'
    BY <2>1, <2>2, <2>4, <2>5, <2>6
  <2> QED BY <2>7, <2>8 DEF Addressed
<1>5. ASSUME NEW r \in Rtrs(net), RtrDies(r)
      PROVE  TreeTypeOK' /\ Addressed'
  BY <1>5, NetStays DEF RtrDies, RtrEnds, TreeTypeOK, Addressed
<1>6. ASSUME NEW r \in Rtrs(net), NEW s \in Rtrs(net), EndOfFile(r, s)
      PROVE  TreeTypeOK' /\ Addressed'
  BY <1>6, NetStays DEF EndOfFile, RtrEnds, TreeTypeOK, Addressed
<1>7. CASE UNCHANGED treeVars
  BY <1>7, NetStays DEF treeVars, TreeTypeOK, Addressed
<1> QED BY <1>1, <1>2, <1>3, <1>4, <1>5, <1>6, <1>7 DEF TreeNext, TreeWork

-----------------------------------------------------------------------------
(* No detours.  An event on a link is for a router behind it, and has come *)
(* from none that is behind it.                                            *)
OnCourse(s, r, e) ==
  /\ r \in Behind(net, s, r) /\ e.dest.rtr \in Behind(net, s, r)
  /\ \A j \in 1..Len(e.path) : e.path[j] \notin Behind(net, s, r)
  /\ IsInjective(e.path)

NoneTwice ==
  /\ \A s, r \in Rtrs(net) : \A i \in 1..Len(wire[s][r]) : OnCourse(s, r, wire[s][r][i])
  /\ \A d \in Servers : \A i \in 1..Len(pend[d]) : IsInjective(pend[d][i].ev.path)
  /\ \A d \in Servers : \A i \in 1..Len(seen[d]) : IsInjective(seen[d][i].path)

(* An event at r that can go on: it has not been here, nor where it goes.  *)
NewAt(r, e) ==
  /\ IsInjective(e.path)
  /\ \A j \in 1..Len(e.path) :
       /\ e.path[j] # r
       /\ e.dest.rtr # r => e.path[j] \notin Behind(net, r, Channel(r, e.dest.rtr))

LEMMA HopAhead ==
  ASSUME TreeTypeOK, SaysSo(net), NEW r \in Rtrs(net), NEW x \in Rtrs(net), x # r
  PROVE  Channel(r, x) \in Rtrs(net) /\ x \in Behind(net, r, Channel(r, x))
<1> DEFINE ls == Links(net[r])
           down == {i \in 2..Len(ls) : ls[i].start <= x /\ x <= ls[i].stop}
<1>1. net \in Nets /\ links[r] = ls /\ net[r] \in Seq(Arg)
  BY TreeAssumption DEF TreeTypeOK
<1>2. /\ Len(ls) = Len(net[r]) /\ (ls = <<>> <=> Len(ls) = 0)
      /\ \A i \in 1..Len(net[r]) : ls[i].other = net[r][i].other
      /\ \A i \in 2..Len(net[r]) : ls[i].start = net[r][i].start /\ ls[i].stop = net[r][i].stop
  <2>1. /\ Len(ls) = Len(net[r])
        /\ \A i \in 1..Len(net[r]) :
             /\ ls[i].other = net[r][i].other
             /\ i > 1 => ls[i].start = net[r][i].start /\ ls[i].stop = net[r][i].stop
    BY <1>1, SaidLinks
  <2>2. ls = <<>> <=> Len(ls) = 0
    BY <1>1, LinkFacts
  <2> QED BY <1>1, <2>1, <2>2
<1>3. Channel(r, x) = IF ls = <<>> THEN NoRtr ELSE ls[IF down = {} THEN 1 ELSE Min(down)].other
  BY <1>1 DEF Channel
<1>4. down = Ranges(net, r, x)
  BY <1>2 DEF Ranges
<1>5. PICK h \in Rtrs(net) : x \in Behind(net, r, h)
  BY <1>1, TreesAgree DEF Agree
<1>6. Ranges(net, r, x) \subseteq 2..Len(net[r])
  BY DEF Ranges
<1> HIDE DEF down, ls
<1>7. CASE Ranges(net, r, x) = {}
  <2>1. net[r] # <<>>
    BY <1>5, <1>7 DEF Behind
  <2>2. 1 \in 1..Len(net[r]) /\ Len(net[r]) # 0
    BY <1>1, <2>1
  <2>3. Channel(r, x) = net[r][1].other
    BY <1>2, <1>3, <1>4, <1>7, <2>2
  <2>4. net[r][1].other \in Rtrs(net)
    BY <1>1, <2>2, TreeAssumption
  <2> QED BY <1>7, <2>1, <2>3, <2>4 DEF Behind
<1>8. CASE Ranges(net, r, x) # {}
  <2>1. Len(net[r]) \in Nat
    BY <1>1
  <2>2. Ranges(net, r, x) \subseteq Nat
    BY <1>6, <2>1
  <2>3. PICK i \in Ranges(net, r, x) : i = Min(down)
    BY <1>4, <1>8, <2>2, MinFacts
  <2>4. i \in 1..Len(net[r]) /\ Len(ls) # 0
    BY <1>2, <1>6, <2>1, <2>3
  <2>5. Channel(r, x) = net[r][i].other
    BY <1>2, <1>3, <1>4, <1>8, <2>3, <2>4
  <2>6. net[r][i].other \in Rtrs(net)
    BY <1>1, <2>4, TreeAssumption
  <2> QED BY <1>8, <2>3, <2>5, <2>6 DEF Behind
<1> QED BY <1>7, <1>8

(* From where a link leads, the event is sent on behind the same link.     *)
LEMMA ComesNew ==
  ASSUME TreeTypeOK, SaysSo(net), NEW s \in Rtrs(net), NEW r \in Rtrs(net), NEW e \in TreeEvent,
         OnCourse(s, r, e)
  PROVE  NewAt(r, e)
<1>1. net \in Nets /\ e.dest.rtr \in Rtrs(net)
  BY EventFacts DEF TreeTypeOK
<1>2. ASSUME e.dest.rtr # r
      PROVE  Behind(net, r, Channel(r, e.dest.rtr)) \subseteq Behind(net, s, r)
  <2>1. Channel(r, e.dest.rtr) \in Rtrs(net) /\ e.dest.rtr \in Behind(net, r, Channel(r, e.dest.rtr))
    BY <1>1, <1>2, HopAhead
  <2>2. Behind(net, s, r) # {}
        /\ Behind(net, r, Channel(r, e.dest.rtr)) \cap Behind(net, s, r) # {}
    BY <2>1 DEF OnCourse
  <2>3. \A g \in Rtrs(net) : Behind(net, r, g) \cap Behind(net, s, r) # {} =>
                               Behind(net, r, g) \subseteq Behind(net, s, r)
    BY <1>1, <2>2, TreesAgree DEF Agree
  <2> QED BY <2>1, <2>2, <2>3
<1> QED BY <1>2 DEF OnCourse, NewAt

LEMMA StampedOnce ==
  ASSUME NEW r \in Rtrs(net), NEW e \in TreeEvent, NEW f, net \in Nets, Stamped(f, e, r), NewAt(r, e)
  PROVE  IsInjective(f.path) /\ \A j \in 1..Len(f.path) :
                                  f.path[j] = r \/ \E k \in 1..Len(e.path) : f.path[j] = e.path[k]
<1>1. e.path \in Seq(Rtrs(net))
  BY EventFacts
<1>2. CASE f.path = e.path
  BY <1>1, <1>2 DEF NewAt
<1>3. CASE f.path = Append(e.path, r)
  <2>1. /\ Len(f.path) = Len(e.path) + 1 /\ DOMAIN f.path = 1..Len(f.path)
        /\ Len(e.path) \in Nat /\ DOMAIN e.path = 1..Len(e.path)
        /\ \A i \in 1..Len(f.path) : f.path[i] = IF i = Len(e.path) + 1 THEN r ELSE e.path[i]
    BY <1>1, <1>3, Appended
  <2>2. /\ \A i \in 1..Len(e.path) : e.path[i] # r
        /\ \A i, j \in 1..Len(e.path) : e.path[i] = e.path[j] => i = j
    BY <2>1 DEF NewAt, IsInjective
  <2>3. IsInjective(f.path)
    BY <2>1, <2>2 DEF IsInjective
  <2> QED BY <2>1, <2>3
<1> QED BY <1>2, <1>3 DEF Stamped

LEMMA RouteOnCourse ==
  ASSUME TreeTypeOK, Addressed, SaysSo(net), NoneTwice, NEW r \in Rtrs(net), NEW e \in TreeEvent,
         NewAt(r, e), NEW kept \in BOOLEAN, NEW q,
         NEW w \in [Rtrs(net) -> [Rtrs(net) -> Seq(TreeEvent)]],
         \A s, t \in Rtrs(net) : \A i \in 1..Len(w[s][t]) : OnCourse(s, t, w[s][t][i]),
         Route(r, e, kept, w, q), net' = net
  PROVE  NoneTwice'
<1>1. PICK f : /\ Stamped(f, e, r)
               /\ \/ Fails(r, e, w, q)
                  \/ \E h : GoesOn(r, h, e, f, w, q)
                  \/ IsBack(r, e, w, q)
                  \/ Reaches(r, e, f, w, q)
                  \/ HasToWait(r, e, f, kept, w, q)
  BY RouteCases
<1>2. net \in Nets /\ e.dest.rtr \in Rtrs(net) /\ Rtrs(net)' = Rtrs(net)
  BY EventFacts, NetStays DEF TreeTypeOK
<1>3. /\ IsInjective(f.path)
      /\ \A j \in 1..Len(f.path) : f.path[j] = r \/ \E k \in 1..Len(e.path) : f.path[j] = e.path[k]
  BY <1>1, <1>2, StampedOnce
<1>4. \A s, t, g : OnCourse(s, t, g)' = OnCourse(s, t, g)
  BY DEF OnCourse
<1>5. CASE Fails(r, e, w, q) \/ IsBack(r, e, w, q)
  BY <1>2, <1>4, <1>5 DEF Fails, IsBack, NoneTwice
<1>6. ASSUME NEW h, GoesOn(r, h, e, f, w, q) PROVE NoneTwice'
  <2>1. /\ e.dest.rtr # r /\ h = Channel(r, e.dest.rtr) /\ h \in Rtrs(net)
        /\ e.dest.rtr \in Behind(net, r, h)
    BY <1>2, <1>6, HopAhead DEF GoesOn
  <2>2. h \in Behind(net, r, h)
    BY <1>2, <2>1, TreesAgree DEF Agree
  <2>3. r \notin Behind(net, r, h)
    BY DEF Behind
  <2>4. OnCourse(r, h, f)
    <3>1. \A k \in 1..Len(e.path) : e.path[k] \notin Behind(net, r, h)
      BY <2>1 DEF NewAt
    <3>2. \A j \in 1..Len(f.path) : f.path[j] \notin Behind(net, r, h)
      BY <1>3, <2>3, <3>1
    <3>3. f.dest.rtr \in Behind(net, r, h)
      BY <1>1, <2>1 DEF Stamped
    <3> QED BY <1>3, <2>2, <3>2, <3>3 DEF OnCourse
  <2>5. ASSUME NEW s \in Rtrs(net), NEW t \in Rtrs(net), NEW i \in 1..Len(wire'[s][t])
        PROVE  OnCourse(s, t, wire'[s][t][i])
    <3>1. w[s][t] \in Seq(TreeEvent)
      OBVIOUS
    <3>2. wire'[s][t] = IF s = r /\ t = h THEN Append(w[s][t], f) ELSE w[s][t]
      BY <1>6, <2>1 DEF GoesOn
    <3>3. CASE s = r /\ t = h
      BY <2>4, <3>1, <3>2, <3>3, Appended
    <3>4. CASE ~(s = r /\ t = h)
      BY <3>2, <3>4
    <3> QED BY <3>3, <3>4
  <2> QED BY <1>2, <1>4, <1>6, <2>5 DEF GoesOn, NoneTwice
<1>7. CASE Reaches(r, e, f, w, q)
  <2>1. ASSUME NEW d \in Servers, NEW i \in 1..Len(seen'[d]) PROVE IsInjective(seen'[d][i].path)
    <3>1. seen[d] \in Seq(TreeRequest) /\ \A j \in 1..Len(seen[d]) : IsInjective(seen[d][j].path)
      BY DEF TreeTypeOK, NoneTwice
    <3>2. seen'[d] = IF d = e.dest THEN Append(seen[d], f) ELSE seen[d]
      BY <1>7 DEF Reaches, TreeTypeOK
    <3> QED BY <1>3, <3>1, <3>2, Appended
  <2> QED BY <1>2, <1>4, <1>7, <2>1 DEF Reaches, NoneTwice
<1>8. CASE HasToWait(r, e, f, kept, w, q)
  <2>1. ASSUME NEW d \in Servers, NEW i \in 1..Len(pend'[d]) PROVE IsInjective(pend'[d][i].ev.path)
    <3> DEFINE it == [ev |-> f, kept |-> kept]
               W == [ev : TreeRequest, kept : BOOLEAN]
    <3>1. pend \in [Servers -> Seq(W)] /\ \A j \in 1..Len(pend[d]) : IsInjective(pend[d][j].ev.path)
      BY DEF TreeTypeOK, NoneTwice
    <3>2. it.ev = f /\ pend' = [pend EXCEPT ![e.dest] = Append(@, it)]
      BY <1>8 DEF HasToWait
    <3> HIDE DEF it, W
    <3>3. pend'[d] = IF d = e.dest THEN Append(pend[d], it) ELSE pend[d]
      BY <3>1, <3>2
    <3>4. pend[d] \in Seq(W)
      BY <3>1
    <3> QED BY <1>3, <3>1, <3>2, <3>3, <3>4, Appended
  <2> QED BY <1>2, <1>4, <1>8, <2>1 DEF HasToWait, NoneTwice
<1> QED BY <1>1, <1>5, <1>6, <1>7, <1>8

LEMMA NoneTwiceStep ==
  ASSUME TreeTypeOK, Addressed, SaysSo(net), NoneTwice, [TreeNext]_treeVars
  PROVE  NoneTwice'
<1> USE DEF NoneTwice
<1>1. ASSUME NEW r \in Rtrs(net), NEW d \in Here, NEW i \in Asks, Ask(r, d, i)
      PROVE  NoneTwice'
  <2>1. PICK e, w, q :
           e \in TreeEvent /\
           e.path = <<>> /\ w = wire /\ q = srvQ /\ Route(r, e, TRUE, w, q)
    BY <1>1, AskSends
  <2>2. NewAt(r, e)
    BY <2>1 DEF NewAt, IsInjective
  <2>3. /\ w \in [Rtrs(net) -> [Rtrs(net) -> Seq(TreeEvent)]] /\ net' = net
        /\ \A s, t \in Rtrs(net) : \A j \in 1..Len(w[s][t]) : OnCourse(s, t, w[s][t][j])
    BY <1>1, <2>1 DEF TreeTypeOK, Ask
  <2> HIDE DEF NoneTwice
  <2> QED BY <2>1, <2>2, <2>3, RouteOnCourse
<1>2. ASSUME NEW s \in Rtrs(net), NEW r \in Rtrs(net), Pass(s, r)
      PROVE  NoneTwice'
  <2>1. PICK e, w, q :
          /\ e \in TreeEvent
          /\ e = Head(wire[s][r]) /\ w = [wire EXCEPT ![s][r] = Tail(@)]
          /\ w \in [Rtrs(net) -> [Rtrs(net) -> Seq(TreeEvent)]]
          /\ Route(r, e, FALSE, w, q)
    BY <1>2, PassSends
  <2>2. net' = net /\ wire[s][r] \in Seq(TreeEvent) /\ wire[s][r] # <<>>
    BY <1>2 DEF Pass, TreeTypeOK
  <2>3. OnCourse(s, r, e)
    BY <2>1, <2>2
  <2>4. NewAt(r, e)
    BY <2>1, <2>3, ComesNew
  <2>5. ASSUME NEW t \in Rtrs(net), NEW u \in Rtrs(net), NEW j \in 1..Len(w[t][u])
        PROVE  OnCourse(t, u, w[t][u][j])
    <3>1. w[t][u] = IF t = s /\ u = r THEN Tail(wire[t][u]) ELSE wire[t][u]
      BY <2>1 DEF TreeTypeOK
    <3>2. CASE t = s /\ u = r
      BY <2>2, <3>1, <3>2
    <3>3. CASE ~(t = s /\ u = r)
      BY <3>1, <3>3
    <3> QED BY <3>2, <3>3
  <2> HIDE DEF NoneTwice
  <2> QED BY <2>1, <2>2, <2>4, <2>5, RouteOnCourse
<1>3. ASSUME NEW d \in Here, SrvReplies(d)
      PROVE  NoneTwice'
  <2>1. PICK e, w, q : e \in TreeEvent /\ e.path = <<>> /\ w = wire /\ Route(d.rtr, e, FALSE, w, q)
    BY <1>3, SrvSends
  <2>2. NewAt(d.rtr, e)
    BY <2>1 DEF NewAt, IsInjective
  <2>3. /\ w \in [Rtrs(net) -> [Rtrs(net) -> Seq(TreeEvent)]] /\ net' = net /\ d.rtr \in Rtrs(net)
        /\ \A s, t \in Rtrs(net) : \A j \in 1..Len(w[s][t]) : OnCourse(s, t, w[s][t][j])
    BY <1>3, <2>1 DEF TreeTypeOK, SrvReplies, Here
  <2> HIDE DEF NoneTwice
  <2> QED BY <2>1, <2>2, <2>3, RouteOnCourse
<1>4. ASSUME NEW d \in Here, SrvConnects(d)
      PROVE  NoneTwice'
  <2>1. /\ d \in Servers /\ UNCHANGED <<net, wire>> /\ pend' = [pend EXCEPT ![d] = <<>>]
        /\ seen' = seen \/ seen' = [seen EXCEPT ![d] = @ \o Waiting(d)]
    BY <1>4 DEF SrvConnects, Here, Waiting
  <2>2. ASSUME NEW c \in Servers, NEW i \in 1..Len(seen'[c]) PROVE IsInjective(seen'[c][i].path)
    <3>1. seen[c] \in Seq(TreeRequest) /\ \A j \in 1..Len(seen[c]) : IsInjective(seen[c][j].path)
      BY DEF TreeTypeOK
    <3>2. /\ Waiting(c) \in Seq(TreeRequest)
          /\ \A j \in 1..Len(Waiting(c)) : IsInjective(Waiting(c)[j].path)
      BY WaitingFacts
    <3>3. seen'[c] = seen[c] \/ seen'[c] = seen[c] \o Waiting(c)
      BY <2>1 DEF TreeTypeOK
    <3>4. CASE seen'[c] = seen[c]
      BY <3>1, <3>4
    <3>5. CASE seen'[c] = seen[c] \o Waiting(c)
      BY <3>1, <3>2, <3>5, Joined
    <3> QED BY <3>3, <3>4, <3>5
  <2>3. ASSUME NEW c \in Servers, NEW i \in 1..Len(pend'[c]) PROVE IsInjective(pend'[c][i].ev.path)
    BY <2>1 DEF TreeTypeOK
  <2>4. \A s, t, g : OnCourse(s, t, g)' = OnCourse(s, t, g)
    BY <2>1 DEF OnCourse
  <2> QED BY <2>1, <2>2, <2>3, <2>4, NetStays
<1>5. CASE \/ \E r \in Rtrs(net) : RtrDies(r)
           \/ \E r, s \in Rtrs(net) : EndOfFile(r, s)
           \/ UNCHANGED treeVars
  <2>1. UNCHANGED <<net, wire, pend, seen>>
    BY <1>5 DEF RtrDies, EndOfFile, treeVars
  <2>2. \A s, t, g : OnCourse(s, t, g)' = OnCourse(s, t, g)
    BY <2>1 DEF OnCourse
  <2> QED BY <2>1, <2>2, NetStays
<1> QED BY <1>1, <1>2, <1>3, <1>4, <1>5 DEF TreeNext, TreeWork

-----------------------------------------------------------------------------
(* Who is to blame.  A server is asked from elsewhere.                     *)
Foreign(d) == \E q \in asks : q.of = d /\ q.at # d.rtr

Linked(r, h) == \E i \in DOMAIN links[r] : links[r][i].other = h

Traced ==
  /\ \A r, h \in Rtrs(net) : <<r, h>> \in open => Linked(r, h)
  /\ \A s, r \in Rtrs(net) : \A i \in 1..Len(wire[s][r]) :
       wire[s][r][i] \in TreeRequest => Foreign(wire[s][r][i].dest)
  /\ \A d \in Servers : \A i \in 1..Len(pend[d]) : ~pend[d][i].kept => Foreign(d)

(* A router that ends leaves the others as they are, and stays ended.      *)
LEMMA EndsBlameless ==
  ASSUME TreeTypeOK, TreeBlameless, NEW r \in Rtrs(net), rtr[r] = "runs",
         NEW how \in {"killed", "aborted", "undefined"}, RtrEnds(r, how), UNCHANGED <<net, links>>,
         how = "aborted" => ~SaysSo(net) \/ \E h \in Rtrs(net) : Linked(r, h) /\ rtr[h] # "runs",
         how = "undefined" => \E q \in asks : q.of.rtr = r /\ q.at # r,
         asks \subseteq asks'
  PROVE  TreeBlameless'
<1>1. rtr \in [Rtrs(net) -> {"runs", "killed", "aborted", "undefined"}] /\ net \in Nets
  BY DEF TreeTypeOK
<1>2. /\ rtr'[r] = how /\ \A s \in Rtrs(net) \ {r} : rtr'[s] = rtr[s]
      /\ \A s \in Rtrs(net) : rtr[s] # "runs" => rtr'[s] # "runs"
  BY <1>1 DEF RtrEnds
<1>3. Rtrs(net)' = Rtrs(net) /\ (SaysSo(net))' = SaysSo(net) /\ NoRtr \notin Rtrs(net)
  BY <1>1, TreeAssumption DEF Rtrs, SaysSo
<1>4. \A s \in Rtrs(net) : \A i \in DOMAIN links[s] : links[s][i].other \in Rtrs(net) \union {NoRtr}
  BY <1>1, LinkFacts DEF TreeTypeOK
<1>5. ASSUME NEW s \in Rtrs(net), rtr'[s] = "aborted", SaysSo(net)
      PROVE  \E i \in DOMAIN links[s] : links[s][i].other # NoRtr /\ rtr'[links[s][i].other] # "runs"
  <2>1. CASE s = r
    <3>1. PICK h \in Rtrs(net) : Linked(r, h) /\ rtr[h] # "runs"
      BY <1>2, <1>5, <2>1
    <3> QED BY <1>2, <1>3, <2>1, <3>1 DEF Linked
  <2>2. CASE s # r
    <3>1. PICK i \in DOMAIN links[s] : links[s][i].other # NoRtr /\ rtr[links[s][i].other] # "runs"
      BY <1>2, <1>5, <2>2 DEF TreeBlameless
    <3> QED BY <1>2, <1>4, <3>1
  <2> QED BY <2>1, <2>2
<1>6. ASSUME NEW s \in Rtrs(net), rtr'[s] = "undefined"
      PROVE  \E q \in asks' : q.of.rtr = s /\ q.at # s
  BY <1>2, <1>6 DEF TreeBlameless
<1> QED BY <1>3, <1>5, <1>6 DEF TreeBlameless

LEMMA RunsBlameless ==
  ASSUME TreeBlameless, UNCHANGED <<net, links, rtr>>, asks \subseteq asks'
  PROVE  TreeBlameless'
BY DEF TreeBlameless, SaysSo, Rtrs

LEMMA RouteTraced ==
  ASSUME TreeTypeOK, Traced, TreeBlameless, NEW r \in Rtrs(net), NEW e \in TreeEvent,
         NEW kept \in BOOLEAN, NEW q, NEW w \in [Rtrs(net) -> [Rtrs(net) -> Seq(TreeEvent)]],
         \A s, t \in Rtrs(net) : \A i \in 1..Len(w[s][t]) :
           w[s][t][i] \in TreeRequest => Foreign(w[s][t][i].dest),
         Route(r, e, kept, w, q), rtr[r] = "runs", UNCHANGED <<net, links>>, asks \subseteq asks',
         e \in TreeRequest /\ (e.dest.rtr # r \/ ~kept) =>
           \E ask \in asks' : ask.of = e.dest /\ ask.at # e.dest.rtr
  PROVE  Traced' /\ TreeBlameless'
<1>1. PICK f : /\ Stamped(f, e, r)
               /\ \/ Fails(r, e, w, q)
                  \/ \E h : GoesOn(r, h, e, f, w, q)
                  \/ IsBack(r, e, w, q)
                  \/ Reaches(r, e, f, w, q)
                  \/ HasToWait(r, e, f, kept, w, q)
  BY RouteCases
<1>2. /\ net \in Nets /\ e.dest.rtr \in Rtrs(net)
      /\ Rtrs(net)' = Rtrs(net) /\ TreeRequest' = TreeRequest
      /\ f \in TreeEvent /\ f.dest = e.dest /\ (f \in TreeRequest <=> e \in TreeRequest)
  BY <1>1, EventFacts, NetStays DEF TreeTypeOK, Stamped
<1>3. \A d : Foreign(d) => Foreign(d)'
  BY DEF Foreign
<1>4. \A s, t : Linked(s, t)' = Linked(s, t)
  BY DEF Linked
<1>5. /\ \A s, t \in Rtrs(net) : <<s, t>> \in open => Linked(s, t)'
      /\ \A s, t \in Rtrs(net) : \A i \in 1..Len(w[s][t]) :
           w[s][t][i] \in TreeRequest => Foreign(w[s][t][i].dest)'
      /\ \A d \in Servers : \A i \in 1..Len(pend[d]) : ~pend[d][i].kept => Foreign(d)'
  BY <1>3, <1>4 DEF Traced
<1>6. CASE Fails(r, e, w, q)
  <2>1. Traced'
    BY <1>2, <1>5, <1>6 DEF Fails, Traced
  <2>2. ASSUME SaysSo(net) PROVE \E h \in Rtrs(net) : Linked(r, h) /\ rtr[h] # "runs"
    <3>1. e.dest.rtr # r /\ Channel(r, e.dest.rtr) \in Rtrs(net) /\ NoRtr \notin Rtrs(net)
      BY <1>2, <1>6, <2>2, HopAhead, TreeAssumption DEF Fails
    <3> QED BY <1>6, <3>1, HopFacts DEF Fails, Linked
  <2>3. RtrEnds(r, "aborted")
    BY <1>6 DEF Fails, RtrEnds
  <2> QED BY <2>1, <2>2, <2>3, EndsBlameless
<1>7. ASSUME NEW h, GoesOn(r, h, e, f, w, q) PROVE Traced' /\ TreeBlameless'
  <2>1. h \in Rtrs(net) /\ h = Channel(r, e.dest.rtr) /\ e.dest.rtr # r /\ UNCHANGED rtr
    BY <1>7 DEF GoesOn
  <2>2. Linked(r, h)'
    <3>1. h # NoRtr
      BY <1>2, <2>1, TreeAssumption
    <3>2. \E i \in DOMAIN links[r] : links[r][i].other = h
      BY <2>1, <3>1, HopFacts
    <3> QED BY <1>4, <3>2 DEF Linked
  <2>3. f \in TreeRequest => \E ask \in asks' : ask.of = f.dest /\ ask.at # f.dest.rtr
    BY <1>2, <2>1
  <2>4. ASSUME NEW s \in Rtrs(net), NEW t \in Rtrs(net), NEW i \in 1..Len(wire'[s][t]),
               wire'[s][t][i] \in TreeRequest
        PROVE  \E ask \in asks' : /\ ask.of = wire'[s][t][i].dest
                                  /\ ask.at # wire'[s][t][i].dest.rtr
    <3>1. w[s][t] \in Seq(TreeEvent)
      OBVIOUS
    <3>2. wire'[s][t] = IF s = r /\ t = h THEN Append(w[s][t], f) ELSE w[s][t]
      BY <1>7, <2>1 DEF GoesOn
    <3>3. \A j \in 1..Len(w[s][t]) : w[s][t][j] \in TreeRequest =>
            \E ask \in asks' : ask.of = w[s][t][j].dest /\ ask.at # w[s][t][j].dest.rtr
      BY <1>5 DEF Foreign
    <3>4. PICK g : g = wire'[s][t][i]
      OBVIOUS
    <3>5. g = f \/ \E j \in 1..Len(w[s][t]) : g = w[s][t][j]
      BY <3>1, <3>2, <3>4, Appended
    <3>6. \E ask \in asks' : ask.of = g.dest /\ ask.at # g.dest.rtr
      BY <2>3, <2>4, <3>3, <3>4, <3>5
    <3> QED BY <3>4, <3>6
  <2>5. \A s, t \in Rtrs(net) : <<s, t>> \in open' => Linked(s, t)'
    BY <1>5, <1>7, <2>2 DEF GoesOn
  <2>6. UNCHANGED pend
    BY <1>7 DEF GoesOn
  <2>7. Traced'
    <3>1. \A d \in Servers : \A i \in 1..Len(pend'[d]) : ~pend'[d][i].kept => Foreign(d)'
      BY <1>5, <2>6
    <3>2. \A s, t \in Rtrs(net)' : \A i \in 1..Len(wire'[s][t]) :
            wire'[s][t][i] \in TreeRequest' =>
              \E ask \in asks' : ask.of = wire'[s][t][i].dest /\ ask.at # wire'[s][t][i].dest.rtr
      BY <1>2, <2>4
    <3>3. \A s, t \in Rtrs(net)' : <<s, t>> \in open' => Linked(s, t)'
      BY <1>2, <2>5
    <3> HIDE DEF Linked
    <3> QED BY <3>1, <3>2, <3>3 DEF Traced, Foreign
  <2> QED BY <2>1, <2>7, RunsBlameless
<1>8. CASE IsBack(r, e, w, q) \/ Reaches(r, e, f, w, q)
  BY <1>2, <1>5, <1>8, RunsBlameless DEF IsBack, Reaches, Traced
<1>9. CASE HasToWait(r, e, f, kept, w, q)
  <2>1. ASSUME NEW d \in Servers, NEW i \in 1..Len(pend'[d]), ~pend'[d][i].kept
        PROVE  Foreign(d)'
    <3> DEFINE it == [ev |-> f, kept |-> kept]
               W == [ev : TreeRequest, kept : BOOLEAN]
    <3>1. it.kept = kept /\ pend' = [pend EXCEPT ![e.dest] = Append(@, it)] /\ e \in TreeRequest
      BY <1>9 DEF HasToWait
    <3>2. pend \in [Servers -> Seq(W)]
      BY DEF TreeTypeOK
    <3> HIDE DEF it, W
    <3>3. pend'[d] = IF d = e.dest THEN Append(pend[d], it) ELSE pend[d]
      BY <3>1, <3>2
    <3>4. pend[d] \in Seq(W)
      BY <3>2
    <3>5. CASE d = e.dest /\ i = Len(pend[d]) + 1
      <4>1. ~kept
        BY <2>1, <3>1, <3>3, <3>4, <3>5, Appended
      <4> QED BY <3>1, <3>5, <4>1 DEF Foreign
    <3>6. CASE ~(d = e.dest /\ i = Len(pend[d]) + 1)
      <4>1. i \in 1..Len(pend[d]) /\ pend'[d][i] = pend[d][i]
        BY <3>3, <3>4, <3>6, Appended
      <4> QED BY <1>5, <2>1, <4>1
    <3> QED BY <3>5, <3>6
  <2>2. Traced'
    BY <1>2, <1>5, <1>9, <2>1 DEF HasToWait, Traced
  <2> QED BY <1>9, <2>2, RunsBlameless DEF HasToWait
<1> QED BY <1>1, <1>6, <1>7, <1>8, <1>9

LEMMA TracedStep ==
  ASSUME TreeTypeOK, Addressed, Traced, TreeBlameless, [TreeNext]_treeVars
  PROVE  Traced' /\ TreeBlameless'
<1>1. ASSUME NEW r \in Rtrs(net), NEW d \in Here, NEW i \in Asks, Ask(r, d, i)
      PROVE  Traced' /\ TreeBlameless'
  <2>1. PICK e, w, q :
          e \in TreeEvent /\
          e \in TreeRequest /\ e.dest = d /\ w = wire /\ q = srvQ /\ Route(r, e, TRUE, w, q)
    BY <1>1, AskSends
  <2>2. /\ w \in [Rtrs(net) -> [Rtrs(net) -> Seq(TreeEvent)]]
        /\ \A s, t \in Rtrs(net) : \A j \in 1..Len(w[s][t]) :
             w[s][t][j] \in TreeRequest => Foreign(w[s][t][j].dest)
    BY <2>1 DEF TreeTypeOK, Traced
  <2>3. /\ UNCHANGED <<net, links>> /\ rtr[r] = "runs"
        /\ asks' = asks \union {[id |-> i, at |-> r, of |-> d]}
    BY <1>1 DEF Ask
  <2>4. e.dest.rtr # r => \E ask \in asks' : ask.of = e.dest /\ ask.at # e.dest.rtr
    <3> DEFINE new == [id |-> i, at |-> r, of |-> d]
    <3>1. new \in asks' /\ new.at = r /\ new.of = e.dest
      BY <2>1, <2>3
    <3> HIDE DEF new
    <3> QED BY <3>1
  <2>5. asks \subseteq asks'
    BY <2>3
  <2> QED BY <2>1, <2>2, <2>3, <2>4, <2>5, RouteTraced
<1>2. ASSUME NEW s \in Rtrs(net), NEW r \in Rtrs(net), Pass(s, r)
      PROVE  Traced' /\ TreeBlameless'
  <2>1. PICK e, w, q :
          /\ e \in TreeEvent
          /\ e = Head(wire[s][r]) /\ w = [wire EXCEPT ![s][r] = Tail(@)]
          /\ w \in [Rtrs(net) -> [Rtrs(net) -> Seq(TreeEvent)]]
          /\ Route(r, e, FALSE, w, q)
    BY <1>2, PassSends
  <2>2. /\ UNCHANGED <<net, links, asks>> /\ rtr[r] = "runs"
        /\ wire[s][r] \in Seq(TreeEvent) /\ wire[s][r] # <<>>
    BY <1>2 DEF Pass, TreeTypeOK
  <2>3. \A t, u \in Rtrs(net) : \A j \in 1..Len(wire[t][u]) :
          wire[t][u][j] \in TreeRequest => Foreign(wire[t][u][j].dest)
    BY DEF Traced
  <2>4. ASSUME NEW t \in Rtrs(net), NEW u \in Rtrs(net), NEW j \in 1..Len(w[t][u]),
               w[t][u][j] \in TreeRequest
        PROVE  Foreign(w[t][u][j].dest)
    <3>1. w[t][u] = IF t = s /\ u = r THEN Tail(wire[t][u]) ELSE wire[t][u]
      BY <2>1 DEF TreeTypeOK
    <3>2. CASE t = s /\ u = r
      <4>1. j + 1 \in 1..Len(wire[t][u]) /\ w[t][u][j] = wire[t][u][j + 1]
        BY <2>2, <3>1, <3>2
      <4> QED BY <2>3, <2>4, <4>1
    <3>3. CASE ~(t = s /\ u = r)
      BY <2>3, <2>4, <3>1, <3>3
    <3> QED BY <3>2, <3>3
  <2>5. e \in TreeRequest => Foreign(e.dest)
    BY <2>1, <2>2, <2>3
  <2>6. e \in TreeRequest => \E ask \in asks' : ask.of = e.dest /\ ask.at # e.dest.rtr
    BY <2>2, <2>5 DEF Foreign
  <2>7. asks \subseteq asks'
    BY <2>2
  <2>8. /\ \A t, u \in Rtrs(net) : \A j \in 1..Len(w[t][u]) :
             w[t][u][j] \in TreeRequest => Foreign(w[t][u][j].dest)
        /\ w \in [Rtrs(net) -> [Rtrs(net) -> Seq(TreeEvent)]] /\ Route(r, e, FALSE, w, q)
        /\ UNCHANGED <<net, links>> /\ rtr[r] = "runs"
    BY <2>1, <2>2, <2>4
  <2>9. e \in TreeEvent
    BY <2>1
  <2> QED BY <2>6, <2>7, <2>8, <2>9, RouteTraced
<1>3. ASSUME NEW d \in Here, SrvReplies(d)
      PROVE  Traced' /\ TreeBlameless'
  <2>1. PICK e, w, q :
          e \in TreeEvent /\
          e \in TreeReply /\ w = wire /\ Route(d.rtr, e, FALSE, w, q)
    BY <1>3, SrvSends
  <2>2. /\ w \in [Rtrs(net) -> [Rtrs(net) -> Seq(TreeEvent)]] /\ d.rtr \in Rtrs(net)
        /\ \A s, t \in Rtrs(net) : \A j \in 1..Len(w[s][t]) :
             w[s][t][j] \in TreeRequest => Foreign(w[s][t][j].dest)
    BY <2>1 DEF TreeTypeOK, Traced, Here
  <2>3. UNCHANGED <<net, links, asks>> /\ rtr[d.rtr] = "runs"
    BY <1>3 DEF SrvReplies
  <2>4. e \notin TreeRequest
    BY <2>1, EventFacts DEF TreeTypeOK
  <2> QED BY <2>1, <2>2, <2>3, <2>4, RouteTraced
<1>4. ASSUME NEW d \in Here, SrvConnects(d)
      PROVE  Traced' /\ TreeBlameless'
  <2>1. /\ d \in Servers /\ d.rtr \in Rtrs(net) /\ rtr[d.rtr] = "runs"
        /\ UNCHANGED <<net, links, wire, open, asks>>
        /\ pend' = [pend EXCEPT ![d] = <<>>]
    BY <1>4 DEF SrvConnects, Here
  <2>2. Traced'
    <3>1. /\ Rtrs(net)' = Rtrs(net) /\ TreeRequest' = TreeRequest
          /\ \A s, t : Linked(s, t)' = Linked(s, t)
          /\ \A c : Foreign(c)' = Foreign(c)
      BY <2>1, NetStays DEF Linked, Foreign
    <3>2. ASSUME NEW c \in Servers, NEW i \in 1..Len(pend'[c]), ~pend'[c][i].kept
          PROVE  Foreign(c)
      BY <2>1, <3>2 DEF Traced, TreeTypeOK
    <3>3. \A c \in Servers : \A i \in 1..Len(pend'[c]) : ~pend'[c][i].kept => Foreign(c)'
      BY <3>1, <3>2
    <3>4. /\ \A s, t \in Rtrs(net) : <<s, t>> \in open => Linked(s, t)'
          /\ \A s, t \in Rtrs(net) : \A i \in 1..Len(wire[s][t]) :
               wire[s][t][i] \in TreeRequest => Foreign(wire[s][t][i].dest)
      BY <3>1 DEF Traced
    <3> QED BY <2>1, <3>1, <3>3, <3>4 DEF Traced, Foreign
  <2>3. CASE \A i \in DOMAIN pend[d] : pend[d][i].kept
    BY <1>4, <2>1, <2>2, <2>3, RunsBlameless DEF SrvConnects
  <2>4. CASE ~(\A i \in DOMAIN pend[d] : pend[d][i].kept)
    <3>1. RtrEnds(d.rtr, "undefined")
      BY <1>4, <2>4 DEF SrvConnects
    <3>2. PICK i \in DOMAIN pend[d] : ~pend[d][i].kept
      BY <2>4
    <3>3. DOMAIN pend[d] = 1..Len(pend[d])
      BY <2>1 DEF TreeTypeOK
    <3>4. Foreign(d)
      BY <2>1, <3>2, <3>3 DEF Traced
    <3>5. \E q \in asks : q.of.rtr = d.rtr /\ q.at # d.rtr
      BY <3>4 DEF Foreign
    <3> QED BY <2>1, <2>2, <3>1, <3>5, EndsBlameless
  <2> QED BY <2>3, <2>4
<1>5. ASSUME NEW r \in Rtrs(net), RtrDies(r)
      PROVE  Traced' /\ TreeBlameless'
  <2>1. UNCHANGED <<net, links, wire, open, pend, asks>> /\ RtrEnds(r, "killed") /\ rtr[r] = "runs"
    BY <1>5 DEF RtrDies
  <2>2. Traced'
    BY <2>1, NetStays DEF Traced, Linked, Foreign
  <2> QED BY <2>1, <2>2, EndsBlameless
<1>6. ASSUME NEW r \in Rtrs(net), NEW s \in Rtrs(net), EndOfFile(r, s)
      PROVE  Traced' /\ TreeBlameless'
  <2>1. /\ UNCHANGED <<net, links, wire, open, pend, asks>>
        /\ RtrEnds(r, "aborted") /\ rtr[r] = "runs" /\ <<r, s>> \in open /\ rtr[s] # "runs"
    BY <1>6 DEF EndOfFile
  <2>2. Traced'
    BY <2>1, NetStays DEF Traced, Linked, Foreign
  <2>3. \E h \in Rtrs(net) : Linked(r, h) /\ rtr[h] # "runs"
    BY <2>1 DEF Traced
  <2> QED BY <2>1, <2>2, <2>3, EndsBlameless
<1>7. CASE UNCHANGED treeVars
  <2>1. UNCHANGED <<net, links, rtr, wire, open, pend, asks>>
    BY <1>7 DEF treeVars
  <2>2. Traced'
    BY <2>1, NetStays DEF Traced, Linked, Foreign
  <2> QED BY <2>1, <2>2, RunsBlameless
<1> QED BY <1>1, <1>2, <1>3, <1>4, <1>5, <1>6, <1>7 DEF TreeNext, TreeWork

-----------------------------------------------------------------------------
(* In order.  The way of the events of o for server d, as far as it goes,  *)
(* and the ways that reach the router of d: there is at most one.          *)
Asker == [rtr : Rtrs(net), srv : {Self}]

Ways(o, d) ==
  {p \in Seq(Rtrs(net)) :
     /\ Len(p) > 0 /\ p[1] = o.rtr
     /\ \A k \in 1..(Len(p) - 1) : p[k] # d.rtr /\ p[k + 1] = Channel(p[k], d.rtr)}

FullWays(o, d) == {p \in Ways(o, d) : p[Len(p)] = d.rtr}

LEMMA OneWay ==
  ASSUME NEW o, NEW d, NEW p \in Ways(o, d), NEW q \in FullWays(o, d)
  PROVE  Len(p) <= Len(q) /\ \A k \in 1..Len(p) : p[k] = q[k]
<1> DEFINE T == {k \in 1..Len(p) : k > Len(q) \/ p[k] # q[k]}
<1>1. /\ Len(p) \in Nat /\ Len(p) > 0 /\ Len(q) \in Nat /\ Len(q) > 0 /\ p[1] = o.rtr /\ q[1] = o.rtr
      /\ \A k \in 1..(Len(p) - 1) : p[k] # d.rtr /\ p[k + 1] = Channel(p[k], d.rtr)
      /\ \A k \in 1..(Len(q) - 1) : q[k + 1] = Channel(q[k], d.rtr)
      /\ q[Len(q)] = d.rtr
  BY DEF Ways, FullWays
<1>2. ASSUME T # {} PROVE FALSE
  <2>1. T \subseteq Nat
    BY <1>1
  <2>2. PICK m \in T : \A y \in T : m <= y
    BY <1>2, <2>1, Least
  <2>3. m \in 1..Len(p) /\ (m > Len(q) \/ p[m] # q[m])
    BY <2>2
  <2>4. m # 1
    BY <1>1, <2>3
  <2>5. m - 1 \in 1..Len(p) /\ m - 1 \notin T
    BY <1>1, <2>2, <2>3, <2>4
  <2>6. m - 1 <= Len(q) /\ p[m - 1] = q[m - 1]
    BY <1>1, <2>5
  <2>7. m - 1 \in 1..(Len(p) - 1)
    BY <1>1, <2>3, <2>5
  <2>8. p[m - 1] # d.rtr /\ p[(m - 1) + 1] = Channel(p[m - 1], d.rtr)
    BY <1>1, <2>7
  <2>9. m - 1 \in 1..(Len(q) - 1)
    BY <1>1, <2>5, <2>6, <2>8
  <2>10. q[(m - 1) + 1] = Channel(q[m - 1], d.rtr) /\ (m - 1) + 1 = m
    BY <1>1, <2>3, <2>9
  <2> QED BY <1>1, <2>3, <2>6, <2>8, <2>9, <2>10
<1>3. Len(p) \in 1..Len(p)
  BY <1>1
<1> QED BY <1>1, <1>2, <1>3

(* It ends when it is there.                                               *)
Leads(p, h) == Len(p) \in Nat /\ \A k \in 1..(Len(p) - 1) : p[k] # h

LEMMA WaysLead == \A o, d : \A p \in FullWays(o, d) : Leads(p, d.rtr)
BY DEF FullWays, Ways, Leads

(* It does not go round.                                                   *)
LEMMA NoRound ==
  ASSUME NEW o, NEW d, NEW q \in FullWays(o, d),
         NEW a \in 1..Len(q), NEW b \in 1..Len(q), q[a] = q[b]
  PROVE  a = b
<1>1. /\ Len(q) \in Nat /\ q[Len(q)] = d.rtr
      /\ \A k \in 1..(Len(q) - 1) : q[k] # d.rtr /\ q[k + 1] = Channel(q[k], d.rtr)
  BY DEF Ways, FullWays
<1>2. ASSUME NEW l \in 1..Len(q), NEW h \in 1..Len(q), q[l] = q[h], l < h PROVE FALSE
  <2> DEFINE T == {j \in 0..(Len(q) - h) : q[l + j] # q[h + j]}
  <2>1. CASE T = {}
    <3>1. q[l + (Len(q) - h)] = q[h + (Len(q) - h)]
      <4>1. Len(q) - h \in 0..(Len(q) - h)
        BY <1>1
      <4> QED BY <2>1, <4>1
    <3>2. h + (Len(q) - h) = Len(q) /\ l + (Len(q) - h) \in 1..(Len(q) - 1)
      BY <1>1, <1>2
    <3> QED BY <1>1, <3>1, <3>2
  <2>2. CASE T # {}
    <3>1. PICK m \in T : \A y \in T : m <= y
      <4>1. T \subseteq Nat
        BY <1>1
      <4> QED BY <2>2, <4>1, Least
    <3>2. m \in 0..(Len(q) - h) /\ q[l + m] # q[h + m]
      BY <3>1
    <3>3. m # 0
      BY <1>1, <1>2, <3>2
    <3>4. m - 1 \in 0..(Len(q) - h) /\ m - 1 \notin T
      <4>1. m - 1 \in 0..(Len(q) - h) /\ ~(m <= m - 1)
        BY <1>1, <3>2, <3>3
      <4> HIDE DEF T
      <4> QED BY <3>1, <4>1
    <3>5. q[l + (m - 1)] = q[h + (m - 1)]
      BY <3>4
    <3>6. /\ l + (m - 1) \in 1..(Len(q) - 1) /\ h + (m - 1) \in 1..(Len(q) - 1)
          /\ l + (m - 1) + 1 = l + m /\ h + (m - 1) + 1 = h + m
      BY <1>1, <1>2, <3>2, <3>4
    <3>7. q[l + m] = Channel(q[l + (m - 1)], d.rtr) /\ q[h + m] = Channel(q[h + (m - 1)], d.rtr)
      BY <1>1, <3>6
    <3> QED BY <3>2, <3>5, <3>7
  <2> QED BY <2>1, <2>2
<1> QED BY <1>1, <1>2

(* What server d has been sent or will be sent when it connects, in order. *)
Came(d) == seen[d] \o Waiting(d)

Of(g, o, d) == g.src = o /\ g.dest = d

(* Events on the connections w are on a way from where they were made;     *)
(* those ahead are older, those that have come are older still, and no     *)
(* number is higher than the requests that have been made.                 *)
Underway(w) ==
  \A s, r \in Rtrs(net) : \A i \in 1..Len(w[s][r]) : LET g == w[s][r][i] IN
    g \in TreeRequest =>
      \E p \in Ways(g.src, g.dest) : Len(p) > 1 /\ p[Len(p) - 1] = s /\ p[Len(p)] = r

OlderAhead(w) ==
  \A o \in Asker, d \in Here : \A p \in FullWays(o, d) : \A k, l \in 1..(Len(p) - 1) :
    \A i \in 1..Len(w[p[k]][p[k + 1]]), j \in 1..Len(w[p[l]][p[l + 1]]) :
      LET g == w[p[k]][p[k + 1]][i]
          h == w[p[l]][p[l + 1]][j]
      IN  Of(g, o, d) /\ Of(h, o, d) /\ (k < l \/ (k = l /\ i > j)) => g.id > h.id

OlderCame(w) ==
  \A o \in Asker, d \in Here : \A p \in FullWays(o, d) : \A k \in 1..(Len(p) - 1) :
    \A i \in 1..Len(w[p[k]][p[k + 1]]) : Of(w[p[k]][p[k + 1]][i], o, d) =>
      \A n \in 1..Len(Came(d)) : Came(d)[n].src = o => Came(d)[n].id < w[p[k]][p[k + 1]][i].id

Counted(w) ==
  \A s, r \in Rtrs(net) : \A i \in 1..Len(w[s][r]) :
    w[s][r][i] \in TreeRequest => w[s][r][i].id <= Cardinality(asks)

CameInOrder ==
  \A d \in Servers :
    /\ \A m, n \in 1..Len(Came(d)) :
         m < n /\ Came(d)[m].src = Came(d)[n].src => Came(d)[m].id < Came(d)[n].id
    /\ \A n \in 1..Len(Came(d)) : Came(d)[n].id <= Cardinality(asks)
    /\ d \in known => pend[d] = <<>>

AsksCounted == \A a \in asks : a.id <= Cardinality(asks)

Orderly ==
  /\ Underway(wire) /\ OlderAhead(wire) /\ OlderCame(wire) /\ Counted(wire)
  /\ CameInOrder /\ AsksCounted

(* A request e comes to router r: it is on its way, older than what comes  *)
(* after it on the way, and younger than what is ahead or has come.        *)
Comes(w, e, r) ==
  /\ \E p \in Ways(e.src, e.dest) : p[Len(p)] = r
  /\ FullWays(e.src, e.dest) # {} =>
       \A n \in 1..Len(Came(e.dest)) : Came(e.dest)[n].src = e.src => Came(e.dest)[n].id < e.id
  /\ \A p \in FullWays(e.src, e.dest) : \E k \in 0..(Len(p) - 1) :
       /\ p[k + 1] = r
       /\ \A l \in 1..(Len(p) - 1) : \A i \in 1..Len(w[p[l]][p[l + 1]]) :
            Of(w[p[l]][p[l + 1]][i], e.src, e.dest) =>
              /\ l > k => w[p[l]][p[l + 1]][i].id < e.id
              /\ l <= k => w[p[l]][p[l + 1]][i].id > e.id

LEMMA CameFacts ==
  ASSUME TreeTypeOK, Addressed, NEW d \in Servers
  PROVE  /\ Came(d) \in Seq(TreeRequest) /\ Len(Came(d)) = Len(seen[d]) + Len(pend[d])
         /\ Len(seen[d]) \in Nat /\ Len(pend[d]) \in Nat
         /\ \A i \in 1..Len(seen[d]) : Came(d)[i] = seen[d][i]
<1>1. seen[d] \in Seq(TreeRequest) /\ pend[d] \in Seq([ev : TreeRequest, kept : BOOLEAN])
  BY DEF TreeTypeOK
<1>2. Waiting(d) \in Seq(TreeRequest) /\ Len(Waiting(d)) = Len(pend[d])
  BY WaitingFacts
<1>3. Len(seen[d]) \in Nat /\ Len(pend[d]) \in Nat
  BY <1>1, LenProperties
<1>4. /\ Came(d) \in Seq(TreeRequest) /\ Len(Came(d)) = Len(seen[d]) + Len(Waiting(d))
      /\ \A i \in 1..Len(Came(d)) :
           Came(d)[i] = IF i <= Len(seen[d]) THEN seen[d][i] ELSE Waiting(d)[i - Len(seen[d])]
  BY <1>1, <1>2, Joined DEF Came
<1>5. \A i \in 1..Len(seen[d]) : i \in 1..Len(Came(d)) /\ i <= Len(seen[d])
  <2>1. PICK m, n, l : m = Len(seen[d]) /\ n = Len(pend[d]) /\ l = Len(Came(d))
    OBVIOUS
  <2>2. m \in Nat /\ n \in Nat /\ l = m + n
    BY <1>2, <1>3, <1>4, <2>1
  <2>3. \A i \in 1..m : i \in 1..l /\ i <= m
    BY <2>2
  <2> QED BY <2>1, <2>3
<1> QED BY <1>2, <1>3, <1>4, <1>5

LEMMA WayFacts ==
  ASSUME NEW o, NEW d, NEW p \in Ways(o, d)
  PROVE  /\ Len(p) \in Nat /\ Len(p) > 0 /\ p[1] = o.rtr
         /\ \A k \in 1..Len(p) : p[k] \in Rtrs(net)
         /\ \A k \in 1..(Len(p) - 1) : k \in 1..Len(p) /\ k + 1 \in 1..Len(p)
         /\ \A k \in 1..(Len(p) - 1) : p[k] # d.rtr /\ p[k + 1] = Channel(p[k], d.rtr)
BY DEF Ways

LEMMA OrderStays ==
  ASSUME UNCHANGED <<net, links>>
  PROVE  /\ \A o, d : Ways(o, d)' = Ways(o, d) /\ FullWays(o, d)' = FullWays(o, d)
         /\ \A r, id : Channel(r, id)' = Channel(r, id)
         /\ Asker' = Asker /\ Here' = Here /\ TreeRequest' = TreeRequest /\ Rtrs(net)' = Rtrs(net)
<1>1. \A r, id : Channel(r, id)' = Channel(r, id)
  BY DEF Channel
<1>2. Rtrs(net)' = Rtrs(net) /\ Here' = Here /\ TreeRequest' = TreeRequest
  BY NetStays
<1>3. \A o, d : Ways(o, d)' = Ways(o, d)
  BY <1>1, <1>2 DEF Ways
<1> QED BY <1>1, <1>2, <1>3 DEF FullWays, Asker

(* What a step of Route does to what has come.                             *)
LEMMA CameStays ==
  ASSUME NEW d, UNCHANGED <<pend, seen>>
  PROVE  Came(d)' = Came(d)
BY DEF Came, Waiting

LEMMA CameGrows ==
  ASSUME TreeTypeOK, Addressed, CameInOrder, NEW r, NEW e \in TreeRequest, NEW f, NEW kept, NEW w, NEW q,
         Reaches(r, e, f, w, q) \/ HasToWait(r, e, f, kept, w, q)
  PROVE  \A d \in Servers : Came(d)' = IF d = e.dest THEN Append(Came(d), f) ELSE Came(d)
<1>0. e.dest \in Servers
  BY DEF TreeRequest, Here
<1>1. CASE Reaches(r, e, f, w, q)
  <2>1. e.dest \in known /\ seen' = [seen EXCEPT ![e.dest] = Append(@, f)] /\ pend' = pend
    BY <1>1 DEF Reaches
  <2>2. ASSUME NEW d \in Servers PROVE Came(d)' = IF d = e.dest THEN Append(Came(d), f) ELSE Came(d)
    <3>1. Waiting(d)' = Waiting(d) /\ seen[d] \in Seq(TreeRequest)
      BY <2>1 DEF Waiting, TreeTypeOK
    <3>2. seen'[d] = IF d = e.dest THEN Append(seen[d], f) ELSE seen[d]
      BY <2>1 DEF TreeTypeOK
    <3>3. CASE d = e.dest
      <4>1. pend[d] = <<>>
        BY <2>1, <3>3 DEF CameInOrder
      <4>2. Waiting(d) = <<>>
        BY <4>1 DEF Waiting
      <4>3. Came(d) = seen[d]
        BY <3>1, <4>2 DEF Came
      <4>4. f \in TreeRequest
        BY <1>1 DEF Reaches
      <4>5. Came(d)' = seen'[d]
        BY <3>1, <3>2, <3>3, <4>2, <4>4 DEF Came
      <4> QED BY <3>2, <3>3, <4>3, <4>5
    <3>4. CASE d # e.dest
      BY <3>1, <3>2, <3>4 DEF Came
    <3> QED BY <3>3, <3>4
  <2> QED BY <2>2
<1>2. CASE HasToWait(r, e, f, kept, w, q)
  <2> DEFINE it == [ev |-> f, kept |-> kept]
             W == [ev : TreeRequest, kept : BOOLEAN]
  <2>1. pend' = [pend EXCEPT ![e.dest] = Append(@, it)] /\ seen' = seen /\ it.ev = f /\ f \in TreeRequest
    BY <1>2 DEF HasToWait
  <2>2. pend \in [Servers -> Seq(W)]
    BY DEF TreeTypeOK
  <2> HIDE DEF it, W
  <2>3. ASSUME NEW d \in Servers PROVE Came(d)' = IF d = e.dest THEN Append(Came(d), f) ELSE Came(d)
    <3>1. pend'[d] = IF d = e.dest THEN Append(pend[d], it) ELSE pend[d]
      BY <2>1, <2>2
    <3>2. CASE d = e.dest
      <4>1. Waiting(d)' = [i \in DOMAIN Append(pend[d], it) |-> Append(pend[d], it)[i].ev]
        BY <3>1, <3>2 DEF Waiting
      <4>2. pend[d] \in Seq(W) /\ seen[d] \in Seq(TreeRequest) /\ Waiting(d) \in Seq(TreeRequest)
            /\ Len(Waiting(d)) = Len(pend[d])
            /\ \A i \in 1..Len(pend[d]) : Waiting(d)[i] = pend[d][i].ev
        BY <2>2, WaitingFacts DEF TreeTypeOK
      <4>3. [i \in DOMAIN Append(pend[d], it) |-> Append(pend[d], it)[i].ev] = Append(Waiting(d), f)
        <5> DEFINE s == Append(pend[d], it)
                   u == [i \in DOMAIN s |-> s[i].ev]
        <5>1. /\ DOMAIN s = 1..(Len(pend[d]) + 1) /\ Len(pend[d]) \in Nat
              /\ \A i \in DOMAIN s : s[i] = IF i = Len(pend[d]) + 1 THEN it ELSE pend[d][i]
          BY <4>2, Appended
        <5>2. \A i \in DOMAIN s : u[i] = IF i = Len(pend[d]) + 1 THEN f ELSE Waiting(d)[i]
          BY <2>1, <4>2, <5>1
        <5>3. \A i \in DOMAIN s : i # Len(pend[d]) + 1 => Waiting(d)[i] \in TreeRequest
          BY <4>2, <5>1, ElementOfSeq
        <5> HIDE DEF s
        <5>4. \A i \in DOMAIN s : u[i] \in TreeRequest
          BY <2>1, <5>2, <5>3
        <5>5. u \in Seq(TreeRequest) /\ Len(u) = Len(pend[d]) + 1
          <6>1. Len(pend[d]) + 1 \in Nat /\ DOMAIN u = 1..(Len(pend[d]) + 1)
            BY <5>1
          <6>2. u \in [1..(Len(pend[d]) + 1) -> TreeRequest]
            BY <5>1, <5>4
          <6> HIDE DEF u
          <6> QED BY <6>1, <6>2
        <5>6. Append(Waiting(d), f) \in Seq(TreeRequest) /\ Len(Append(Waiting(d), f)) = Len(pend[d]) + 1
          BY <2>1, <4>2
        <5>7. \A i \in 1..Len(u) : u[i] = Append(Waiting(d), f)[i]
          <6>1. \A i \in 1..Len(u) : Append(Waiting(d), f)[i] =
                                     IF i = Len(pend[d]) + 1 THEN f ELSE Waiting(d)[i]
            BY <4>2, <5>5, <5>6, Appended
          <6>2. \A i \in 1..Len(u) : i \in DOMAIN s
            BY <5>1, <5>5
          <6> HIDE DEF u
          <6> QED BY <5>2, <6>1, <6>2
        <5> HIDE DEF u
        <5>8. u = Append(Waiting(d), f)
          BY <5>5, <5>6, <5>7, SeqEqual
        <5> QED BY <5>8 DEF s, u
      <4>4. seen[d] \o Append(Waiting(d), f) = Append(seen[d] \o Waiting(d), f)
        <5>1. <<f>> \in Seq(TreeRequest)
          BY <2>1
        <5>2. Append(Waiting(d), f) = Waiting(d) \o <<f>>
          BY <2>1, <4>2, AppendIsConcat
        <5>3. seen[d] \o Waiting(d) \in Seq(TreeRequest)
          BY <4>2, ConcatProperties
        <5>4. Append(seen[d] \o Waiting(d), f) = (seen[d] \o Waiting(d)) \o <<f>>
          BY <2>1, <5>3, AppendIsConcat
        <5>5. (seen[d] \o Waiting(d)) \o <<f>> = seen[d] \o (Waiting(d) \o <<f>>)
          <6>1. seen[d] \in Seq(TreeRequest) /\ Waiting(d) \in Seq(TreeRequest)
            BY <4>2
          <6>2. PICK a, b, c : a = seen[d] /\ b = Waiting(d) /\ c = <<f>>
            OBVIOUS
          <6>3. a \in Seq(TreeRequest) /\ b \in Seq(TreeRequest) /\ c \in Seq(TreeRequest)
            BY <5>1, <6>1, <6>2
          <6>4. (a \o b) \o c = a \o (b \o c)
            BY <6>3, ConcatAssociative
          <6> QED BY <6>2, <6>4
        <5> QED BY <5>2, <5>4, <5>5
      <4> QED BY <2>1, <3>2, <4>1, <4>3, <4>4 DEF Came
    <3>3. CASE d # e.dest
      BY <2>1, <3>1, <3>3 DEF Came, Waiting
    <3> QED BY <3>2, <3>3
  <2> QED BY <2>3
<1> QED BY <1>1, <1>2

(* Hop m of the way p, from r to h, is where e is the last: what is on the *)
(* hops from there is older, and the rest is younger.                      *)
LastHop(w, p, m, e, r, h) ==
  /\ p[m] = r /\ p[m + 1] = h
  /\ \A l \in 1..(Len(p) - 1) : p[l] = r => l = m
  /\ \A l \in 1..(Len(p) - 1) : \A i \in 1..Len(w[p[l]][p[l + 1]]) :
       Of(w[p[l]][p[l + 1]][i], e.src, e.dest) =>
         /\ l >= m => w[p[l]][p[l + 1]][i].id < e.id
         /\ l < m => w[p[l]][p[l + 1]][i].id > e.id

(* A request that is sent on from r, to h, becomes the last on that hop.   *)
LEMMA SentOn ==
  ASSUME TreeTypeOK, NEW r \in Rtrs(net), NEW e \in TreeRequest, NEW h \in Rtrs(net), NEW w,
         NEW p \in FullWays(e.src, e.dest), e.dest.rtr # r, h = Channel(r, e.dest.rtr),
         Comes(w, e, r)
  PROVE  \E m \in 1..(Len(p) - 1) : LastHop(w, p, m, e, r, h)
<1>1. /\ p \in Ways(e.src, e.dest) /\ p[Len(p)] = e.dest.rtr /\ Len(p) \in Nat /\ Len(p) > 0
      /\ \A k \in 1..(Len(p) - 1) : p[k + 1] = Channel(p[k], e.dest.rtr)
      /\ \A k \in 1..(Len(p) - 1) : k \in 1..Len(p)
  BY WayFacts DEF FullWays
<1>2. PICK k \in 0..(Len(p) - 1) :
         /\ p[k + 1] = r
         /\ \A l \in 1..(Len(p) - 1) : \A i \in 1..Len(w[p[l]][p[l + 1]]) :
              Of(w[p[l]][p[l + 1]][i], e.src, e.dest) =>
                /\ l > k => w[p[l]][p[l + 1]][i].id < e.id
                /\ l <= k => w[p[l]][p[l + 1]][i].id > e.id
  BY DEF Comes
<1>3. k + 1 # Len(p)
  BY <1>1, <1>2
<1>4. k + 1 \in 1..(Len(p) - 1) /\ k + 1 \in 1..Len(p)
  BY <1>1, <1>2, <1>3
<1>5. p[k + 1] = r /\ p[(k + 1) + 1] = h
  BY <1>1, <1>2, <1>4
<1>6. \A l \in 1..(Len(p) - 1) : p[l] = r => l = k + 1
  BY <1>1, <1>4, <1>5, NoRound
<1>7. \A l \in 1..(Len(p) - 1) : (l >= k + 1 => l > k) /\ (l < k + 1 => l <= k)
  BY <1>1
<1>8. PICK m \in 1..(Len(p) - 1) : m = k + 1
  BY <1>4
<1> QED BY <1>2, <1>5, <1>6, <1>7, <1>8 DEF LastHop

(* v is w with f as the last on the connection from r to h.                *)
LastOn(w, v, r, h, f) ==
  \A s, t \in Rtrs(net) :
    /\ Len(w[s][t]) \in Nat
    /\ \A i \in 1..Len(v[s][t]) :
         \/ s = r /\ t = h /\ i = Len(w[s][t]) + 1 /\ v[s][t][i] = f
         \/ i \in 1..Len(w[s][t]) /\ v[s][t][i] = w[s][t][i]

SentTo(h, e, f, r) ==
  /\ f.id = e.id /\ f.src = e.src /\ f.dest = e.dest /\ (f \in TreeRequest <=> e \in TreeRequest)
  /\ e.dest.rtr # r /\ h = Channel(r, e.dest.rtr)

LEMMA WireGrows ==
  ASSUME TreeTypeOK, NEW r \in Rtrs(net), NEW e \in TreeEvent, NEW f, NEW h \in Rtrs(net),
         NEW w, NEW v, LastOn(w, v, r, h, f), SentTo(h, e, f, r),
         e \in TreeRequest => Comes(w, e, r), Underway(w), OlderAhead(w)
  PROVE  Underway(v) /\ OlderAhead(v)
<1>1. /\ f.id = e.id /\ f.src = e.src /\ f.dest = e.dest /\ (f \in TreeRequest <=> e \in TreeRequest)
      /\ e.dest.rtr # r /\ h = Channel(r, e.dest.rtr)
  BY DEF SentTo
<1>4. \A s, t \in Rtrs(net) : \A i \in 1..Len(v[s][t]) :
        \/ s = r /\ t = h /\ i = Len(w[s][t]) + 1 /\ v[s][t][i] = f
        \/ i \in 1..Len(w[s][t]) /\ v[s][t][i] = w[s][t][i]
  BY DEF LastOn
<1>5. \A s, t \in Rtrs(net) : Len(w[s][t]) \in Nat
  BY DEF LastOn
<1>6. Underway(v)
  <2> SUFFICES ASSUME NEW s \in Rtrs(net), NEW t \in Rtrs(net), NEW i \in 1..Len(v[s][t]),
                      v[s][t][i] \in TreeRequest
               PROVE  \E p \in Ways(v[s][t][i].src, v[s][t][i].dest) :
                        Len(p) > 1 /\ p[Len(p) - 1] = s /\ p[Len(p)] = t
    BY DEF Underway
  <2>0. PICK g : g = v[s][t][i]
    OBVIOUS
  <2>1. CASE s = r /\ t = h /\ g = f
    <3>1. PICK p \in Ways(e.src, e.dest) : p[Len(p)] = r
      BY <1>1, <2>0, <2>1 DEF Comes
    <3>2. /\ Len(p) \in Nat /\ Len(p) > 0 /\ p[1] = e.src.rtr /\ p \in Seq(Rtrs(net))
          /\ \A k \in 1..(Len(p) - 1) : p[k] # e.dest.rtr /\ p[k + 1] = Channel(p[k], e.dest.rtr)
      BY DEF Ways
    <3>3. PICK u : u = Append(p, h)
      OBVIOUS
    <3>4. /\ u \in Seq(Rtrs(net)) /\ Len(u) = Len(p) + 1 /\ u[Len(p) + 1] = h
          /\ \A k \in 1..Len(p) : u[k] = p[k]
      BY <3>2, <3>3
    <3>5. ASSUME NEW k \in 1..(Len(u) - 1)
          PROVE  u[k] # e.dest.rtr /\ u[k + 1] = Channel(u[k], e.dest.rtr)
      <4>1. CASE k = Len(p)
        BY <1>1, <3>1, <3>2, <3>4, <4>1
      <4>2. CASE k # Len(p)
        <5>1. k \in 1..(Len(p) - 1) /\ k \in 1..Len(p) /\ k + 1 \in 1..Len(p)
          BY <3>2, <3>4, <4>2
        <5> QED BY <3>2, <3>4, <5>1
      <4> QED BY <4>1, <4>2
    <3>6. 1 \in 1..Len(p) /\ Len(p) \in 1..Len(p) /\ Len(u) - 1 = Len(p) /\ Len(u) > 1
      BY <3>2, <3>4
    <3>7. u \in Ways(e.src, e.dest)
      BY <3>2, <3>4, <3>5, <3>6 DEF Ways
    <3>8. u[Len(u) - 1] = s /\ u[Len(u)] = t
      BY <2>1, <3>1, <3>4, <3>6
    <3>9. u \in Ways(g.src, g.dest)
      BY <1>1, <2>1, <3>7
    <3>10. u \in Ways(v[s][t][i].src, v[s][t][i].dest)
      BY <2>0, <3>9
    <3> QED BY <3>6, <3>8, <3>10
  <2>2. CASE i \in 1..Len(w[s][t]) /\ g = w[s][t][i]
    BY <2>0, <2>2 DEF Underway
  <2> QED BY <1>4, <2>0, <2>1, <2>2
<1>7. OlderAhead(v)
  <2>z. SUFFICES ASSUME NEW o \in Asker, NEW d \in Here, NEW p \in FullWays(o, d),
                      NEW k \in 1..(Len(p) - 1), NEW l \in 1..(Len(p) - 1),
                      NEW i \in 1..Len(v[p[k]][p[k + 1]]), NEW j \in 1..Len(v[p[l]][p[l + 1]]),
                      Of(v[p[k]][p[k + 1]][i], o, d), Of(v[p[l]][p[l + 1]][j], o, d),
                      k < l \/ (k = l /\ i > j)
               PROVE  v[p[k]][p[k + 1]][i].id > v[p[l]][p[l + 1]][j].id
    BY DEF OlderAhead
  <2>0. PICK a, b, c, z : a = p[k] /\ b = p[k + 1] /\ c = p[l] /\ z = p[l + 1]
    OBVIOUS
  <2> DEFINE g == v[a][b][i]
             x == v[c][z][j]
  <2>1. a \in Rtrs(net) /\ b \in Rtrs(net) /\ c \in Rtrs(net) /\ z \in Rtrs(net) /\ Len(p) \in Nat
    BY <2>0, WayFacts DEF FullWays
  <2>a. /\ i \in 1..Len(v[a][b]) /\ j \in 1..Len(v[c][z]) /\ Of(g, o, d) /\ Of(x, o, d)
        /\ k < l \/ (k = l /\ i > j)
    BY <2>0, <2>z
  <2>2. \/ a = r /\ b = h /\ i = Len(w[r][h]) + 1 /\ g = f
        \/ i \in 1..Len(w[a][b]) /\ g = w[a][b][i]
    BY <1>4, <2>1, <2>a
  <2>3. \/ c = r /\ z = h /\ j = Len(w[r][h]) + 1 /\ x = f
        \/ j \in 1..Len(w[c][z]) /\ x = w[c][z][j]
    BY <1>4, <2>1, <2>a
  <2> HIDE DEF g, x
  <2>b. SUFFICES g.id > x.id
    BY <2>0 DEF g, x
  <2>4. CASE /\ i \in 1..Len(w[a][b]) /\ g = w[a][b][i]
             /\ j \in 1..Len(w[c][z]) /\ x = w[c][z][j]
    <3>1. /\ i \in 1..Len(w[p[k]][p[k + 1]]) /\ j \in 1..Len(w[p[l]][p[l + 1]])
          /\ Of(w[p[k]][p[k + 1]][i], o, d) /\ Of(w[p[l]][p[l + 1]][j], o, d)
      BY <2>0, <2>a, <2>4
    <3>2. w[p[k]][p[k + 1]][i].id > w[p[l]][p[l + 1]][j].id
      BY <2>a, <3>1 DEF OlderAhead
    <3> QED BY <2>0, <2>4, <3>2
  <2>5. CASE \/ a = r /\ b = h /\ i = Len(w[r][h]) + 1 /\ g = f
             \/ c = r /\ z = h /\ j = Len(w[r][h]) + 1 /\ x = f
    <3>1. o = e.src /\ d = e.dest
      BY <1>1, <2>a, <2>5 DEF Of
    <3>2. e \in TreeRequest
      BY <3>1, EventFacts, TreeAssumption DEF Here, TreeTypeOK
    <3>3. p \in FullWays(e.src, e.dest) /\ Comes(w, e, r)
      BY <3>1, <3>2
    <3>4. PICK m \in 1..(Len(p) - 1) : LastHop(w, p, m, e, r, h)
      <4>1. e.dest.rtr # r /\ h = Channel(r, e.dest.rtr)
        BY <1>1
      <4> QED BY <3>2, <3>3, <4>1, SentOn
    <3>5. (a = r => k = m) /\ (c = r => l = m) /\ k \in Nat /\ l \in Nat /\ m \in Nat
      BY <2>0, <2>1, <3>4 DEF LastHop
    <3>6. CASE /\ a = r /\ b = h /\ i = Len(w[r][h]) + 1 /\ g = f
               /\ j \in 1..Len(w[c][z]) /\ x = w[c][z][j]
      <4>1. l >= m
        BY <2>a, <3>5, <3>6
      <4>2. /\ j \in 1..Len(w[p[l]][p[l + 1]]) /\ Of(w[p[l]][p[l + 1]][j], e.src, e.dest)
            /\ x = w[p[l]][p[l + 1]][j]
        BY <2>0, <2>a, <3>1, <3>6
      <4>3. x.id < e.id
        BY <3>4, <4>1, <4>2 DEF LastHop
      <4> QED BY <1>1, <3>6, <4>3
    <3>7. CASE /\ i \in 1..Len(w[a][b]) /\ g = w[a][b][i]
               /\ c = r /\ z = h /\ j = Len(w[r][h]) + 1 /\ x = f
      <4>1. k # l
        <5>1. CASE k = l
          <6>1. a = r /\ b = h
            BY <2>0, <3>7, <5>1
          <6>2. i <= Len(w[r][h]) /\ Len(w[r][h]) \in Nat /\ i \in Nat
            BY <1>5, <3>7, <6>1
          <6> QED BY <2>a, <3>5, <3>7, <5>1, <6>2
        <5> QED BY <5>1
      <4>2. k < m
        BY <2>a, <3>5, <3>7, <4>1
      <4>3. /\ i \in 1..Len(w[p[k]][p[k + 1]]) /\ Of(w[p[k]][p[k + 1]][i], e.src, e.dest)
            /\ g = w[p[k]][p[k + 1]][i]
        BY <2>0, <2>a, <3>1, <3>7
      <4>4. g.id > e.id
        BY <3>4, <4>2, <4>3 DEF LastHop
      <4> QED BY <1>1, <3>7, <4>4
    <3>8. CASE /\ a = r /\ b = h /\ i = Len(w[r][h]) + 1 /\ g = f
               /\ c = r /\ z = h /\ j = Len(w[r][h]) + 1 /\ x = f
      BY <1>5, <2>a, <3>5, <3>8
    <3> QED BY <2>2, <2>3, <2>5, <3>6, <3>7, <3>8
  <2> QED BY <2>2, <2>3, <2>4, <2>5
<1> QED BY <1>6, <1>7

(* A step of Route keeps the order, if what it takes came in order.        *)
InOrderOn(w) == Underway(w) /\ OlderAhead(w) /\ OlderCame(w) /\ Counted(w)

CountGrows ==
  /\ Cardinality(asks) \in Nat /\ Cardinality(asks') \in Nat
  /\ Cardinality(asks) <= Cardinality(asks')

Typed(w) ==
  /\ \A s, t \in Rtrs(net) : w[s][t] \in Seq(TreeEvent)
  /\ w \in [Rtrs(net) -> [Rtrs(net) -> Seq(TreeEvent)]]

IdsAreNumbers ==
  /\ \A g \in TreeEvent : g.id \in Nat
  /\ \A g \in TreeRequest : g.id \in Nat /\ g \in TreeEvent

LEMMA IdFacts == net \in Nets => IdsAreNumbers
BY EventFacts, TreeAssumption DEF IdsAreNumbers, TreeEvent

LEMMA SameCame ==
  ASSUME TreeTypeOK, Addressed, CameInOrder, CountGrows,
         UNCHANGED <<net, links, known, pend, seen>>
  PROVE  CameInOrder' /\ \A d : Came(d)' = Came(d)
<1>1. \A d : Came(d)' = Came(d)
  BY CameStays
<1>2. ASSUME NEW d \in Servers, NEW n \in 1..Len(Came(d)) PROVE Came(d)[n].id <= Cardinality(asks')
  <2>1. Came(d)[n].id <= Cardinality(asks)
    BY DEF CameInOrder
  <2>2. Came(d)[n] \in TreeRequest
    <3>1. Came(d) \in Seq(TreeRequest)
      BY CameFacts
    <3> QED BY <3>1, ElementOfSeq
  <2>3. Came(d)[n].id \in Nat
    BY <2>2, IdFacts DEF IdsAreNumbers, TreeTypeOK
  <2> QED BY <2>1, <2>3 DEF CountGrows
<1> QED BY <1>1, <1>2 DEF CameInOrder

OlderCameNext(v) ==
  \A o \in Asker, d \in Here : \A p \in FullWays(o, d) : \A k \in 1..(Len(p) - 1) :
    \A i \in 1..Len(v[p[k]][p[k + 1]]) : Of(v[p[k]][p[k + 1]][i], o, d) =>
      \A n \in 1..Len(Came(d)') : (Came(d)')[n].src = o => (Came(d)')[n].id < v[p[k]][p[k + 1]][i].id

CountedNext(v) ==
  \A s, r \in Rtrs(net) : \A i \in 1..Len(v[s][r]) :
    v[s][r][i] \in TreeRequest => v[s][r][i].id <= Cardinality(asks')

LEMMA OrderlyNext ==
  ASSUME NEW v, wire' = v, UNCHANGED <<net, links>>, Underway(v), OlderAhead(v), OlderCameNext(v),
         CountedNext(v), CameInOrder', AsksCounted'
  PROVE  Orderly'
<1>1. Underway(wire)' /\ OlderAhead(wire)'
  BY OrderStays DEF Underway, OlderAhead
<1>2. OlderCame(wire)'
  <2>1. SUFFICES ASSUME NEW o \in Asker', NEW d \in Here', NEW p \in FullWays(o, d)',
                        NEW k \in 1..(Len(p) - 1), NEW i \in 1..Len(wire'[p[k]][p[k + 1]]),
                        Of(wire'[p[k]][p[k + 1]][i], o, d),
                        NEW n \in 1..Len(Came(d)'), (Came(d)')[n].src = o
                 PROVE  (Came(d)')[n].id < wire'[p[k]][p[k + 1]][i].id
    BY DEF OlderCame, Of
  <2>2. o \in Asker /\ d \in Here /\ p \in FullWays(o, d)
    BY OrderStays
  <2> QED BY <2>1, <2>2 DEF OlderCameNext
<1>3. Counted(wire)'
  BY OrderStays DEF Counted, CountedNext
<1> QED BY <1>1, <1>2, <1>3 DEF Orderly

LEMMA CountedOn ==
  ASSUME TreeTypeOK, NEW w, Typed(w), Counted(w), CountGrows
  PROVE  CountedNext(w)
<1>1. IdsAreNumbers
  BY IdFacts DEF TreeTypeOK
<1> QED BY <1>1 DEF Typed, Counted, CountGrows, CountedNext, IdsAreNumbers

LEMMA CountedLast ==
  ASSUME TreeTypeOK, NEW r \in Rtrs(net), NEW h \in Rtrs(net), NEW f, NEW w, NEW v,
         LastOn(w, v, r, h, f), CountedNext(w), f \in TreeRequest => f.id <= Cardinality(asks')
  PROVE  CountedNext(v)
<1> SUFFICES ASSUME NEW s \in Rtrs(net), NEW t \in Rtrs(net), NEW i \in 1..Len(v[s][t]),
                    v[s][t][i] \in TreeRequest
             PROVE  v[s][t][i].id <= Cardinality(asks')
  BY DEF CountedNext
<1>1. v[s][t][i] = f \/ (i \in 1..Len(w[s][t]) /\ v[s][t][i] = w[s][t][i])
  BY DEF LastOn
<1>2. CASE v[s][t][i] = f
  BY <1>2
<1>3. CASE i \in 1..Len(w[s][t]) /\ v[s][t][i] = w[s][t][i]
  <2>1. w[s][t][i] \in TreeRequest
    BY <1>3
  <2>2. w[s][t][i].id <= Cardinality(asks')
    BY <1>3, <2>1 DEF CountedNext
  <2> QED BY <1>3, <2>2
<1> QED BY <1>1, <1>2, <1>3

(* What comes to the end of its way is younger than all that has come and  *)
(* older than all that is on the way.                                      *)
LEMMA CameNext ==
  ASSUME TreeTypeOK, Addressed, CameInOrder, CountGrows, UNCHANGED <<net, links, known>>,
         NEW r \in Rtrs(net), NEW e \in TreeRequest, NEW f \in TreeRequest, NEW w, Typed(w),
         Comes(w, e, r), e.dest.rtr = r, f.id = e.id, f.src = e.src, OlderCame(w),
         e.id <= Cardinality(asks'),
         \A d \in Servers : Came(d)' = IF d = e.dest THEN Append(Came(d), f) ELSE Came(d),
         \A d \in Servers : d \in known => pend'[d] = <<>>
  PROVE  OlderCameNext(w) /\ CameInOrder'
<1>1. PICK way \in Ways(e.src, e.dest) : way[Len(way)] = r
  BY DEF Comes
<1>2. way \in FullWays(e.src, e.dest) /\ e.dest \in Servers /\ e.src \in Asker
  BY <1>1 DEF FullWays, TreeRequest, Here, Asker
<1>3. \A n \in 1..Len(Came(e.dest)) : Came(e.dest)[n].src = e.src => Came(e.dest)[n].id < e.id
  BY <1>2 DEF Comes
<1>4. \A d \in Servers : Came(d) \in Seq(TreeRequest)
  BY CameFacts
<1>5. \A d \in Servers : \A n \in 1..Len(Came(d)') :
        \/ d = e.dest /\ n = Len(Came(d)) + 1 /\ (Came(d)')[n] = f
        \/ n \in 1..Len(Came(d)) /\ (Came(d)')[n] = Came(d)[n]
  <2> SUFFICES ASSUME NEW d \in Servers, NEW n \in 1..Len(Came(d)')
               PROVE  \/ d = e.dest /\ n = Len(Came(d)) + 1 /\ (Came(d)')[n] = f
                      \/ n \in 1..Len(Came(d)) /\ (Came(d)')[n] = Came(d)[n]
    OBVIOUS
  <2>1. CASE d = e.dest
    BY <1>4, <2>1, Appended
  <2>2. CASE d # e.dest
    BY <2>2
  <2> QED BY <2>1, <2>2
<1>6. IdsAreNumbers /\ e.id \in Nat
  BY IdFacts DEF TreeTypeOK, IdsAreNumbers
<1>7. OlderCameNext(w)
  <2>1. SUFFICES ASSUME NEW o \in Asker, NEW d \in Here, NEW p \in FullWays(o, d),
                        NEW k \in 1..(Len(p) - 1), NEW i \in 1..Len(w[p[k]][p[k + 1]]),
                        Of(w[p[k]][p[k + 1]][i], o, d),
                        NEW n \in 1..Len(Came(d)'), (Came(d)')[n].src = o
                 PROVE  (Came(d)')[n].id < w[p[k]][p[k + 1]][i].id
    BY DEF OlderCameNext
  <2>2. d \in Servers
    BY DEF Here
  <2>3. CASE n \in 1..Len(Came(d)) /\ (Came(d)')[n] = Came(d)[n]
    <3>1. Came(d)[n].src = o
      BY <2>1, <2>3
    <3>2. Came(d)[n].id < w[p[k]][p[k + 1]][i].id
      BY <2>1, <2>3, <3>1 DEF OlderCame
    <3> QED BY <2>3, <3>2
  <2>4. CASE d = e.dest /\ (Came(d)')[n] = f
    <3>1. o = e.src /\ p \in FullWays(e.src, e.dest)
      BY <2>1, <2>4
    <3>2. /\ Len(p) \in Nat /\ \A l \in 1..(Len(p) - 1) : p[l] # r
      <4>1. Leads(p, e.dest.rtr)
        BY <3>1, WaysLead, Zenon
      <4>2. Len(p) \in Nat /\ \A l \in 1..(Len(p) - 1) : p[l] # e.dest.rtr
        BY <4>1 DEF Leads
      <4> QED BY <4>2
    <3>3. PICK m \in 0..(Len(p) - 1) :
            /\ p[m + 1] = r
            /\ \A l \in 1..(Len(p) - 1) : \A j \in 1..Len(w[p[l]][p[l + 1]]) :
                 Of(w[p[l]][p[l + 1]][j], e.src, e.dest) =>
                   /\ l > m => w[p[l]][p[l + 1]][j].id < e.id
                   /\ l <= m => w[p[l]][p[l + 1]][j].id > e.id
      BY <3>1 DEF Comes
    <3>4. m + 1 = Len(p)
      BY <3>2, <3>3
    <3>5. k <= m
      BY <3>2, <3>4
    <3>6. w[p[k]][p[k + 1]][i].id > e.id
      BY <2>1, <2>4, <3>1, <3>3, <3>5
    <3> QED BY <2>4, <3>6
  <2> QED BY <1>5, <2>2, <2>3, <2>4
<1>8. ASSUME NEW d \in Servers, NEW m \in 1..Len(Came(d)'), NEW n \in 1..Len(Came(d)'),
             m < n, (Came(d)')[m].src = (Came(d)')[n].src
      PROVE  (Came(d)')[m].id < (Came(d)')[n].id
  <2>1. Len(Came(d)) \in Nat
    BY <1>4
  <2>2. CASE n \in 1..Len(Came(d)) /\ (Came(d)')[n] = Came(d)[n]
    <3>1. m \in 1..Len(Came(d)) /\ (Came(d)')[m] = Came(d)[m]
      BY <1>5, <1>8, <2>1, <2>2
    <3>2. Came(d)[m].src = Came(d)[n].src
      BY <1>8, <2>2, <3>1
    <3>3. Came(d)[m].id < Came(d)[n].id
      BY <1>8, <2>2, <3>1, <3>2 DEF CameInOrder
    <3> QED BY <2>2, <3>1, <3>3
  <2>3. CASE d = e.dest /\ n = Len(Came(d)) + 1 /\ (Came(d)')[n] = f
    <3>1. m \in 1..Len(Came(d)) /\ (Came(d)')[m] = Came(d)[m]
      BY <1>5, <1>8, <2>1, <2>3
    <3>2. Came(d)[m].src = e.src
      BY <1>8, <2>3, <3>1
    <3>3. Came(d)[m].id < e.id
      BY <1>3, <2>3, <3>1, <3>2
    <3> QED BY <2>3, <3>1, <3>3
  <2> QED BY <1>5, <2>2, <2>3
<1>9. ASSUME NEW d \in Servers, NEW n \in 1..Len(Came(d)') PROVE (Came(d)')[n].id <= Cardinality(asks')
  <2>1. CASE n \in 1..Len(Came(d)) /\ (Came(d)')[n] = Came(d)[n]
    <3>1. Came(d)[n].id <= Cardinality(asks) /\ Came(d)[n].id \in Nat
      BY <1>4, <1>6, <2>1, ElementOfSeq DEF CameInOrder, IdsAreNumbers
    <3> QED BY <2>1, <3>1 DEF CountGrows
  <2>2. CASE (Came(d)')[n] = f
    BY <2>2
  <2> QED BY <1>5, <2>1, <2>2
<1>10. CameInOrder'
  BY <1>8, <1>9 DEF CameInOrder
<1> QED BY <1>7, <1>10

LEMMA OlderCameLast ==
  ASSUME TreeTypeOK, NEW r \in Rtrs(net), NEW e \in TreeEvent, NEW f, NEW h \in Rtrs(net),
         NEW w, NEW v, LastOn(w, v, r, h, f), SentTo(h, e, f, r),
         e \in TreeRequest => Comes(w, e, r), OlderCameNext(w), \A d : Came(d)' = Came(d)
  PROVE  OlderCameNext(v)
<1>1. f.id = e.id /\ f.src = e.src /\ f.dest = e.dest
  BY DEF SentTo
<1>2. SUFFICES ASSUME NEW o \in Asker, NEW d \in Here, NEW p \in FullWays(o, d),
                      NEW k \in 1..(Len(p) - 1), NEW i \in 1..Len(v[p[k]][p[k + 1]]),
                      Of(v[p[k]][p[k + 1]][i], o, d),
                      NEW n \in 1..Len(Came(d)'), (Came(d)')[n].src = o
               PROVE  (Came(d)')[n].id < v[p[k]][p[k + 1]][i].id
  BY DEF OlderCameNext
<1>3. PICK a, b : a = p[k] /\ b = p[k + 1]
  OBVIOUS
<1>4. a \in Rtrs(net) /\ b \in Rtrs(net)
  BY <1>3, WayFacts DEF FullWays
<1>5. v[a][b][i] = f \/ (i \in 1..Len(w[a][b]) /\ v[a][b][i] = w[a][b][i])
  BY <1>2, <1>3, <1>4 DEF LastOn
<1>6. CASE i \in 1..Len(w[a][b]) /\ v[a][b][i] = w[a][b][i]
  <2>1. /\ i \in 1..Len(w[p[k]][p[k + 1]]) /\ Of(w[p[k]][p[k + 1]][i], o, d)
        /\ v[p[k]][p[k + 1]][i] = w[p[k]][p[k + 1]][i]
    BY <1>2, <1>3, <1>6
  <2> QED BY <1>2, <2>1 DEF OlderCameNext
<1>7. CASE v[a][b][i] = f
  <2>1. o = e.src /\ d = e.dest
    BY <1>1, <1>2, <1>3, <1>7 DEF Of
  <2>2. e \in TreeRequest
    BY <2>1, EventFacts, TreeAssumption DEF Here, TreeTypeOK
  <2>3. \A m \in 1..Len(Came(e.dest)) : Came(e.dest)[m].src = e.src => Came(e.dest)[m].id < e.id
    BY <2>1, <2>2 DEF Comes
  <2>4. Came(d)[n].id < e.id
    BY <1>2, <2>1, <2>3
  <2> QED BY <1>1, <1>2, <1>3, <1>7, <2>4
<1> QED BY <1>5, <1>6, <1>7

LEMMA RouteInOrder ==
  ASSUME TreeTypeOK, Addressed, CameInOrder, CountGrows, AsksCounted',
         UNCHANGED <<net, links, known>>,
         NEW r \in Rtrs(net), NEW e \in TreeEvent, NEW kept, NEW w, NEW q, Typed(w), InOrderOn(w),
         e \in TreeRequest => Comes(w, e, r) /\ e.id <= Cardinality(asks'),
         Route(r, e, kept, w, q)
  PROVE  Orderly'
<1>1. PICK f : /\ Stamped(f, e, r)
               /\ \/ Fails(r, e, w, q)
                  \/ \E h : GoesOn(r, h, e, f, w, q)
                  \/ IsBack(r, e, w, q)
                  \/ Reaches(r, e, f, w, q)
                  \/ HasToWait(r, e, f, kept, w, q)
  BY RouteCases
<1>2. Underway(w) /\ OlderAhead(w) /\ OlderCame(w) /\ Counted(w)
  BY DEF InOrderOn
<1>3. CountedNext(w)
  BY <1>2, CountedOn
<1>4. f.id = e.id /\ f.src = e.src /\ f.dest = e.dest /\ (f \in TreeRequest <=> e \in TreeRequest)
  BY <1>1, EventFacts DEF Stamped, TreeTypeOK
<1>5. ASSUME UNCHANGED <<pend, seen>>
      PROVE  OlderCameNext(w) /\ CameInOrder' /\ \A d : Came(d)' = Came(d)
  <2>1. CameInOrder' /\ \A d : Came(d)' = Came(d)
    BY <1>5, SameCame
  <2> QED BY <1>2, <2>1 DEF OlderCameNext, OlderCame
<1>6. CASE Fails(r, e, w, q) \/ IsBack(r, e, w, q)
  <2>1. wire' = w /\ UNCHANGED <<pend, seen>>
    BY <1>6 DEF Fails, IsBack
  <2> QED BY <1>2, <1>3, <1>5, <2>1, OrderlyNext
<1>7. ASSUME NEW h, GoesOn(r, h, e, f, w, q) PROVE Orderly'
  <2>1. PICK v : v = wire'
    OBVIOUS
  <2>2. h \in Rtrs(net) /\ SentTo(h, e, f, r) /\ UNCHANGED <<pend, seen>>
    BY <1>4, <1>7 DEF GoesOn, SentTo
  <2>3. LastOn(w, v, r, h, f)
    <3>1. SUFFICES ASSUME NEW s \in Rtrs(net), NEW t \in Rtrs(net)
                   PROVE  /\ Len(w[s][t]) \in Nat
                          /\ \A i \in 1..Len(v[s][t]) :
                               \/ s = r /\ t = h /\ i = Len(w[s][t]) + 1 /\ v[s][t][i] = f
                               \/ i \in 1..Len(w[s][t]) /\ v[s][t][i] = w[s][t][i]
      BY DEF LastOn
    <3>2. w[s][t] \in Seq(TreeEvent) /\ w \in [Rtrs(net) -> [Rtrs(net) -> Seq(TreeEvent)]]
      BY DEF Typed
    <3>3. v[s][t] = IF s = r /\ t = h THEN Append(w[s][t], f) ELSE w[s][t]
      BY <1>7, <2>1, <2>2, <3>2 DEF GoesOn
    <3>4. CASE s = r /\ t = h
      BY <3>2, <3>3, <3>4, Appended
    <3>5. CASE ~(s = r /\ t = h)
      BY <3>2, <3>3, <3>5
    <3> QED BY <3>4, <3>5
  <2>4. Underway(v) /\ OlderAhead(v)
    BY <1>2, <2>2, <2>3, WireGrows
  <2>5. OlderCameNext(v)
    BY <1>5, <2>2, <2>3, OlderCameLast
  <2>6. CountedNext(v)
    BY <1>3, <1>4, <2>2, <2>3, CountedLast
  <2>7. CameInOrder'
    BY <1>5, <2>2
  <2> QED BY <2>1, <2>4, <2>5, <2>6, <2>7, OrderlyNext
<1>8. CASE Reaches(r, e, f, w, q) \/ HasToWait(r, e, f, kept, w, q)
  <2>1. /\ wire' = w /\ e \in TreeRequest /\ f \in TreeRequest /\ e.dest.rtr = r
    BY <1>8 DEF Reaches, HasToWait
  <2>2. \A d \in Servers : Came(d)' = IF d = e.dest THEN Append(Came(d), f) ELSE Came(d)
    BY <1>8, <2>1, CameGrows
  <2>3. \A d \in Servers : d \in known => pend'[d] = <<>>
    BY <1>8 DEF Reaches, HasToWait, CameInOrder, TreeTypeOK
  <2>4. Comes(w, e, r) /\ e.id <= Cardinality(asks')
    BY <2>1
  <2>5. OlderCameNext(w) /\ CameInOrder'
    BY <1>2, <1>4, <2>1, <2>2, <2>3, <2>4, CameNext
  <2> QED BY <1>2, <1>3, <2>1, <2>5, OrderlyNext
<1> QED BY <1>1, <1>6, <1>7, <1>8

(* A new request is younger than all others, and first on its way.         *)
LEMMA AskCounts ==
  ASSUME TreeTypeOK, Orderly, NEW r, NEW d, NEW i \in Asks, Ask(r, d, i)
  PROVE  CountGrows /\ AsksCounted' /\ Cardinality(asks') = i /\ Cardinality(asks) = i - 1
<1> DEFINE new == [id |-> i, at |-> r, of |-> d]
<1>1. i = Cardinality(asks) + 1 /\ asks' = asks \union {new} /\ new.id = i
  BY DEF Ask
<1>2. IsFiniteSet(asks) /\ Cardinality(asks) \in Nat
  BY FS_CardinalityType DEF TreeTypeOK
<1> HIDE DEF new
<1>3. \A a \in asks : a.id <= Cardinality(asks)
  BY DEF Orderly, AsksCounted
<1>4. new \notin asks
  <2>1. ~(i <= Cardinality(asks))
    BY <1>1, <1>2
  <2> QED BY <1>1, <1>3, <2>1
<1>5. Cardinality(asks') = Cardinality(asks) + 1
  BY <1>1, <1>2, <1>4, FS_AddElement
<1>6. \A a \in asks : a.id \in Nat
  BY TreeAssumption DEF TreeTypeOK
<1>7. ASSUME NEW a \in asks' PROVE a.id <= Cardinality(asks')
  <2>1. CASE a \in asks
    BY <1>2, <1>3, <1>5, <1>6, <2>1
  <2>2. CASE a = new
    BY <1>1, <1>2, <1>5, <2>2
  <2> QED BY <1>1, <2>1, <2>2
<1>8. AsksCounted'
  BY <1>7 DEF AsksCounted
<1> QED BY <1>1, <1>2, <1>5, <1>8 DEF CountGrows

LEMMA AskComes ==
  ASSUME TreeTypeOK, Addressed, Orderly, NEW r \in Rtrs(net), NEW e \in TreeRequest,
         e.id = Cardinality(asks) + 1, e.src.rtr = r
  PROVE  Comes(wire, e, r)
<1>1. e.src \in Asker /\ e.dest \in Here /\ e.dest \in Servers /\ net \in Nets
  BY DEF TreeRequest, Asker, Here, TreeTypeOK
<1>2. Cardinality(asks) \in Nat
  BY FS_CardinalityType DEF TreeTypeOK
<1>3. \E p \in Ways(e.src, e.dest) : p[Len(p)] = r
  <2>1. PICK p : p = <<r>>
    OBVIOUS
  <2>2. p \in Seq(Rtrs(net)) /\ Len(p) = 1 /\ p[1] = r
    BY <2>1
  <2>3. Len(p) > 0 /\ p[1] = e.src.rtr /\ 1..(Len(p) - 1) = {}
    BY <2>2
  <2>4. p \in Ways(e.src, e.dest)
    BY <2>2, <2>3 DEF Ways
  <2> QED BY <2>2, <2>4
<1>4. \A n \in 1..Len(Came(e.dest)) : Came(e.dest)[n].id < e.id
  <2>1. SUFFICES ASSUME NEW n \in 1..Len(Came(e.dest)) PROVE Came(e.dest)[n].id < e.id
    OBVIOUS
  <2>2. Came(e.dest)[n].id <= Cardinality(asks)
    BY <1>1 DEF Orderly, CameInOrder
  <2>3. Came(e.dest)[n] \in TreeRequest
    <3>1. Came(e.dest) \in Seq(TreeRequest)
      BY <1>1, CameFacts
    <3> QED BY <3>1, ElementOfSeq
  <2>4. Came(e.dest)[n].id \in Nat
    BY <1>1, <2>3, IdFacts DEF IdsAreNumbers
  <2> QED BY <1>2, <2>2, <2>4
<1>5. ASSUME NEW p \in FullWays(e.src, e.dest)
      PROVE  \E k \in 0..(Len(p) - 1) :
               /\ p[k + 1] = r
               /\ \A l \in 1..(Len(p) - 1) : \A i \in 1..Len(wire[p[l]][p[l + 1]]) :
                    Of(wire[p[l]][p[l + 1]][i], e.src, e.dest) =>
                      /\ l > k => wire[p[l]][p[l + 1]][i].id < e.id
                      /\ l <= k => wire[p[l]][p[l + 1]][i].id > e.id
  <2>1. /\ Len(p) \in Nat /\ Len(p) > 0 /\ p[1] = r
        /\ \A l \in 1..(Len(p) - 1) : p[l] \in Rtrs(net) /\ p[l + 1] \in Rtrs(net)
    BY WayFacts DEF FullWays
  <2>2. ASSUME NEW l \in 1..(Len(p) - 1), NEW i \in 1..Len(wire[p[l]][p[l + 1]]),
               Of(wire[p[l]][p[l + 1]][i], e.src, e.dest)
        PROVE  wire[p[l]][p[l + 1]][i].id < e.id
    <3>1. PICK a, b : a = p[l] /\ b = p[l + 1]
      OBVIOUS
    <3>2. a \in Rtrs(net) /\ b \in Rtrs(net) /\ i \in 1..Len(wire[a][b])
      BY <2>1, <3>1
    <3>3. wire[a][b] \in Seq(TreeEvent)
      BY <3>2 DEF TreeTypeOK
    <3>4. PICK g : g = wire[a][b][i]
      OBVIOUS
    <3>5. g \in TreeEvent /\ g.dest = e.dest
      BY <2>2, <3>1, <3>2, <3>3, <3>4, ElementOfSeq DEF Of
    <3>6. g \in TreeRequest /\ g.id \in Nat
      BY <1>1, <3>5, EventFacts, IdFacts DEF IdsAreNumbers
    <3>7. g.id <= Cardinality(asks)
      BY <3>2, <3>4, <3>6 DEF Orderly, Counted
    <3>8. g.id < e.id
      BY <1>2, <3>6, <3>7
    <3> QED BY <3>1, <3>4, <3>8
  <2>3. 0 \in 0..(Len(p) - 1) /\ p[0 + 1] = r /\ \A l \in 1..(Len(p) - 1) : l > 0 /\ ~(l <= 0)
    BY <2>1
  <2> QED BY <2>2, <2>3
<1> QED BY <1>3, <1>4, <1>5 DEF Comes

(* w is wire without the first event from s to r.                          *)
FirstOff(w, s, r) ==
  \A t, u \in Rtrs(net) : LET c == IF t = s /\ u = r THEN 1 ELSE 0 IN
    \A j \in 1..Len(w[t][u]) :
      j + c \in 1..Len(wire[t][u]) /\ w[t][u][j] = wire[t][u][j + c]

LEMMA PassLeaves ==
  ASSUME TreeTypeOK, Orderly, NEW s \in Rtrs(net), NEW r \in Rtrs(net), NEW w, FirstOff(w, s, r)
  PROVE  InOrderOn(w)
<1>1. Underway(wire) /\ OlderAhead(wire) /\ OlderCame(wire) /\ Counted(wire)
  BY DEF Orderly
<1>2. \A t, u \in Rtrs(net) : \A j \in 1..Len(w[t][u]) :
        \E i \in 1..Len(wire[t][u]) : w[t][u][j] = wire[t][u][i]
  BY DEF FirstOff
<1>3. Underway(w)
  <2>1. SUFFICES ASSUME NEW t \in Rtrs(net), NEW u \in Rtrs(net), NEW i \in 1..Len(w[t][u]),
                        w[t][u][i] \in TreeRequest
                 PROVE  \E p \in Ways(w[t][u][i].src, w[t][u][i].dest) :
                          Len(p) > 1 /\ p[Len(p) - 1] = t /\ p[Len(p)] = u
    BY DEF Underway
  <2>2. PICK j \in 1..Len(wire[t][u]) : w[t][u][i] = wire[t][u][j]
    BY <1>2
  <2>3. PICK g : g = wire[t][u][j]
    OBVIOUS
  <2>4. \E p \in Ways(g.src, g.dest) : Len(p) > 1 /\ p[Len(p) - 1] = t /\ p[Len(p)] = u
    BY <1>1, <2>1, <2>2, <2>3 DEF Underway
  <2> QED BY <2>2, <2>3, <2>4
<1>4. Counted(w)
  <2>1. SUFFICES ASSUME NEW t \in Rtrs(net), NEW u \in Rtrs(net), NEW i \in 1..Len(w[t][u]),
                        w[t][u][i] \in TreeRequest
                 PROVE  w[t][u][i].id <= Cardinality(asks)
    BY DEF Counted
  <2>2. PICK j \in 1..Len(wire[t][u]) : w[t][u][i] = wire[t][u][j]
    BY <1>2
  <2> QED BY <1>1, <2>1, <2>2 DEF Counted
<1>5. OlderCame(w)
  <2>1. SUFFICES ASSUME NEW o \in Asker, NEW d \in Here, NEW p \in FullWays(o, d),
                        NEW k \in 1..(Len(p) - 1), NEW i \in 1..Len(w[p[k]][p[k + 1]]),
                        Of(w[p[k]][p[k + 1]][i], o, d),
                        NEW n \in 1..Len(Came(d)), Came(d)[n].src = o
                 PROVE  Came(d)[n].id < w[p[k]][p[k + 1]][i].id
    BY DEF OlderCame
  <2>2. p[k] \in Rtrs(net) /\ p[k + 1] \in Rtrs(net)
    BY WayFacts DEF FullWays
  <2>3. PICK j \in 1..Len(wire[p[k]][p[k + 1]]) : w[p[k]][p[k + 1]][i] = wire[p[k]][p[k + 1]][j]
    BY <1>2, <2>2
  <2>4. Of(wire[p[k]][p[k + 1]][j], o, d)
    BY <2>1, <2>3
  <2> QED BY <1>1, <2>1, <2>3, <2>4 DEF OlderCame
<1>6. OlderAhead(w)
  <2>1. SUFFICES ASSUME NEW o \in Asker, NEW d \in Here, NEW p \in FullWays(o, d),
                        NEW k \in 1..(Len(p) - 1), NEW l \in 1..(Len(p) - 1),
                        NEW i \in 1..Len(w[p[k]][p[k + 1]]), NEW j \in 1..Len(w[p[l]][p[l + 1]]),
                        Of(w[p[k]][p[k + 1]][i], o, d), Of(w[p[l]][p[l + 1]][j], o, d),
                        k < l \/ (k = l /\ i > j)
                 PROVE  w[p[k]][p[k + 1]][i].id > w[p[l]][p[l + 1]][j].id
    BY DEF OlderAhead
  <2>2. PICK a, b, c, z : a = p[k] /\ b = p[k + 1] /\ c = p[l] /\ z = p[l + 1]
    OBVIOUS
  <2>3. a \in Rtrs(net) /\ b \in Rtrs(net) /\ c \in Rtrs(net) /\ z \in Rtrs(net)
    BY <2>2, WayFacts DEF FullWays
  <2>4. PICK x, y : /\ x = IF a = s /\ b = r THEN 1 ELSE 0
                    /\ y = IF c = s /\ z = r THEN 1 ELSE 0
    OBVIOUS
  <2>5. /\ i + x \in 1..Len(wire[a][b]) /\ w[a][b][i] = wire[a][b][i + x]
        /\ j + y \in 1..Len(wire[c][z]) /\ w[c][z][j] = wire[c][z][j + y]
    <3>1. i \in 1..Len(w[a][b]) /\ j \in 1..Len(w[c][z])
      BY <2>2
    <3>2. i + x \in 1..Len(wire[a][b]) /\ w[a][b][i] = wire[a][b][i + x]
      BY <2>3, <2>4, <3>1 DEF FirstOff
    <3>3. j + y \in 1..Len(wire[c][z]) /\ w[c][z][j] = wire[c][z][j + y]
      BY <2>3, <2>4, <3>1 DEF FirstOff
    <3> QED BY <3>2, <3>3
  <2>6. k < l \/ (k = l /\ i + x > j + y)
    <3>1. k = l => x = y
      BY <2>2, <2>4
    <3> QED BY <2>1, <2>4, <3>1
  <2>7. PICK m, n : m = i + x /\ n = j + y
    OBVIOUS
  <2>8. /\ m \in 1..Len(wire[p[k]][p[k + 1]]) /\ n \in 1..Len(wire[p[l]][p[l + 1]])
        /\ w[p[k]][p[k + 1]][i] = wire[p[k]][p[k + 1]][m]
        /\ w[p[l]][p[l + 1]][j] = wire[p[l]][p[l + 1]][n]
        /\ k < l \/ (k = l /\ m > n)
    BY <2>2, <2>5, <2>6, <2>7
  <2>9. Of(wire[p[k]][p[k + 1]][m], o, d) /\ Of(wire[p[l]][p[l + 1]][n], o, d)
    BY <2>1, <2>8
  <2>10. wire[p[k]][p[k + 1]][m].id > wire[p[l]][p[l + 1]][n].id
    BY <1>1, <2>8, <2>9 DEF OlderAhead
  <2> QED BY <2>8, <2>10
<1> QED BY <1>3, <1>4, <1>5, <1>6 DEF InOrderOn

LEMMA PassComes ==
  ASSUME TreeTypeOK, Addressed, Orderly, NEW s \in Rtrs(net), NEW r \in Rtrs(net), NEW w,
         FirstOff(w, s, r), wire[s][r] # <<>>, NEW e \in TreeRequest, e = wire[s][r][1]
  PROVE  Comes(w, e, r) /\ e.id <= Cardinality(asks)
<1>0. Underway(wire) /\ OlderAhead(wire) /\ OlderCame(wire) /\ Counted(wire)
  BY DEF Orderly
<1>1. e.src \in Asker /\ e.dest \in Here
  BY DEF TreeRequest, Asker
<1>2. 1 \in 1..Len(wire[s][r])
  BY DEF TreeTypeOK
<1>3. e.id <= Cardinality(asks)
  BY <1>0, <1>2 DEF Counted
<1>4. PICK u \in Ways(e.src, e.dest) : Len(u) > 1 /\ u[Len(u) - 1] = s /\ u[Len(u)] = r
  BY <1>0, <1>2 DEF Underway
<1>5. PICK k : k = Len(u) - 1
  OBVIOUS
<1>6. Len(u) \in Nat /\ k \in 1..(Len(u) - 1) /\ u[k] = s /\ u[k + 1] = r /\ k + 1 = Len(u)
  BY <1>4, <1>5, WayFacts
<1>7. ASSUME NEW p \in FullWays(e.src, e.dest)
      PROVE  k \in 1..(Len(p) - 1) /\ p[k] = s /\ p[k + 1] = r
  <2>1. Len(u) <= Len(p) /\ \A m \in 1..Len(u) : u[m] = p[m]
    BY OneWay
  <2>2. Len(p) \in Nat
    BY WayFacts DEF FullWays
  <2>3. k \in 1..Len(u) /\ k + 1 \in 1..Len(u)
    BY <1>6
  <2> QED BY <1>6, <2>1, <2>2, <2>3
<1>8. ASSUME NEW p \in FullWays(e.src, e.dest)
      PROVE  /\ k \in 1..(Len(p) - 1) /\ p[k + 1] = r
             /\ 1 \in 1..Len(wire[p[k]][p[k + 1]]) /\ wire[p[k]][p[k + 1]][1] = e
             /\ Of(wire[p[k]][p[k + 1]][1], e.src, e.dest)
  BY <1>2, <1>7 DEF Of
<1>9. ASSUME NEW p \in FullWays(e.src, e.dest), NEW n \in 1..Len(Came(e.dest)),
             Came(e.dest)[n].src = e.src
      PROVE  Came(e.dest)[n].id < e.id
  BY <1>0, <1>1, <1>8, <1>9 DEF OlderCame
<1>10. ASSUME NEW p \in FullWays(e.src, e.dest), NEW l \in 1..(Len(p) - 1),
              NEW i \in 1..Len(w[p[l]][p[l + 1]]), Of(w[p[l]][p[l + 1]][i], e.src, e.dest)
       PROVE  /\ l > k => w[p[l]][p[l + 1]][i].id < e.id
              /\ l <= k => w[p[l]][p[l + 1]][i].id > e.id
  <2>1. p[l] \in Rtrs(net) /\ p[l + 1] \in Rtrs(net)
    BY WayFacts DEF FullWays
  <2>2. PICK a, b : a = p[l] /\ b = p[l + 1]
    OBVIOUS
  <2>3. PICK j \in 1..Len(wire[a][b]) :
          /\ w[a][b][i] = wire[a][b][j] /\ (a = s /\ b = r => j = i + 1)
    <3>1. PICK c : c = IF a = s /\ b = r THEN 1 ELSE 0
      OBVIOUS
    <3>2. i + c \in 1..Len(wire[a][b]) /\ w[a][b][i] = wire[a][b][i + c]
      BY <2>1, <2>2, <3>1 DEF FirstOff
    <3> QED BY <3>1, <3>2
  <2>4. /\ j \in 1..Len(wire[p[l]][p[l + 1]]) /\ wire[p[l]][p[l + 1]][j] = w[p[l]][p[l + 1]][i]
        /\ Of(wire[p[l]][p[l + 1]][j], e.src, e.dest)
    BY <1>10, <2>2, <2>3
  <2>5. ASSUME l > k PROVE w[p[l]][p[l + 1]][i].id < e.id
    <3>1. wire[p[k]][p[k + 1]][1].id > wire[p[l]][p[l + 1]][j].id
      BY <1>0, <1>1, <1>8, <2>4, <2>5 DEF OlderAhead
    <3>2. w[p[l]][p[l + 1]][i] \in TreeEvent
      <4>1. wire[a][b] \in Seq(TreeEvent)
        BY <2>1, <2>2 DEF TreeTypeOK
      <4> QED BY <2>2, <2>3, <4>1, ElementOfSeq
    <3>3. w[p[l]][p[l + 1]][i].id \in Nat /\ e.id \in Nat
      BY <3>2, IdFacts DEF IdsAreNumbers, TreeTypeOK
    <3> QED BY <1>8, <2>4, <3>1, <3>3
  <2>6. ASSUME l <= k PROVE w[p[l]][p[l + 1]][i].id > e.id
    <3>1. l < k \/ (l = k /\ j > 1)
      <4>1. l = k => j = i + 1
        BY <1>7, <2>2, <2>3
      <4>2. k \in Int /\ l \in Int /\ i \in Nat /\ i > 0
        BY <1>6
      <4> QED BY <2>6, <4>1, <4>2
    <3>2. wire[p[l]][p[l + 1]][j].id > wire[p[k]][p[k + 1]][1].id
      BY <1>0, <1>1, <1>8, <2>4, <3>1 DEF OlderAhead
    <3> QED BY <1>8, <2>4, <3>2
  <2> QED BY <2>5, <2>6
<1>11. ASSUME NEW p \in FullWays(e.src, e.dest)
       PROVE  \E m \in 0..(Len(p) - 1) :
               /\ p[m + 1] = r
               /\ \A l \in 1..(Len(p) - 1) : \A i \in 1..Len(w[p[l]][p[l + 1]]) :
                    Of(w[p[l]][p[l + 1]][i], e.src, e.dest) =>
                      /\ l > m => w[p[l]][p[l + 1]][i].id < e.id
                      /\ l <= m => w[p[l]][p[l + 1]][i].id > e.id
  <2>1. k \in 0..(Len(p) - 1) /\ p[k + 1] = r
    BY <1>8
  <2> QED BY <1>10, <2>1
<1>12. FullWays(e.src, e.dest) # {} =>
         \A n \in 1..Len(Came(e.dest)) : Came(e.dest)[n].src = e.src => Came(e.dest)[n].id < e.id
  BY <1>9
<1>13. \E p \in Ways(e.src, e.dest) : p[Len(p)] = r
  BY <1>4
<1> QED BY <1>3, <1>11, <1>12, <1>13 DEF Comes

(* A server that connects is sent what has waited, or its router ends.     *)
LEMMA ConnectKeeps ==
  ASSUME TreeTypeOK, Addressed, NEW d \in Here, SrvConnects(d), NEW c \in Servers
  PROVE  /\ \A n \in 1..Len(Came(c)') : n \in 1..Len(Came(c)) /\ (Came(c)')[n] = Came(c)[n]
         /\ d = c => pend'[c] = <<>>
         /\ d # c => pend'[c] = pend[c]
<1>1. /\ d \in Servers /\ pend' = [pend EXCEPT ![d] = <<>>]
      /\ seen' = seen \/ seen' = [seen EXCEPT ![d] = @ \o Waiting(d)]
  BY DEF SrvConnects, Here, Waiting
<1>2. /\ Waiting(c) \in Seq(TreeRequest) /\ seen[c] \in Seq(TreeRequest)
      /\ pend \in [Servers -> Seq([ev : TreeRequest, kept : BOOLEAN])]
      /\ seen \in [Servers -> Seq(TreeRequest)]
  BY WaitingFacts DEF TreeTypeOK
<1>3. CASE c = d
  <2>1. pend'[c] = <<>>
    BY <1>1, <1>2, <1>3
  <2>2. Waiting(c)' = <<>>
    BY <2>1 DEF Waiting
  <2>3. seen'[c] = seen[c] \/ seen'[c] = seen[c] \o Waiting(c)
    BY <1>1, <1>2, <1>3
  <2>4. seen[c] \o Waiting(c) \in Seq(TreeRequest)
    BY <1>2, ConcatProperties
  <2>5. seen'[c] \in Seq(TreeRequest)
    BY <1>2, <2>3, <2>4
  <2>6. Came(c)' = seen'[c]
    <3>1. Came(c)' = seen'[c] \o <<>>
      BY <2>2 DEF Came
    <3> QED BY <2>5, <3>1
  <2>7. CASE seen'[c] = seen[c]
    <3>1. \A n \in 1..Len(seen[c]) : n \in 1..Len(Came(c)) /\ Came(c)[n] = seen[c][n]
      <4>1. PICK a, b : a = Len(seen[c]) /\ b = Len(pend[c])
        OBVIOUS
      <4>2. Len(Came(c)) = a + b /\ a \in Nat /\ b \in Nat
        BY <4>1, CameFacts
      <4>3. \A n \in 1..a : n \in 1..Len(Came(c))
        BY <4>2
      <4> QED BY <4>1, <4>3, CameFacts
    <3> QED BY <1>3, <2>1, <2>6, <2>7, <3>1
  <2>8. CASE seen'[c] = seen[c] \o Waiting(c)
    <3>1. Came(c)' = Came(c)
      BY <2>6, <2>8 DEF Came
    <3> QED BY <1>3, <2>1, <3>1
  <2> QED BY <2>3, <2>7, <2>8
<1>4. CASE c # d
  <2>1. pend'[c] = pend[c] /\ seen'[c] = seen[c]
    BY <1>1, <1>2, <1>4
  <2>2. Came(c)' = Came(c)
    BY <2>1 DEF Came, Waiting
  <2> QED BY <1>4, <2>1, <2>2
<1> QED BY <1>3, <1>4

LEMMA OrderlyInit == TreeInit => Orderly
<1> SUFFICES ASSUME TreeInit PROVE Orderly
  OBVIOUS
<1>1. \A s, r \in Rtrs(net) : 1..Len(wire[s][r]) = {}
  BY DEF TreeInit
<1>2. Underway(wire) /\ Counted(wire)
  BY <1>1 DEF Underway, Counted
<1>3. OlderAhead(wire) /\ OlderCame(wire)
  <2>1. ASSUME NEW o, NEW d, NEW p \in FullWays(o, d), NEW k \in 1..(Len(p) - 1)
        PROVE  1..Len(wire[p[k]][p[k + 1]]) = {}
    <3>1. p[k] \in Rtrs(net) /\ p[k + 1] \in Rtrs(net)
      BY WayFacts DEF FullWays
    <3> QED BY <1>1, <3>1
  <2>2. OlderAhead(wire)
    <3>1. SUFFICES ASSUME NEW o \in Asker, NEW d \in Here, NEW p \in FullWays(o, d),
                          NEW k \in 1..(Len(p) - 1), NEW i \in 1..Len(wire[p[k]][p[k + 1]])
                   PROVE  FALSE
      BY DEF OlderAhead
    <3> QED BY <2>1
  <2>3. OlderCame(wire)
    <3>1. SUFFICES ASSUME NEW o \in Asker, NEW d \in Here, NEW p \in FullWays(o, d),
                          NEW k \in 1..(Len(p) - 1), NEW i \in 1..Len(wire[p[k]][p[k + 1]])
                   PROVE  FALSE
      BY DEF OlderCame
    <3> QED BY <2>1
  <2> QED BY <2>2, <2>3
<1>4. CameInOrder
  <2>1. ASSUME NEW d \in Servers PROVE Len(Came(d)) = 0 /\ pend[d] = <<>>
    <3>1. seen[d] = <<>> /\ pend[d] = <<>>
      BY DEF TreeInit
    <3>2. TreeTypeOK /\ Addressed
      BY TypesInit
    <3>3. Len(Came(d)) = Len(seen[d]) + Len(pend[d])
      BY <3>2, CameFacts
    <3> QED BY <3>1, <3>3
  <2>2. 1..0 = {}
    OBVIOUS
  <2> QED BY <2>1, <2>2 DEF CameInOrder
<1>5. AsksCounted
  BY DEF TreeInit, AsksCounted
<1> QED BY <1>2, <1>3, <1>4, <1>5 DEF Orderly

(* Steps that leave what is on its way and the requests as they are.       *)
LEMMA OrderlyKept ==
  ASSUME TreeTypeOK, Addressed, Orderly, UNCHANGED <<net, links, wire, asks>>, OlderCameNext(wire),
         CameInOrder'
  PROVE  Orderly'
<1>1. PICK v : v = wire
  OBVIOUS
<1>2. Cardinality(asks') \in Nat /\ CountGrows
  BY FS_CardinalityType DEF TreeTypeOK, CountGrows
<1>3. Underway(wire) /\ OlderAhead(wire) /\ CountedNext(wire)
  BY DEF Orderly, Counted, CountedNext
<1>4. Underway(v) /\ OlderAhead(v) /\ OlderCameNext(v) /\ CountedNext(v) /\ wire' = v
  BY <1>1, <1>3
<1>5. AsksCounted'
  BY DEF Orderly, AsksCounted
<1> QED BY <1>4, <1>5, OrderlyNext

LEMMA OrderlyStep ==
  ASSUME TreeTypeOK, Addressed, Orderly, [TreeNext]_treeVars
  PROVE  Orderly'
<1>0. /\ Underway(wire) /\ OlderAhead(wire) /\ OlderCame(wire) /\ Counted(wire)
      /\ CameInOrder /\ AsksCounted /\ Cardinality(asks) \in Nat
  BY FS_CardinalityType DEF Orderly, TreeTypeOK
<1>a. \A s, t \in Rtrs(net) : wire[s][t] \in Seq(TreeEvent)
  BY DEF TreeTypeOK
<1>1. ASSUME NEW r \in Rtrs(net), NEW d \in Here, NEW i \in Asks, Ask(r, d, i)
      PROVE  Orderly'
  <2>1. PICK e, w, q :
          /\ e \in TreeEvent
          /\ e \in TreeRequest /\ e.id = i /\ e.src = [rtr |-> r, srv |-> Self]
          /\ w = wire /\ q = srvQ /\ Route(r, e, TRUE, w, q)
    BY <1>1, AskSends
  <2>2. CountGrows /\ AsksCounted' /\ Cardinality(asks') = i /\ Cardinality(asks) = i - 1
    BY <1>1, AskCounts
  <2>3. e.id = Cardinality(asks) + 1 /\ e.src.rtr = r /\ e.id <= Cardinality(asks')
    BY <2>1, <2>2 DEF CountGrows
  <2>4. Comes(wire, e, r)
    BY <2>1, <2>3, AskComes
  <2>5. Comes(w, e, r) /\ InOrderOn(w) /\ Typed(w)
    <3>1. InOrderOn(wire) /\ Typed(wire)
      BY <1>0, <1>a DEF InOrderOn, Typed, TreeTypeOK
    <3> QED BY <2>1, <2>4, <3>1
  <2>6. UNCHANGED <<net, links, known>>
    BY <1>1 DEF Ask
  <2> QED BY <1>0, <2>1, <2>2, <2>3, <2>5, <2>6, RouteInOrder
<1>2. ASSUME NEW s \in Rtrs(net), NEW r \in Rtrs(net), Pass(s, r)
      PROVE  Orderly'
  <2>1. PICK e, w, q :
          /\ e \in TreeEvent
          /\ e = Head(wire[s][r]) /\ w = [wire EXCEPT ![s][r] = Tail(@)]
          /\ w \in [Rtrs(net) -> [Rtrs(net) -> Seq(TreeEvent)]]
          /\ Route(r, e, FALSE, w, q)
    BY <1>2, PassSends
  <2>2. UNCHANGED <<net, links, known, asks>> /\ wire[s][r] # <<>> /\ wire[s][r] \in Seq(TreeEvent)
    BY <1>2 DEF Pass, TreeTypeOK
  <2>3. e = wire[s][r][1]
    BY <2>1, <2>2
  <2>4. FirstOff(w, s, r)
    <3>1. SUFFICES ASSUME NEW t \in Rtrs(net), NEW u \in Rtrs(net), NEW j \in 1..Len(w[t][u])
                   PROVE  LET c == IF t = s /\ u = r THEN 1 ELSE 0 IN
                          j + c \in 1..Len(wire[t][u]) /\ w[t][u][j] = wire[t][u][j + c]
      BY DEF FirstOff
    <3>2. w[t][u] = IF t = s /\ u = r THEN Tail(wire[t][u]) ELSE wire[t][u]
      BY <2>1 DEF TreeTypeOK
    <3>3. CASE t = s /\ u = r
      BY <2>2, <3>2, <3>3
    <3>4. CASE ~(t = s /\ u = r)
      BY <1>a, <3>2, <3>4
    <3> QED BY <3>3, <3>4
  <2>5. Typed(w) /\ InOrderOn(w)
    BY <2>1, <2>4, PassLeaves DEF Typed
  <2>6. e \in TreeRequest => Comes(w, e, r) /\ e.id <= Cardinality(asks')
    BY <2>2, <2>3, <2>4, PassComes
  <2>7. CountGrows /\ AsksCounted'
    BY <1>0, <2>2 DEF CountGrows, AsksCounted
  <2> QED BY <1>0, <2>1, <2>2, <2>5, <2>6, <2>7, RouteInOrder
<1>3. ASSUME NEW d \in Here, SrvReplies(d)
      PROVE  Orderly'
  <2>1. PICK e, w, q : e \in TreeEvent /\ e \in TreeReply /\ w = wire /\ Route(d.rtr, e, FALSE, w, q)
    BY <1>3, SrvSends
  <2>2. UNCHANGED <<net, links, known, asks>> /\ d.rtr \in Rtrs(net)
    BY <1>3 DEF SrvReplies, Here
  <2>3. Typed(w) /\ InOrderOn(w)
    <3>1. InOrderOn(wire) /\ Typed(wire)
      BY <1>0, <1>a DEF InOrderOn, Typed, TreeTypeOK
    <3> QED BY <2>1, <3>1
  <2>4. e \notin TreeRequest
    BY <2>1, EventFacts DEF TreeTypeOK
  <2>5. CountGrows /\ AsksCounted'
    BY <1>0, <2>2 DEF CountGrows, AsksCounted
  <2> QED BY <1>0, <2>1, <2>2, <2>3, <2>4, <2>5, RouteInOrder
<1>4. ASSUME NEW d \in Here, SrvConnects(d)
      PROVE  Orderly'
  <2>1. UNCHANGED <<net, links, wire, asks>> /\ known' = known \union {d}
    BY <1>4 DEF SrvConnects
  <2>2. \A c \in Servers :
          /\ \A n \in 1..Len(Came(c)') : n \in 1..Len(Came(c)) /\ (Came(c)')[n] = Came(c)[n]
          /\ d = c => pend'[c] = <<>>
          /\ d # c => pend'[c] = pend[c]
    BY <1>4, ConnectKeeps
  <2>3. OlderCameNext(wire)
    <3>1. SUFFICES ASSUME NEW o \in Asker, NEW c \in Here, NEW p \in FullWays(o, c),
                          NEW k \in 1..(Len(p) - 1), NEW i \in 1..Len(wire[p[k]][p[k + 1]]),
                          Of(wire[p[k]][p[k + 1]][i], o, c),
                          NEW n \in 1..Len(Came(c)'), (Came(c)')[n].src = o
                   PROVE  (Came(c)')[n].id < wire[p[k]][p[k + 1]][i].id
      BY DEF OlderCameNext
    <3>2. n \in 1..Len(Came(c)) /\ (Came(c)')[n] = Came(c)[n]
      BY <2>2 DEF Here
    <3>3. Came(c)[n].id < wire[p[k]][p[k + 1]][i].id
      BY <1>0, <3>1, <3>2 DEF OlderCame
    <3> QED BY <3>2, <3>3
  <2>4. CameInOrder'
    BY <1>0, <2>1, <2>2 DEF CameInOrder
  <2> QED BY <2>1, <2>3, <2>4, OrderlyKept
<1>5. CASE \/ \E r \in Rtrs(net) : RtrDies(r)
           \/ \E r, s \in Rtrs(net) : EndOfFile(r, s)
           \/ UNCHANGED treeVars
  <2>1. UNCHANGED <<net, links, wire, known, pend, seen, asks>>
    BY <1>5 DEF RtrDies, EndOfFile, treeVars
  <2>2. CountGrows
    BY <1>0, <2>1 DEF CountGrows
  <2>3. CameInOrder' /\ \A d : Came(d)' = Came(d)
    BY <1>0, <2>1, <2>2, SameCame
  <2>4. OlderCameNext(wire)
    BY <1>0, <2>3 DEF OlderCame, OlderCameNext
  <2> QED BY <2>1, <2>3, <2>4, OrderlyKept
<1> QED BY <1>1, <1>2, <1>3, <1>4, <1>5 DEF TreeNext, TreeWork

-----------------------------------------------------------------------------
TreeIInv ==
  /\ TreeTypeOK /\ Addressed
  /\ SaysSo(net) => NoneTwice
  /\ Traced /\ TreeBlameless
  /\ Orderly

(* Whatever the routers do, an event is for a server or for a router that  *)
(* has asked, and what has come to a server or waits for it is for that    *)
(* server; links, channels, waiting events and requests are those of one   *)
(* tree (Router::sendEvent, TreeCore, doPending).                          *)
THEOREM TreeInductive == TreeSpec => []TreeIInv
<1>1. TreeInit => TreeIInv
  <2> SUFFICES ASSUME TreeInit PROVE TreeIInv
    OBVIOUS
  <2>1. TreeTypeOK /\ Addressed /\ Orderly
    BY TypesInit, OrderlyInit
  <2>2. NoneTwice
    BY DEF TreeInit, NoneTwice
  <2>3. Traced /\ TreeBlameless
    BY DEF TreeInit, Traced, TreeBlameless
  <2> QED BY <2>1, <2>2, <2>3 DEF TreeIInv
<1>2. TreeIInv /\ [TreeNext]_treeVars => TreeIInv'
  <2> SUFFICES ASSUME TreeIInv, [TreeNext]_treeVars PROVE TreeIInv'
    OBVIOUS
  <2>1. net' = net
    BY DEF TreeNext, TreeWork, Ask, Pass, SrvReplies, SrvConnects, RtrDies, EndOfFile, treeVars
  <2>2. SaysSo(net)' = SaysSo(net)
    BY <2>1
  <2>3. (TreeTypeOK /\ Addressed)' /\ (Traced /\ TreeBlameless)' /\ Orderly'
    BY TypesStep, TracedStep, OrderlyStep DEF TreeIInv
  <2>4. SaysSo(net) => NoneTwice'
    BY NoneTwiceStep DEF TreeIInv
  <2> QED BY <2>2, <2>3, <2>4 DEF TreeIInv
<1> QED BY <1>1, <1>2, PTL DEF TreeSpec

(* No event goes through a router twice, if the arguments of the daemons   *)
(* say what they mean: TreeCore::getChannel leads it nearer at each hop.   *)
THEOREM NoneTwiceThrough == TreeSpec => []NoDetour
<1>1. TreeIInv => NoDetour
  <2> SUFFICES ASSUME TreeIInv, SaysSo(net)
               PROVE  /\ \A s, r \in Rtrs(net) : \A i \in DOMAIN wire[s][r] :
                           IsInjective(wire[s][r][i].path)
                      /\ \A d \in Here : \A i \in DOMAIN seen[d] : IsInjective(seen[d][i].path)
    BY DEF NoDetour
  <2>1. NoneTwice /\ TreeTypeOK
    BY DEF TreeIInv
  <2>2. \A s, r \in Rtrs(net) : DOMAIN wire[s][r] = 1..Len(wire[s][r])
    BY <2>1 DEF TreeTypeOK
  <2>3. \A d \in Here : d \in Servers /\ DOMAIN seen[d] = 1..Len(seen[d])
    BY <2>1 DEF TreeTypeOK, Here
  <2> QED BY <2>1, <2>2, <2>3 DEF NoneTwice, OnCourse
<1> QED BY <1>1, TreeInductive, PTL

(* A router ends only because of another one it is linked to or of its     *)
(* arguments, and uses freed memory only after the request of a client of  *)
(* another router has waited (Router::sendEvent, RouterEvent::process,     *)
(* RouterData::process).                                                   *)
THEOREM TreeNotToBlame == TreeSpec => []TreeBlameless
<1>1. TreeIInv => TreeBlameless
  BY DEF TreeIInv
<1> QED BY <1>1, TreeInductive, PTL

(* What the clients of one router ask of a server reaches it in the order  *)
(* they asked, whatever links it takes and though it waits in              *)
(* m_pendingEvents (Router::sendEvent, doPending), and whether or not the  *)
(* ranges of the routers agree.                                            *)
THEOREM SentInOrder == TreeSpec => []InOrder
<1>1. TreeIInv => InOrder
  <2> SUFFICES ASSUME TreeIInv, NEW d \in Here, NEW i \in DOMAIN seen[d], NEW j \in DOMAIN seen[d],
                      i < j /\ seen[d][i].src = seen[d][j].src
               PROVE  seen[d][i].id < seen[d][j].id
    BY DEF InOrder
  <2>1. TreeTypeOK /\ Addressed /\ CameInOrder /\ d \in Servers
    BY DEF TreeIInv, Orderly, Here
  <2>2. i \in 1..Len(seen[d]) /\ j \in 1..Len(seen[d])
    BY <2>1 DEF TreeTypeOK
  <2>3. Came(d)[i] = seen[d][i] /\ Came(d)[j] = seen[d][j]
    BY <2>1, <2>2, CameFacts
  <2>4. i \in 1..Len(Came(d)) /\ j \in 1..Len(Came(d))
    <3>1. PICK a, b : a = Len(seen[d]) /\ b = Len(pend[d])
      OBVIOUS
    <3>2. Len(Came(d)) = a + b /\ a \in Nat /\ b \in Nat
      BY <2>1, <3>1, CameFacts
    <3>3. i \in 1..a /\ j \in 1..a
      BY <2>2, <3>1
    <3> QED BY <3>2, <3>3
  <2>5. Came(d)[i].id < Came(d)[j].id
    BY <2>1, <2>3, <2>4 DEF CameInOrder
  <2> QED BY <2>3, <2>5
<1> QED BY <1>1, TreeInductive, PTL
=============================================================================
