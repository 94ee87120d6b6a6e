--------------------------- MODULE Router_proofs ---------------------------
(***************************************************************************)
(* Proofs about the router, its clients and its servers, for any numbers   *)
(* of them, any communicators and any requests.                            *)
(***************************************************************************)
EXTENDS Router, FiniteSetTheorems, SequenceTheorems, WellFoundedInduction, TLAPS

-----------------------------------------------------------------------------
(* Sets of numbers have a least element.                                   *)
LEMMA Least ==
  ASSUME NEW T, T \subseteq Nat, T # {}
  PROVE  \E m \in T : \A y \in T : m <= y
<1>1. \E x \in T : \A y \in T : <<y, x>> \notin OpToRel(<, Nat)
  BY NatLessThanWellFounded, WFMin
<1>2. OpToRel(<, Nat) = {ss \in Nat \X Nat : ss[1] < ss[2]}
  BY Zenon DEF OpToRel
<1>3. \A x, y \in Nat : x < y => <<x, y>> \in OpToRel(<, Nat)
  BY <1>2
<1>4. \E x \in T : \A y \in T : ~(y < x)
  BY <1>1, <1>3, Zenon
<1> QED BY <1>4

-----------------------------------------------------------------------------
(* FlattenSeq.  Flat(ss, f) says that f has the flattened beginnings of ss.*)
Flat(ss, n, f) == f = [i \in 1..n |-> IF i = 1 THEN ss[i] ELSE f[i-1] \o ss[i]]

LEMMA FlatExists ==
  ASSUME NEW ss, NEW n \in Nat
  PROVE  \E f : Flat(ss, n, f)
<1> DEFINE T == {m \in Nat : ~\E f : Flat(ss, m, f)}
<1>1. SUFFICES ASSUME T # {} PROVE FALSE
  OBVIOUS
<1>2. PICK m \in T : \A y \in T : m <= y
  BY <1>1, Least
<1>3. m # 0
  <2>1. Flat(ss, 0, [i \in 1..0 |-> <<>>])
    BY DEF Flat
  <2> QED BY <1>2, <2>1
<1>4. PICK f : Flat(ss, m - 1, f)
  BY <1>2, <1>3
<1> DEFINE g == [i \in 1..m |-> IF i = m THEN IF i = 1 THEN ss[i] ELSE f[i-1] \o ss[i] ELSE f[i]]
<1>5. \A i \in 1..m : g[i] = IF i = 1 THEN ss[i] ELSE g[i-1] \o ss[i]
  <2> SUFFICES ASSUME NEW i \in 1..m PROVE g[i] = IF i = 1 THEN ss[i] ELSE g[i-1] \o ss[i]
    OBVIOUS
  <2>1. f = [j \in 1..(m - 1) |-> IF j = 1 THEN ss[j] ELSE f[j-1] \o ss[j]]
    BY <1>4 DEF Flat
  <2>2. i # 1 => g[i-1] = f[i-1]
    BY <1>2
  <2>3. CASE i = m
    BY <2>2, <2>3
  <2>4. CASE i # m
    <3>1. i \in 1..(m - 1)
      BY <1>2, <2>4
    <3>2. f[i] = IF i = 1 THEN ss[i] ELSE f[i-1] \o ss[i]
      BY <2>1, <3>1
    <3> QED BY <2>2, <2>4, <3>2
  <2> QED BY <2>3, <2>4
<1>6. Flat(ss, m, g)
  BY <1>5 DEF Flat
<1> QED BY <1>2, <1>6

LEMMA FlattenIs ==
  ASSUME NEW ss, Len(ss) \in Nat, Len(ss) # 0
  PROVE  \E f : Flat(ss, Len(ss), f) /\ FlattenSeq(ss) = f[Len(ss)]
<1> DEFINE f == CHOOSE h : Flat(ss, Len(ss), h)
<1>1. Flat(ss, Len(ss), f)
  BY FlatExists
<1>2. FlattenSeq(ss) = f[Len(ss)]
  BY DEF FlattenSeq, Flat
<1> QED BY <1>1, <1>2

(* What FlattenSeq returns: a sequence of what is in the parts, and with   *)
(* nothing twice if nothing is twice in the parts.                         *)
FlatUpTo(ss, n, T, q) ==
  /\ q \in Seq(T)
  /\ \A x : x \in Range(q) <=> \E i \in 1..n : x \in Range(ss[i])
  /\ (\A i \in 1..n : IsInjective(ss[i]))
     /\ (\A i, j \in 1..n : i # j => Range(ss[i]) \cap Range(ss[j]) = {})
     => IsInjective(q)

LEMMA JoinFacts ==
  ASSUME NEW T, NEW p \in Seq(T), NEW q \in Seq(T)
  PROVE  /\ p \o q \in Seq(T) /\ Len(p \o q) = Len(p) + Len(q)
         /\ Range(p \o q) = Range(p) \cup Range(q)
         /\ IsInjective(p) /\ IsInjective(q) /\ Range(p) \cap Range(q) = {} => IsInjective(p \o q)
<1> DEFINE r == p \o q
<1>1. /\ r \in Seq(T) /\ Len(r) = Len(p) + Len(q) /\ Len(p) \in Nat /\ Len(q) \in Nat
      /\ DOMAIN r = 1..(Len(p) + Len(q)) /\ DOMAIN p = 1..Len(p) /\ DOMAIN q = 1..Len(q)
  OBVIOUS
<1>2. \A i \in 1..(Len(p) + Len(q)) :
        \/ i \in 1..Len(p) /\ r[i] = p[i]
        \/ i - Len(p) \in 1..Len(q) /\ r[i] = q[i - Len(p)]
  OBVIOUS
<1>3. \A i \in 1..Len(p) : i \in DOMAIN r /\ r[i] = p[i]
  OBVIOUS
<1>4. \A i \in 1..Len(q) : i + Len(p) \in DOMAIN r /\ r[i + Len(p)] = q[i]
  OBVIOUS
<1> HIDE DEF r
<1>5. Range(r) = Range(p) \cup Range(q)
  <2>1. ASSUME NEW x \in Range(r) PROVE x \in Range(p) \cup Range(q)
    BY <1>1, <1>2 DEF Range
  <2>2. ASSUME NEW x \in Range(p) PROVE x \in Range(r)
    BY <1>1, <1>3 DEF Range
  <2>3. ASSUME NEW x \in Range(q) PROVE x \in Range(r)
    BY <1>1, <1>4 DEF Range
  <2> QED BY <2>1, <2>2, <2>3
<1>6. ASSUME IsInjective(p), IsInjective(q), Range(p) \cap Range(q) = {}
      PROVE  IsInjective(r)
  <2> SUFFICES ASSUME NEW i \in DOMAIN r, NEW j \in DOMAIN r, r[i] = r[j] PROVE i = j
    BY DEF IsInjective
  <2>1. CASE i \in 1..Len(p) /\ r[i] = p[i] /\ j \in 1..Len(p) /\ r[j] = p[j]
    BY <1>1, <1>6, <2>1 DEF IsInjective
  <2>2. CASE i - Len(p) \in 1..Len(q) /\ r[i] = q[i - Len(p)] /\ j - Len(p) \in 1..Len(q) /\ r[j] = q[j - Len(p)]
    <3>1. i - Len(p) = j - Len(p)
      BY <1>1, <1>6, <2>2 DEF IsInjective
    <3> QED BY <1>1, <3>1
  <2>3. \A k \in 1..Len(p), l \in 1..Len(q) : p[k] # q[l]
    BY <1>1, <1>6 DEF Range
  <2> QED BY <1>1, <1>2, <2>1, <2>2, <2>3
<1> QED BY <1>1, <1>5, <1>6 DEF r

LEMMA FlatFacts ==
  ASSUME NEW T, NEW ss \in Seq(Seq(T))
  PROVE  FlatUpTo(ss, Len(ss), T, FlattenSeq(ss))
<1>1. Len(ss) \in Nat /\ \A i \in 1..Len(ss) : ss[i] \in Seq(T)
  OBVIOUS
<1>2. CASE Len(ss) = 0
  <2>1. FlattenSeq(ss) = ss /\ ss = <<>>
    BY <1>2 DEF FlattenSeq
  <2> QED BY <1>2, <2>1 DEF FlatUpTo, Range, IsInjective
<1>3. CASE Len(ss) # 0
  <2>1. PICK f : Flat(ss, Len(ss), f) /\ FlattenSeq(ss) = f[Len(ss)]
    BY <1>1, <1>3, FlattenIs
  <2>2. \A i \in 1..Len(ss) : f[i] = IF i = 1 THEN ss[i] ELSE f[i - 1] \o ss[i]
    BY <2>1 DEF Flat
  <2> DEFINE Bad == {n \in 1..Len(ss) : ~FlatUpTo(ss, n, T, f[n])}
  <2>3. ASSUME Bad # {} PROVE FALSE
    <3>1. PICK m \in Bad : \A y \in Bad : m <= y
      <4>1. Bad \subseteq Nat
        BY <1>1
      <4> QED BY <2>3, <4>1, Least
    <3>2. m \in 1..Len(ss) /\ ~FlatUpTo(ss, m, T, f[m])
      BY <3>1
    <3>3. CASE m = 1
      <4>1. f[m] = ss[1] /\ 1..m = {1}
        BY <2>2, <3>2, <3>3
      <4> QED BY <1>1, <3>2, <3>3, <4>1 DEF FlatUpTo
    <3>4. CASE m # 1
      <4>1. m - 1 \in 1..Len(ss) /\ m - 1 \notin Bad
        BY <1>1, <3>1, <3>2, <3>4
      <4>2. FlatUpTo(ss, m - 1, T, f[m - 1])
        BY <4>1
      <4> HIDE DEF Bad
      <4> DEFINE p == f[m - 1]
                 q == ss[m]
      <4>3. p \in Seq(T) /\ q \in Seq(T) /\ f[m] = p \o q
        BY <1>1, <2>2, <3>2, <3>4, <4>2 DEF FlatUpTo
      <4>4. 1..m = (1..(m - 1)) \cup {m} /\ m \notin 1..(m - 1)
        BY <3>2, <3>4
      <4>5. \A x : x \in Range(p) <=> \E i \in 1..(m - 1) : x \in Range(ss[i])
        BY <4>2 DEF FlatUpTo
      <4>6. (\A i \in 1..(m - 1) : IsInjective(ss[i]))
            /\ (\A i, j \in 1..(m - 1) : i # j => Range(ss[i]) \cap Range(ss[j]) = {})
            => IsInjective(p)
        BY <4>2 DEF FlatUpTo
      <4> HIDE DEF p, q
      <4>7. /\ p \o q \in Seq(T) /\ Range(p \o q) = Range(p) \cup Range(q)
            /\ IsInjective(p) /\ IsInjective(q) /\ Range(p) \cap Range(q) = {} => IsInjective(p \o q)
        BY <4>3, JoinFacts
      <4>8. \A x : x \in Range(p \o q) <=> \E i \in 1..m : x \in Range(ss[i])
        BY <4>4, <4>5, <4>7 DEF q
      <4>9. ASSUME \A i \in 1..m : IsInjective(ss[i]),
                   \A i, j \in 1..m : i # j => Range(ss[i]) \cap Range(ss[j]) = {}
            PROVE  IsInjective(p \o q)
        <5>1. IsInjective(p) /\ IsInjective(q)
          BY <4>4, <4>6, <4>9 DEF q
        <5>2. \A i \in 1..(m - 1) : Range(ss[i]) \cap Range(q) = {}
          BY <4>4, <4>9 DEF q
        <5>3. Range(p) \cap Range(q) = {}
          BY <4>5, <5>2
        <5> QED BY <4>7, <5>1, <5>3
      <4> QED BY <3>2, <4>3, <4>7, <4>8, <4>9 DEF FlatUpTo
    <3> QED BY <3>3, <3>4
  <2>4. Len(ss) \in 1..Len(ss)
    BY <1>1, <1>3
  <2> QED BY <2>1, <2>3, <2>4
<1> QED BY <1>2, <1>3

(* The part of a sequence at the places P, as Only makes it.               *)
Picked(ms, P) == FlattenSeq([n \in DOMAIN ms |-> IF n \in P THEN <<ms[n]>> ELSE <<>>])

LEMMA Singletons ==
  /\ \A x : Range(<<x>>) = {x} /\ IsInjective(<<x>>)
  /\ Range(<<>>) = {} /\ IsInjective(<<>>)
<1>1. \A x : DOMAIN <<x>> = {1} /\ <<x>>[1] = x
  OBVIOUS
<1>2. DOMAIN <<>> = {}
  OBVIOUS
<1> QED BY <1>1, <1>2 DEF Range, IsInjective

LEMMA PickedFacts ==
  ASSUME NEW T, NEW ms \in Seq(T), NEW P
  PROVE  /\ Picked(ms, P) \in Seq(T)
         /\ \A x : x \in Range(Picked(ms, P)) <=> \E n \in DOMAIN ms : n \in P /\ x = ms[n]
         /\ IsInjective(ms) => IsInjective(Picked(ms, P))
<1> DEFINE ss == [n \in DOMAIN ms |-> IF n \in P THEN <<ms[n]>> ELSE <<>>]
<1>1. DOMAIN ms = 1..Len(ms) /\ Len(ms) \in Nat /\ \A n \in DOMAIN ms : ms[n] \in T
  OBVIOUS
<1>2. ss \in Seq(Seq(T)) /\ Len(ss) = Len(ms)
  BY <1>1
<1>3. \A n \in DOMAIN ms : ss[n] = IF n \in P THEN <<ms[n]>> ELSE <<>>
  OBVIOUS
<1>4. Picked(ms, P) = FlattenSeq(ss)
  BY DEF Picked
<1> HIDE DEF ss
<1>5. FlatUpTo(ss, Len(ms), T, Picked(ms, P))
  BY <1>2, <1>4, FlatFacts
<1>6. \A n \in DOMAIN ms : \A x : x \in Range(ss[n]) <=> n \in P /\ x = ms[n]
  BY <1>3, Singletons
<1>7. \A n \in DOMAIN ms : IsInjective(ss[n])
  BY <1>3, Singletons
<1>8. \A x : x \in Range(Picked(ms, P)) <=> \E n \in DOMAIN ms : n \in P /\ x = ms[n]
  BY <1>1, <1>5, <1>6 DEF FlatUpTo
<1>9. ASSUME IsInjective(ms)
      PROVE  IsInjective(Picked(ms, P))
  <2>1. \A i, j \in 1..Len(ms) : i # j => Range(ss[i]) \cap Range(ss[j]) = {}
    <3>1. ASSUME NEW i \in DOMAIN ms, NEW j \in DOMAIN ms, NEW x \in Range(ss[i]), x \in Range(ss[j])
          PROVE  i = j
      <4>1. x = ms[i] /\ x = ms[j]
        BY <1>6, <3>1
      <4> QED BY <1>9, <4>1 DEF IsInjective
    <3> QED BY <1>1, <3>1
  <2> QED BY <1>1, <1>5, <1>7, <2>1 DEF FlatUpTo
<1> QED BY <1>5, <1>8, <1>9 DEF FlatUpTo

-----------------------------------------------------------------------------
(* A message is one of those its type says.                                *)
LEMMA MessageTypes ==
  /\ \A m \in ForRouter : /\ m.type = "CommCreate" => m \in Opened
                          /\ m.type = "CommReq" => m \in AskedFor
                          /\ m.type = "CommResp" => m \in Responses
                          /\ m.type = "ServerConnect" => m \in Connects
  /\ \A m \in ForServers \cup Answers : /\ m.type = "CommCreate" => m \in Created
                                        /\ m.type = "CommDestroy" => m \in Destroyed
                                        /\ m.type = "CommReq" => m \in Copied
                                        /\ m.type = "Answer" => m \in Answers
                                        /\ m.type # "Answer" => m \in ForServers
  /\ \A m \in ForServers : m.type # "Answer"
BY DEF ForRouter, Opened, AskedFor, Responses, Connects, ForServers, Created, Destroyed, Copied, Answers

LEMMA GroupFacts ==
  ASSUME NEW k \in CommId
  PROVE  /\ Len(Members[k]) \in Nat \ {0} /\ Groups(k) = 1..Len(Members[k])
         /\ Members[k] \in Seq(Seq(Obj))
         /\ \A g \in Groups(k) : /\ Members[k][g] \in Seq(Obj) /\ Members[k][g] # <<>>
                                 /\ IsInjective(Members[k][g])
         /\ MembersOf(k) \subseteq Obj
<1>1. /\ Members[k] \in Seq(Seq(Obj)) /\ Members[k] # <<>>
      /\ \A g \in Groups(k) : Members[k][g] # <<>> /\ IsInjective(Members[k][g])
  BY RouteAssumption
<1>2. Len(Members[k]) \in Nat \ {0} /\ Groups(k) = 1..Len(Members[k])
  BY <1>1 DEF Groups
<1>3. \A g \in Groups(k) : Members[k][g] \in Seq(Obj)
  BY <1>1 DEF Groups
<1>4. MembersOf(k) \subseteq Obj
  BY <1>3 DEF MembersOf, Range
<1> QED BY <1>1, <1>2, <1>3, <1>4

(* The object of a communicator on a server is one.                        *)
LEMMA OneOnServer ==
  ASSUME NEW k \in CommId, NEW o \in MembersOf(k), NEW p \in MembersOf(k),
         Home[o] = Home[p], Home[o] \in Server
  PROVE  o = p
BY RouteAssumption

-----------------------------------------------------------------------------
(* Sending.                                                                *)
AtHome(ms, s) == {n \in DOMAIN ms : Home[ms[n].dst] = s}
Routed(ms, c) == {n \in DOMAIN ms : Route(ms[n].dst) = c}

LEMMA SendPicks ==
  ASSUME NEW ms, Send(ms)
  PROVE  /\ up' \in BOOLEAN
         /\ outq' = [c \in Chan |-> IF conn[c] = "open" THEN outq[c] \o Picked(ms, Routed(ms, c))
                                    ELSE outq[c]]
         /\ pending' = [s \in Server |-> IF localMap[s] = NoChan
                                         THEN pending[s] \o Picked(ms, AtHome(ms, s))
                                         ELSE pending[s]]
<1>1. \A c : Only(ms, LAMBDA m : Route(m.dst) = c) = Picked(ms, Routed(ms, c))
  <2> SUFFICES ASSUME NEW c PROVE Only(ms, LAMBDA m : Route(m.dst) = c) = Picked(ms, Routed(ms, c))
    OBVIOUS
  <2>1. [n \in DOMAIN ms |-> IF Route(ms[n].dst) = c THEN <<ms[n]>> ELSE <<>>]
        = [n \in DOMAIN ms |-> IF n \in Routed(ms, c) THEN <<ms[n]>> ELSE <<>>]
    BY DEF Routed
  <2> QED BY <2>1 DEF Only, Picked
<1>2. \A s : Only(ms, LAMBDA m : Home[m.dst] = s) = Picked(ms, AtHome(ms, s))
  <2> SUFFICES ASSUME NEW s PROVE Only(ms, LAMBDA m : Home[m.dst] = s) = Picked(ms, AtHome(ms, s))
    OBVIOUS
  <2>1. [n \in DOMAIN ms |-> IF Home[ms[n].dst] = s THEN <<ms[n]>> ELSE <<>>]
        = [n \in DOMAIN ms |-> IF n \in AtHome(ms, s) THEN <<ms[n]>> ELSE <<>>]
    BY DEF AtHome
  <2> QED BY <2>1 DEF Only, Picked
<1>3. up' \in BOOLEAN
  BY DEF Send, Fate
<1> QED BY <1>1, <1>2, <1>3 DEF Send

LEMMA SendTypes ==
  ASSUME RtrTypeOK, NEW ms \in Seq(ForServers), Send(ms)
  PROVE  /\ up' \in BOOLEAN
         /\ outq' \in [Chan -> Seq(ForServers \cup Answers)]
         /\ pending' \in [Server -> Seq(ForServers)]
<1>1. \A P : Picked(ms, P) \in Seq(ForServers)
  BY PickedFacts
<1>2. \A P : Picked(ms, P) \in Seq(ForServers \cup Answers)
  <2>1. ms \in Seq(ForServers \cup Answers)
    OBVIOUS
  <2> QED BY <2>1, PickedFacts
<1>3. \A c \in Chan : outq[c] \in Seq(ForServers \cup Answers)
  BY DEF RtrTypeOK
<1>4. \A s \in Server : pending[s] \in Seq(ForServers)
  BY DEF RtrTypeOK
<1>5. \A c \in Chan : \A P : outq[c] \o Picked(ms, P) \in Seq(ForServers \cup Answers)
  BY <1>2, <1>3
<1>6. \A s \in Server : \A P : pending[s] \o Picked(ms, P) \in Seq(ForServers)
  BY <1>1, <1>4
<1>7. outq' \in [Chan -> Seq(ForServers \cup Answers)]
  <2>1. outq' = [c \in Chan |-> IF conn[c] = "open" THEN outq[c] \o Picked(ms, Routed(ms, c)) ELSE outq[c]]
    BY SendPicks
  <2>2. \A c \in Chan : outq[c] \o Picked(ms, Routed(ms, c)) \in Seq(ForServers \cup Answers)
    BY <1>5
  <2> QED BY <1>3, <2>1, <2>2
<1>8. pending' \in [Server -> Seq(ForServers)]
  <2>1. pending' = [s \in Server |-> IF localMap[s] = NoChan THEN pending[s] \o Picked(ms, AtHome(ms, s))
                                     ELSE pending[s]]
    BY SendPicks
  <2>2. \A s \in Server : pending[s] \o Picked(ms, AtHome(ms, s)) \in Seq(ForServers)
    BY <1>6
  <2> QED BY <1>4, <2>1, <2>2
<1> QED BY <1>7, <1>8, SendPicks

(* The three sequences of events that are sent.                            *)
LEMMA CreatesFacts ==
  ASSUME NEW k \in CommId
  PROVE  LET ms == [n \in DOMAIN FlattenSeq(Members[k]) |-> Create(k, FlattenSeq(Members[k])[n])]
         IN  /\ ms \in Seq(ForServers)
             /\ \A m : m \in Range(ms) <=> \E o \in MembersOf(k) : m = Create(k, o)
<1> DEFINE q == FlattenSeq(Members[k])
           ms == [n \in DOMAIN q |-> Create(k, q[n])]
<1>1. q \in Seq(Obj) /\ \A x : x \in Range(q) <=> \E i \in 1..Len(Members[k]) : x \in Range(Members[k][i])
  BY GroupFacts, FlatFacts DEF FlatUpTo
<1>2. \A x : x \in Range(q) <=> x \in MembersOf(k)
  BY <1>1, GroupFacts DEF MembersOf
<1> HIDE DEF q
<1>3. ms \in Seq(ForServers)
  BY <1>1 DEF ForServers, Created, Create
<1>4. \A m : m \in Range(ms) <=> \E o \in MembersOf(k) : m = Create(k, o)
  <2>1. DOMAIN ms = DOMAIN q /\ \A n \in DOMAIN q : ms[n] = Create(k, q[n])
    OBVIOUS
  <2> HIDE DEF ms
  <2> QED BY <1>2, <2>1 DEF Range
<1> QED BY <1>3, <1>4 DEF q

LEMMA CopiesFacts ==
  ASSUME NEW m \in AskedFor, NEW i \in InfoId
  PROVE  /\ CopiesOf(m, i) \in Seq(ForServers)
         /\ \A x : x \in Range(CopiesOf(m, i)) <=>
              \E g \in Groups(m.comm) : \E o \in Range(Members[m.comm][g]) :
                x = Copy(m.op, m.comm, i, g, o)
         /\ IsInjective(CopiesOf(m, i))
<1> DEFINE k == m.comm
           part(g) == [n \in DOMAIN Members[k][g] |-> Copy(m.op, k, i, g, Members[k][g][n])]
           ss == [g \in Groups(k) |-> part(g)]
<1>1. k \in CommId /\ m.op \in ReqOp
  BY DEF AskedFor
<1>2. /\ Len(Members[k]) \in Nat /\ Groups(k) = 1..Len(Members[k])
      /\ \A g \in Groups(k) : Members[k][g] \in Seq(Obj) /\ IsInjective(Members[k][g])
  BY <1>1, GroupFacts
<1>3. ASSUME NEW g \in Groups(k)
      PROVE  /\ part(g) \in Seq(ForServers) /\ IsInjective(part(g))
             /\ \A x : x \in Range(part(g)) <=>
                  \E o \in Range(Members[k][g]) : x = Copy(m.op, k, i, g, o)
  <2> DEFINE q == Members[k][g]
             r == part(g)
  <2>1. q \in Seq(Obj) /\ IsInjective(q) /\ g \in Nat
    BY <1>2
  <2>2. \A o \in Obj : Copy(m.op, k, i, g, o) \in ForServers
    BY <1>1, <2>1 DEF Copy, ForServers, Copied
  <2>3. DOMAIN r = DOMAIN q /\ \A n \in DOMAIN q : r[n] = Copy(m.op, k, i, g, q[n])
    OBVIOUS
  <2>4. r \in Seq(ForServers)
    <3>1. r \in [1..Len(q) -> ForServers] /\ Len(q) \in Nat
      BY <2>1, <2>2
    <3> QED BY <3>1
  <2> HIDE DEF r, q
  <2>5. \A x, y : Copy(m.op, k, i, g, x) = Copy(m.op, k, i, g, y) => x = y
    BY DEF Copy
  <2>6. IsInjective(r)
    BY <2>1, <2>3, <2>5 DEF IsInjective
  <2>7. \A x : x \in Range(r) <=> \E o \in Range(q) : x = Copy(m.op, k, i, g, o)
    BY <2>3 DEF Range
  <2> QED BY <2>4, <2>6, <2>7 DEF r, q
<1> HIDE DEF part
<1>4. \A g \in Groups(k) : ss[g] = part(g)
  OBVIOUS
<1>5. ss \in Seq(Seq(ForServers)) /\ Len(ss) = Len(Members[k])
  BY <1>2, <1>3
<1>6. CopiesOf(m, i) = FlattenSeq(ss)
  BY DEF CopiesOf, part
<1> HIDE DEF ss, k
<1>7. FlatUpTo(ss, Len(Members[k]), ForServers, CopiesOf(m, i))
  BY <1>5, <1>6, FlatFacts
<1>8. \A x : x \in Range(CopiesOf(m, i)) <=>
        \E g \in Groups(k) : \E o \in Range(Members[k][g]) : x = Copy(m.op, k, i, g, o)
  BY <1>2, <1>3, <1>4, <1>7 DEF FlatUpTo
<1>9. IsInjective(CopiesOf(m, i))
  <2>1. ASSUME NEW g \in Groups(k), NEW h \in Groups(k), NEW x, x \in Range(ss[g]), x \in Range(ss[h])
        PROVE  g = h
    <3>1. \E o, p : x = Copy(m.op, k, i, g, o) /\ x = Copy(m.op, k, i, h, p)
      BY <1>3, <1>4, <2>1
    <3> QED BY <3>1 DEF Copy
  <2>2. \A g, h \in 1..Len(Members[k]) : g # h => Range(ss[g]) \cap Range(ss[h]) = {}
    BY <1>2, <2>1
  <2>3. \A g \in 1..Len(Members[k]) : IsInjective(ss[g])
    BY <1>2, <1>3, <1>4
  <2> QED BY <1>7, <2>2, <2>3 DEF FlatUpTo
<1> QED BY <1>7, <1>8, <1>9 DEF FlatUpTo, k

DestroysOf(K) ==
  FlattenSeq([n \in DOMAIN SetToSeq(K) |->
    [j \in DOMAIN Members[SetToSeq(K)[n]][1] |->
       Destroy(SetToSeq(K)[n], Members[SetToSeq(K)[n]][1][j])]])

LEMMA DestroysFacts ==
  ASSUME NEW K, K \subseteq CommId, IsFiniteSet(K)
  PROVE  /\ DestroysOf(K) \in Seq(ForServers)
         /\ \A x \in Range(DestroysOf(K)) : x.type = "CommDestroy" /\ x.comm \in K
<1> DEFINE ks == SetToSeq(K)
           part(k) == [j \in DOMAIN Members[k][1] |-> Destroy(k, Members[k][1][j])]
           ss == [n \in DOMAIN ks |-> part(ks[n])]
<1>1. ks \in [1..Cardinality(K) -> K] /\ Cardinality(K) \in Nat
  <2>1. Cardinality(K) \in Nat /\ ExistsBijection(1..Cardinality(K), K)
    BY FS_CardinalityType, FS_NatBijection, FS_CountingElements
  <2>2. \E f \in [1..Cardinality(K) -> K] : IsInjective(f)
    BY <2>1 DEF ExistsBijection, Bijection, Injection, IsInjective
  <2> QED BY <2>1, <2>2 DEF SetToSeq
<1>2. ASSUME NEW k \in K
      PROVE  part(k) \in Seq(ForServers) /\ \A x \in Range(part(k)) : x.type = "CommDestroy" /\ x.comm = k
  <2>1. k \in CommId /\ Members[k][1] \in Seq(Obj)
    BY GroupFacts
  <2>2. \A o \in Obj : Destroy(k, o) \in ForServers
    BY <2>1 DEF Destroy, ForServers, Destroyed
  <2>3. part(k) \in [1..Len(Members[k][1]) -> ForServers] /\ Len(Members[k][1]) \in Nat
    BY <2>1, <2>2
  <2>4. \A j \in DOMAIN part(k) : part(k)[j].type = "CommDestroy" /\ part(k)[j].comm = k
    BY <2>1 DEF Destroy
  <2> HIDE DEF part
  <2> QED BY <2>3, <2>4 DEF Range
<1> HIDE DEF part
<1>3. DestroysOf(K) = FlattenSeq(ss)
  BY DEF DestroysOf, part
<1>4. \A n \in 1..Cardinality(K) : ks[n] \in K
  BY <1>1
<1>5. ss \in Seq(Seq(ForServers)) /\ Len(ss) = Cardinality(K)
  <2>1. ss \in [1..Cardinality(K) -> Seq(ForServers)]
    BY <1>1, <1>2, <1>4
  <2> QED BY <1>1, <2>1
<1>6. \A n \in 1..Cardinality(K) : ss[n] = part(ks[n])
  BY <1>1
<1> HIDE DEF ss, ks
<1>7. FlatUpTo(ss, Cardinality(K), ForServers, DestroysOf(K))
  BY <1>3, <1>5, FlatFacts
<1> QED BY <1>2, <1>4, <1>6, <1>7 DEF FlatUpTo

-----------------------------------------------------------------------------
(* What an event that is taken is.                                         *)
LEMMA ReceiveFacts ==
  ASSUME RtrTypeOK, NEW c \in Chan, NEW k, NEW type, Receive(c, k, type)
  PROVE  /\ up /\ kind[c] = k /\ inq[c] # <<>>
         /\ Head(inq[c]) \in ForRouter /\ Head(inq[c]).type = type
         /\ inq' = [inq EXCEPT ![c] = Tail(inq[c])]
         /\ inq' \in [Chan -> Seq(ForRouter)]
         /\ Tail(inq[c]) \in Seq(ForRouter)
<1>1. inq[c] \in Seq(ForRouter) /\ inq[c] # <<>> /\ inq \in [Chan -> Seq(ForRouter)]
  BY DEF RtrTypeOK, Receive
<1>2. Head(inq[c]) \in ForRouter /\ Tail(inq[c]) \in Seq(ForRouter)
  BY <1>1
<1> QED BY <1>1, <1>2 DEF Receive

LEMMA TakesFacts ==
  ASSUME RtrTypeOK, NEW s \in Server, NEW type, SrvTakes(s, type)
  PROVE  /\ srvChan[s] \in Chan /\ outq[srvChan[s]] # <<>>
         /\ Head(outq[srvChan[s]]) \in ForServers \cup Answers
         /\ Head(outq[srvChan[s]]).type = type
         /\ outq' = [outq EXCEPT ![srvChan[s]] = Tail(outq[srvChan[s]])]
         /\ outq' \in [Chan -> Seq(ForServers \cup Answers)]
<1>1. srvChan[s] \in Chan
  BY DEF RtrTypeOK, SrvTakes
<1>2. /\ outq[srvChan[s]] \in Seq(ForServers \cup Answers) /\ outq[srvChan[s]] # <<>>
      /\ outq \in [Chan -> Seq(ForServers \cup Answers)]
  BY <1>1 DEF RtrTypeOK, SrvTakes
<1>3. Head(outq[srvChan[s]]) \in ForServers \cup Answers /\ Tail(outq[srvChan[s]]) \in Seq(ForServers \cup Answers)
  BY <1>2
<1> QED BY <1>1, <1>2, <1>3 DEF SrvTakes

LEMMA AnswerTypes ==
  ASSUME RtrTypeOK, NEW x \in Info, NEW v \in Seq(Seq(Obj)), Answer(x, v)
  PROVE  up' \in BOOLEAN /\ outq' \in [Chan -> Seq(ForServers \cup Answers)]
<1> DEFINE a == [type |-> "Answer", id |-> x.id, value |-> v]
<1>1. a \in Answers /\ x.src \in Chan
  BY DEF Answers, Info
<1>2. outq \in [Chan -> Seq(ForServers \cup Answers)]
  BY DEF RtrTypeOK
<1>3. Append(outq[x.src], a) \in Seq(ForServers \cup Answers)
  BY <1>1, <1>2
<1>4. outq' = [outq EXCEPT ![x.src] = Append(outq[x.src], a)] \/ outq' = outq
  BY DEF Answer
<1> HIDE DEF a
<1>5. outq' \in [Chan -> Seq(ForServers \cup Answers)]
  BY <1>1, <1>2, <1>3, <1>4
<1> QED BY <1>5 DEF Answer, Fate

LEMMA SetPlace ==
  ASSUME NEW T, NEW q \in Seq(T), NEW g, NEW e
  PROVE  /\ DOMAIN [q EXCEPT ![g] = e] = DOMAIN q
         /\ g \notin DOMAIN q => [q EXCEPT ![g] = e] = q
         /\ e \in T => [q EXCEPT ![g] = e] \in Seq(T)
<1>1. q \in [1..Len(q) -> T] /\ Len(q) \in Nat /\ DOMAIN q = 1..Len(q)
  OBVIOUS
<1>2. g \notin DOMAIN q => [q EXCEPT ![g] = e] = q
  BY <1>1
<1>3. e \in T => [q EXCEPT ![g] = e] \in [1..Len(q) -> T]
  BY <1>1
<1> QED BY <1>1, <1>2, <1>3

(* A CommReqInfo with one more response is a CommReqInfo.                  *)
LEMMA QueuedTypes ==
  ASSUME NEW x \in Info, NEW g \in Nat, NEW o \in Obj, DOMAIN x.respQ = DOMAIN x.value
  PROVE  LET q == Append(x.respQ[g], o)
         IN  /\ [x.value EXCEPT ![g] = q] \in Seq(Seq(Obj))
             /\ [x.respQ EXCEPT ![g] = q] \in Seq(Seq(Obj))
             /\ DOMAIN [x.respQ EXCEPT ![g] = q] = DOMAIN [x.value EXCEPT ![g] = q]
<1>1. x.respQ \in Seq(Seq(Obj)) /\ x.value \in Seq(Seq(Obj))
  BY DEF Info
<1>2. CASE g \notin DOMAIN x.respQ
  <2> DEFINE q == Append(x.respQ[g], o)
  <2>1. [x.respQ EXCEPT ![g] = q] = x.respQ
    BY <1>1, <1>2, SetPlace
  <2>2. [x.value EXCEPT ![g] = q] = x.value
    BY <1>1, <1>2, SetPlace
  <2> HIDE DEF q
  <2>3. [x.value EXCEPT ![g] = q] \in Seq(Seq(Obj)) /\ [x.respQ EXCEPT ![g] = q] \in Seq(Seq(Obj))
    BY <1>1, <2>1, <2>2
  <2> QED BY <2>1, <2>2, <2>3 DEF q
<1>3. CASE g \in DOMAIN x.respQ
  <2>1. x.respQ[g] \in Seq(Obj)
    BY <1>1, <1>3
  <2>2. Append(x.respQ[g], o) \in Seq(Obj)
    BY <2>1
  <2> DEFINE q == Append(x.respQ[g], o)
  <2>3. q \in Seq(Obj)
    BY <2>2
  <2> HIDE DEF q
  <2>4. [x.value EXCEPT ![g] = q] \in Seq(Seq(Obj)) /\ [x.respQ EXCEPT ![g] = q] \in Seq(Seq(Obj))
    BY <1>1, <2>3, SetPlace
  <2>5. DOMAIN [x.respQ EXCEPT ![g] = q] = DOMAIN [x.value EXCEPT ![g] = q]
    BY <1>1, SetPlace
  <2> QED BY <2>4, <2>5 DEF q
<1> QED BY <1>2, <1>3

-----------------------------------------------------------------------------
(* Type correctness, the router's steps.                                   *)
LEMMA NewInfoTypes ==
  ASSUME NEW c \in Chan, NEW m \in AskedFor
  PROVE  NewInfo(c, m) \in Info /\ DOMAIN NewInfo(c, m).respQ = DOMAIN NewInfo(c, m).value
<1> DEFINE G == IF m.op \in OneObj THEN {} ELSE Groups(m.comm)
           a == [g \in G |-> Len(Members[m.comm][g])]
           b == [g \in G |-> <<>>]
<1>1. m.comm \in CommId /\ m.op \in ReqOp /\ m.id \in ReqId
  BY DEF AskedFor
<1>2. /\ Len(Members[m.comm]) \in Nat /\ Groups(m.comm) = 1..Len(Members[m.comm])
      /\ \A g \in Groups(m.comm) : Members[m.comm][g] \in Seq(Obj)
  BY <1>1, GroupFacts
<1>3. \E n \in Nat : G = 1..n
  <2>1. {} = 1..0
    OBVIOUS
  <2> QED BY <1>2, <2>1
<1>4. a \in [G -> Nat] /\ b \in [G -> Seq(Obj)]
  BY <1>2
<1> HIDE DEF a, b, G
<1>5. a \in Seq(Nat) /\ b \in Seq(Seq(Obj))
  BY <1>3, <1>4
<1>6. NewInfo(c, m) = [src |-> c, id |-> m.id, comm |-> m.comm, op |-> m.op, grpInfo |-> a,
                       respQ |-> b, value |-> b, pending |-> Len(Members[m.comm])]
  BY DEF NewInfo, G, a, b
<1> QED BY <1>1, <1>2, <1>5, <1>6 DEF Info

LEMMA RtrTypes ==
  ASSUME RtrTypeOK, NEW c \in Chan, RtrStep(c)
  PROVE  RtrTypeOK'
<1>1. CASE RtrCommCreate(c)
  <2> DEFINE k == Head(inq[c]).comm
             ms == [n \in DOMAIN FlattenSeq(Members[k]) |-> Create(k, FlattenSeq(Members[k])[n])]
  <2>1. /\ Head(inq[c]) \in ForRouter /\ Head(inq[c]).type = "CommCreate"
        /\ inq' \in [Chan -> Seq(ForRouter)]
    BY <1>1, ReceiveFacts DEF RtrCommCreate
  <2>2. k \in CommId
    BY <2>1, MessageTypes DEF Opened
  <2>3. CASE k \in comms[c]
    BY <1>1, <2>1, <2>3 DEF RtrCommCreate, Abort, RtrTypeOK, cliVars, srvVars
  <2>4. CASE k \notin comms[c]
    <3>1. ms \in Seq(ForServers) /\ Send(ms)
      BY <1>1, <2>2, <2>4, CreatesFacts DEF RtrCommCreate
    <3>2. /\ up' \in BOOLEAN
          /\ outq' \in [Chan -> Seq(ForServers \cup Answers)]
          /\ pending' \in [Server -> Seq(ForServers)]
      BY <3>1, SendTypes
    <3>3. comms' = [comms EXCEPT ![c] = @ \cup {k}]
      BY <1>1, <2>4 DEF RtrCommCreate
    <3> HIDE DEF k, ms
    <3>4. comms' \in [Chan -> SUBSET CommId] /\ \A d \in Chan : IsFiniteSet(comms'[d])
      <4>1. \A d \in Chan : comms'[d] = IF d = c THEN comms[c] \cup {k} ELSE comms[d]
        BY <3>3 DEF RtrTypeOK
      <4>2. IsFiniteSet(comms[c] \cup {k})
        BY FS_AddElement DEF RtrTypeOK
      <4> QED BY <2>2, <3>3, <4>1, <4>2 DEF RtrTypeOK
    <3>5. UNCHANGED <<kind, name, localMap, info, conn, cliVars, srvVars>>
      BY <1>1, <2>4 DEF RtrCommCreate, k
    <3> QED BY <2>1, <3>2, <3>4, <3>5 DEF RtrTypeOK, cliVars, srvVars
  <2> QED BY <2>3, <2>4
<1>2. ASSUME NEW i \in InfoId, RtrCommReq(c, i)
      PROVE  RtrTypeOK'
  <2> DEFINE m == Head(inq[c])
  <2>1. m \in ForRouter /\ m.type = "CommReq" /\ inq' \in [Chan -> Seq(ForRouter)]
    BY <1>2, ReceiveFacts DEF RtrCommReq
  <2>2. m \in AskedFor
    BY <2>1, MessageTypes
  <2>3. CASE m.comm \notin comms[c] \/ ~ Supported(m.op, m.comm)
    BY <1>2, <2>1, <2>3 DEF RtrCommReq, Abort, RtrTypeOK, cliVars, srvVars
  <2>4. CASE ~ (m.comm \notin comms[c] \/ ~ Supported(m.op, m.comm))
    <3>1. CopiesOf(m, i) \in Seq(ForServers) /\ Send(CopiesOf(m, i))
      BY <1>2, <2>2, <2>4, CopiesFacts DEF RtrCommReq
    <3>2. /\ up' \in BOOLEAN
          /\ outq' \in [Chan -> Seq(ForServers \cup Answers)]
          /\ pending' \in [Server -> Seq(ForServers)]
      BY <3>1, SendTypes
    <3>3. info' = [info EXCEPT ![i] = NewInfo(c, m)]
      BY <1>2, <2>4 DEF RtrCommReq
    <3>4. UNCHANGED <<kind, comms, name, localMap, conn, cliVars, srvVars>>
      BY <1>2, <2>4 DEF RtrCommReq
    <3> HIDE DEF m
    <3>5. NewInfo(c, m) \in Info /\ DOMAIN NewInfo(c, m).respQ = DOMAIN NewInfo(c, m).value
      BY <2>2, NewInfoTypes
    <3> DEFINE x == NewInfo(c, m)
    <3> HIDE DEF x
    <3>6. /\ info' \in [InfoId -> Info \cup {Free}]
          /\ \A j \in InfoId : info'[j] # Free => DOMAIN info'[j].respQ = DOMAIN info'[j].value
      <4>1. \A j \in InfoId : info'[j] = IF j = i THEN x ELSE info[j]
        BY <3>3 DEF RtrTypeOK, x
      <4>2. x \in Info /\ DOMAIN x.respQ = DOMAIN x.value
        BY <3>5 DEF x
      <4>3. info' \in [InfoId -> Info \cup {Free}]
        BY <3>3, <4>2 DEF RtrTypeOK, x
      <4> QED BY <4>1, <4>2, <4>3 DEF RtrTypeOK
    <3> QED BY <2>1, <3>2, <3>4, <3>6 DEF RtrTypeOK, cliVars, srvVars
  <2> QED BY <2>3, <2>4
<1>3. CASE RtrCommResp(c)
  <2> DEFINE m == Head(inq[c])
  <2>1. m \in ForRouter /\ m.type = "CommResp" /\ inq' \in [Chan -> Seq(ForRouter)]
    BY <1>3, ReceiveFacts DEF RtrCommResp
  <2>2. m.info \in InfoId /\ m.grp \in Nat /\ m.obj \in Obj
    BY <2>1, MessageTypes DEF Responses
  <2>3. UNCHANGED <<kind, comms, name, localMap, pending, conn, cliVars, srvVars>>
    BY <1>3 DEF RtrCommResp
  <2>4. CASE info[m.info] = Free \/ (GroupReady(m) /\ ~ Summable(m))
    BY <1>3, <2>1, <2>3, <2>4 DEF RtrCommResp, RtrTypeOK, cliVars, srvVars
  <2>5. CASE ~ (info[m.info] = Free \/ (GroupReady(m) /\ ~ Summable(m)))
    <3>1. Collect(m) \/ Complete(m) \/ Reply(m)
      BY <1>3, <2>5 DEF RtrCommResp
    <3>2. PICK x : x = info[m.info]
      OBVIOUS
    <3>3. x \in Info /\ DOMAIN x.respQ = DOMAIN x.value
      BY <2>2, <2>5, <3>2 DEF RtrTypeOK
    <3>4. PICK g : g = m.grp
      OBVIOUS
    <3>5. PICK o : o = m.obj
      OBVIOUS
    <3> DEFINE q == Append(x.respQ[g], o)
    <3>6. /\ [x.value EXCEPT ![g] = q] \in Seq(Seq(Obj))
          /\ [x.respQ EXCEPT ![g] = q] \in Seq(Seq(Obj))
          /\ DOMAIN [x.respQ EXCEPT ![g] = q] = DOMAIN [x.value EXCEPT ![g] = q]
      BY <2>2, <3>3, <3>4, <3>5, QueuedTypes
    <3>7. Queued(m) = q
      BY <3>2, <3>4, <3>5 DEF Queued
    <3>8. \A y \in Info \cup {Free} : (y # Free => DOMAIN y.respQ = DOMAIN y.value) =>
            LET f == [info EXCEPT ![m.info] = y]
            IN  /\ f \in [InfoId -> Info \cup {Free}]
                /\ \A j \in InfoId : f[j] # Free => DOMAIN f[j].respQ = DOMAIN f[j].value
      BY <2>2 DEF RtrTypeOK
    <3> HIDE DEF q, m
    <3>9. CASE Collect(m)
      <4> DEFINE y == [x EXCEPT !.respQ = [x.respQ EXCEPT ![g] = q]]
      <4>1. info' = [info EXCEPT ![m.info] = y] /\ UNCHANGED <<up, outq>>
        BY <3>2, <3>4, <3>7, <3>9 DEF Collect
      <4>2. y \in Info /\ DOMAIN y.respQ = DOMAIN y.value
        BY <3>3, <3>6, SetPlace DEF Info
      <4> HIDE DEF y
      <4> QED BY <2>1, <2>3, <3>8, <4>1, <4>2 DEF RtrTypeOK, cliVars, srvVars
    <3>10. CASE Complete(m)
      <4> DEFINE y == [x EXCEPT !.respQ = [x.respQ EXCEPT ![g] = q], !.value = [x.value EXCEPT ![g] = q],
                                !.pending = x.pending - 1]
      <4>1. info' = [info EXCEPT ![m.info] = y] /\ UNCHANGED <<up, outq>>
        BY <3>2, <3>4, <3>7, <3>10 DEF Complete
      <4>2. x.pending > 1
        BY <3>2, <3>10 DEF Complete
      <4>3. y \in Info /\ DOMAIN y.respQ = DOMAIN y.value
        <5> DEFINE r == [x.respQ EXCEPT ![g] = q]
                   v == [x.value EXCEPT ![g] = q]
        <5>1. r \in Seq(Seq(Obj)) /\ v \in Seq(Seq(Obj)) /\ DOMAIN r = DOMAIN v
          BY <3>6
        <5>2. x.pending - 1 \in Nat
          BY <3>3, <4>2 DEF Info
        <5> HIDE DEF r, v
        <5>3. [x EXCEPT !.respQ = r, !.value = v, !.pending = x.pending - 1] \in Info
          BY <3>3, <5>1, <5>2 DEF Info
        <5>4. /\ [x EXCEPT !.respQ = r, !.value = v, !.pending = x.pending - 1].respQ = r
              /\ [x EXCEPT !.respQ = r, !.value = v, !.pending = x.pending - 1].value = v
          BY <3>3 DEF Info
        <5> QED BY <5>1, <5>3, <5>4 DEF r, v
      <4> HIDE DEF y
      <4> QED BY <2>1, <2>3, <3>8, <4>1, <4>3 DEF RtrTypeOK, cliVars, srvVars
    <3>11. CASE Reply(m)
      <4>1. info' = [info EXCEPT ![m.info] = Free] /\ Answer(x, [x.value EXCEPT ![g] = q])
        BY <3>2, <3>4, <3>7, <3>11 DEF Reply
      <4>2. up' \in BOOLEAN /\ outq' \in [Chan -> Seq(ForServers \cup Answers)]
        BY <3>3, <3>6, <4>1, AnswerTypes
      <4> QED BY <2>1, <2>3, <3>8, <4>1, <4>2 DEF RtrTypeOK, cliVars, srvVars
    <3> QED BY <3>1, <3>9, <3>10, <3>11
  <2> QED BY <2>4, <2>5
<1>4. CASE RtrOneResp(c)
  <2> DEFINE m == Head(inq[c])
  <2>1. m \in ForRouter /\ m.type = "CommResp" /\ inq' \in [Chan -> Seq(ForRouter)]
    BY <1>4, ReceiveFacts DEF RtrOneResp
  <2>2. m.info \in InfoId /\ m.obj \in Obj
    BY <2>1, MessageTypes DEF Responses
  <2>3. UNCHANGED <<kind, comms, name, localMap, pending, conn, cliVars, srvVars>>
    BY <1>4 DEF RtrOneResp
  <2>4. CASE info[m.info] = Free
    BY <1>4, <2>1, <2>3, <2>4 DEF RtrOneResp, RtrTypeOK, cliVars, srvVars
  <2>5. CASE info[m.info] # Free
    <3>1. Answer(info[m.info], <<<<m.obj>>>>) /\ info' = [info EXCEPT ![m.info] = Free]
      BY <1>4, <2>5 DEF RtrOneResp
    <3>2. info[m.info] \in Info /\ <<<<m.obj>>>> \in Seq(Seq(Obj))
      BY <2>2, <2>5 DEF RtrTypeOK
    <3>3. up' \in BOOLEAN /\ outq' \in [Chan -> Seq(ForServers \cup Answers)]
      BY <3>1, <3>2, AnswerTypes
    <3> HIDE DEF m
    <3>4. /\ info' \in [InfoId -> Info \cup {Free}]
          /\ \A j \in InfoId : info'[j] # Free => DOMAIN info'[j].respQ = DOMAIN info'[j].value
      BY <2>2, <3>1 DEF RtrTypeOK
    <3> QED BY <2>1, <2>3, <3>3, <3>4 DEF RtrTypeOK, cliVars, srvVars
  <2> QED BY <2>4, <2>5
<1>5. CASE RtrServerConnect(c)
  <2> DEFINE s == Head(inq[c]).srv
  <2>1. /\ Head(inq[c]) \in ForRouter /\ Head(inq[c]).type = "ServerConnect"
        /\ inq' \in [Chan -> Seq(ForRouter)]
    BY <1>5, ReceiveFacts DEF RtrServerConnect
  <2>2. s \in Server
    BY <2>1, MessageTypes DEF Connects
  <2>3. /\ localMap' = [localMap EXCEPT ![s] = c]
        /\ name' = [name EXCEPT ![c] = s]
        /\ pending' = [pending EXCEPT ![s] = <<>>]
        /\ UNCHANGED <<kind, comms, info, conn, cliVars, srvVars>>
    BY <1>5 DEF RtrServerConnect
  <2>4. up' \in BOOLEAN /\ (outq' = outq \/ outq' = [outq EXCEPT ![c] = @ \o pending[s]])
    BY <1>5 DEF RtrServerConnect, Fate, RtrTypeOK
  <2> HIDE DEF s
  <2>5. outq' \in [Chan -> Seq(ForServers \cup Answers)]
    <3>1. outq[c] \in Seq(ForServers \cup Answers) /\ pending[s] \in Seq(ForServers \cup Answers)
      BY <2>2 DEF RtrTypeOK
    <3>2. outq[c] \o pending[s] \in Seq(ForServers \cup Answers)
      BY <3>1
    <3> QED BY <2>4, <3>2 DEF RtrTypeOK
  <2>6. pending' \in [Server -> Seq(ForServers)]
    <3>1. <<>> \in Seq(ForServers)
      OBVIOUS
    <3> QED BY <2>2, <2>3, <3>1 DEF RtrTypeOK
  <2> QED BY <2>1, <2>2, <2>3, <2>4, <2>5, <2>6 DEF RtrTypeOK, cliVars, srvVars
<1>6. CASE RtrClientClosed(c)
  <2>1. /\ kind' = [kind EXCEPT ![c] = "free"] /\ conn' = [conn EXCEPT ![c] = "none"]
        /\ comms' = [comms EXCEPT ![c] = {}]
        /\ Send(DestroysOf(comms[c]))
        /\ UNCHANGED <<name, localMap, info, inq, cliVars, srvVars>>
    BY <1>6 DEF RtrClientClosed, Forget, DestroysOf
  <2>2. DestroysOf(comms[c]) \in Seq(ForServers)
    BY DestroysFacts DEF RtrTypeOK
  <2>3. /\ up' \in BOOLEAN
        /\ outq' \in [Chan -> Seq(ForServers \cup Answers)]
        /\ pending' \in [Server -> Seq(ForServers)]
    BY <2>1, <2>2, SendTypes
  <2>4. comms' \in [Chan -> SUBSET CommId] /\ \A d \in Chan : IsFiniteSet(comms'[d])
    BY <2>1, FS_EmptySet DEF RtrTypeOK
  <2>5. kind' \in [Chan -> {"free", "client", "server"}] /\ conn' \in [Chan -> {"none", "open", "eof", "reset"}]
    BY <2>1 DEF RtrTypeOK
  <2>6. UNCHANGED <<name, localMap, info, inq, cliVars, srvVars>>
    BY <2>1
  <2> QED BY <2>3, <2>4, <2>5, <2>6 DEF RtrTypeOK, cliVars, srvVars
<1>7. CASE RtrServerClosed(c)
  BY <1>7 DEF RtrServerClosed, Forget, RtrTypeOK, cliVars, srvVars
<1>8. CASE RtrReset(c)
  BY <1>8 DEF RtrReset, Abort, RtrTypeOK, cliVars, srvVars
<1> QED BY <1>1, <1>2, <1>3, <1>4, <1>5, <1>6, <1>7, <1>8 DEF RtrStep

(* Type correctness, the steps of clients and servers.                     *)
LEMMA PeerTypes ==
  ASSUME RtrTypeOK,
         \/ \E c \in Chan : AcceptClient(c)
         \/ \E c \in Chan, s \in Server : AcceptServer(c, s)
         \/ \E c \in Chan, q \in ReqId, k \in CommId, op \in ReqOp : CliAsk(c, q, k, op)
         \/ \E c \in Chan : CliRead(c)
         \/ \E c \in Chan : CliLeave(c)
         \/ \E s \in Server : SrvStep(s)
         \/ \E s \in Server : SrvDie(s)
  PROVE  RtrTypeOK'
<1>1. ASSUME NEW c \in Chan, AcceptClient(c)
      PROVE  RtrTypeOK'
  <2>1. /\ kind' = [kind EXCEPT ![c] = "client"] /\ conn' = [conn EXCEPT ![c] = "open"]
        /\ outq' = [outq EXCEPT ![c] = <<>>] /\ inq' = [inq EXCEPT ![c] = <<>>]
        /\ want' = [want EXCEPT ![c] = Unused] /\ made' = [made EXCEPT ![c] = {}]
        /\ clients' = clients + 1
        /\ UNCHANGED <<up, comms, name, localMap, pending, info, asks, srvVars>>
    BY <1>1 DEF AcceptClient, Accept
  <2>2. Unused \in [ReqId -> CommId \cup {NoComm}]
    BY DEF Unused
  <2> QED BY <2>1, <2>2 DEF RtrTypeOK, srvVars
<1>2. ASSUME NEW c \in Chan, NEW s \in Server, AcceptServer(c, s)
      PROVE  RtrTypeOK'
  <2> DEFINE m == [type |-> "ServerConnect", srv |-> s]
  <2>1. /\ kind' = [kind EXCEPT ![c] = "server"] /\ conn' = [conn EXCEPT ![c] = "open"]
        /\ outq' = [outq EXCEPT ![c] = <<>>] /\ inq' = [inq EXCEPT ![c] = <<m>>]
        /\ srvChan' = [srvChan EXCEPT ![s] = c]
        /\ objs' = [objs EXCEPT ![s] = [k \in CommId |-> NoObj]]
        /\ work' = [work EXCEPT ![s] = {}] /\ starts' = [starts EXCEPT ![s] = starts[s] + 1]
        /\ UNCHANGED <<up, comms, name, localMap, pending, info, cliVars>>
    BY <1>2 DEF AcceptServer, Accept
  <2>2. <<m>> \in Seq(ForRouter)
    BY DEF ForRouter, Connects
  <2> HIDE DEF m
  <2> QED BY <2>1, <2>2 DEF RtrTypeOK, cliVars
<1>3. ASSUME NEW c \in Chan, NEW q \in ReqId, NEW k \in CommId, NEW op \in ReqOp, CliAsk(c, q, k, op)
      PROVE  RtrTypeOK'
  <2> DEFINE new == (IF k \in made[c] THEN <<>> ELSE <<Create(k, NoObj)>>) \o <<Request(op, q, k)>>
  <2>1. Create(k, NoObj) \in ForRouter /\ Request(op, q, k) \in ForRouter
    BY DEF Create, Request, ForRouter, Opened, AskedFor
  <2>2. inq[c] \in Seq(ForRouter)
    BY DEF RtrTypeOK
  <2>3. inq[c] \o (IF k \in made[c] THEN <<>> ELSE <<Create(k, NoObj)>>) \o <<Request(op, q, k)>> \in Seq(ForRouter)
    BY <2>1, <2>2
  <2>4. inq' \in [Chan -> Seq(ForRouter)]
    BY <1>3, <2>3 DEF CliAsk, RtrTypeOK
  <2>5. /\ want' = [want EXCEPT ![c][q] = k]
        /\ made' = [made EXCEPT ![c] = @ \cup {k}]
        /\ asks' = asks + 1
        /\ UNCHANGED <<rtrVars, outq, conn, clients, srvVars>>
    BY <1>3 DEF CliAsk
  <2> QED BY <2>4, <2>5 DEF RtrTypeOK, rtrVars, srvVars
<1>4. ASSUME NEW c \in Chan, CliRead(c)
      PROVE  RtrTypeOK'
  <2>1. outq[c] \in Seq(ForServers \cup Answers) /\ outq[c] # <<>>
    BY <1>4 DEF CliRead, RtrTypeOK
  <2>2. Tail(outq[c]) \in Seq(ForServers \cup Answers)
    BY <2>1
  <2>3. outq' \in [Chan -> Seq(ForServers \cup Answers)]
    BY <1>4, <2>2 DEF CliRead, RtrTypeOK
  <2>4. want' \in [Chan -> [ReqId -> CommId \cup {NoComm}]]
    BY <1>4 DEF CliRead, RtrTypeOK
  <2>5. UNCHANGED <<rtrVars, inq, conn, made, clients, asks, srvVars>>
    BY <1>4 DEF CliRead
  <2> QED BY <2>3, <2>4, <2>5 DEF RtrTypeOK, rtrVars, srvVars
<1>5. ASSUME NEW c \in Chan, CliLeave(c)
      PROVE  RtrTypeOK'
  <2>1. \E e \in {"eof", "reset"} : conn' = [conn EXCEPT ![c] = e]
    BY <1>5 DEF CliLeave, Close
  <2>2. outq' = [outq EXCEPT ![c] = <<>>] /\ UNCHANGED <<rtrVars, inq, cliVars, srvVars>>
    BY <1>5 DEF CliLeave, Close
  <2> QED BY <2>1, <2>2 DEF RtrTypeOK, rtrVars, cliVars, srvVars
<1>6. ASSUME NEW s \in Server, NEW unread, SrvStops(s, unread)
      PROVE  RtrTypeOK'
  <2>1. \E e \in {"eof", "reset"} : conn' = [conn EXCEPT ![srvChan[s]] = e]
    BY <1>6 DEF SrvStops, Close
  <2>2. /\ outq' = [outq EXCEPT ![srvChan[s]] = <<>>]
        /\ srvChan' = [srvChan EXCEPT ![s] = NoChan]
        /\ work' = [work EXCEPT ![s] = {}]
        /\ UNCHANGED <<rtrVars, inq, cliVars, starts, objs>>
    BY <1>6 DEF SrvStops, Close
  <2>3. conn' \in [Chan -> {"none", "open", "eof", "reset"}]
    BY <2>1 DEF RtrTypeOK
  <2>4. outq' \in [Chan -> Seq(ForServers \cup Answers)]
    <3>1. <<>> \in Seq(ForServers \cup Answers)
      OBVIOUS
    <3> QED BY <2>2, <3>1 DEF RtrTypeOK
  <2> QED BY <2>2, <2>3, <2>4 DEF RtrTypeOK, rtrVars, cliVars
<1>7. ASSUME NEW s \in Server, SrvStep(s)
      PROVE  RtrTypeOK'
  <2> DEFINE m == Head(outq[srvChan[s]])
  <2>1. CASE SrvCommCreate(s)
    <3>1. /\ m \in ForServers \cup Answers /\ m.type = "CommCreate"
          /\ outq' \in [Chan -> Seq(ForServers \cup Answers)]
      BY <2>1, TakesFacts DEF SrvCommCreate
    <3>2. m.comm \in CommId /\ m.dst \in Obj
      BY <3>1, MessageTypes DEF Created
    <3>3. objs' = [objs EXCEPT ![s][m.comm] = m.dst]
          /\ UNCHANGED <<rtrVars, inq, conn, cliVars, starts, srvChan, work>>
      BY <2>1 DEF SrvCommCreate
    <3> HIDE DEF m
    <3> QED BY <3>1, <3>2, <3>3 DEF RtrTypeOK, rtrVars, cliVars
  <2>2. CASE SrvCommDestroy(s)
    <3>1. outq' \in [Chan -> Seq(ForServers \cup Answers)]
      BY <2>2, TakesFacts DEF SrvCommDestroy
    <3>2. objs' = [objs EXCEPT ![s][m.comm] = NoObj]
          /\ UNCHANGED <<rtrVars, inq, conn, cliVars, starts, srvChan, work>>
      BY <2>2 DEF SrvCommDestroy
    <3> HIDE DEF m
    <3> QED BY <3>1, <3>2 DEF RtrTypeOK, rtrVars, cliVars
  <2>3. CASE SrvCommReq(s)
    <3> DEFINE w == [op |-> m.op, info |-> m.info, grp |-> m.grp, obj |-> objs[s][m.comm]]
    <3>1. /\ m \in ForServers \cup Answers /\ m.type = "CommReq"
          /\ outq' \in [Chan -> Seq(ForServers \cup Answers)]
      BY <2>3, TakesFacts DEF SrvCommReq
    <3>2. m \in Copied
      BY <3>1, MessageTypes
    <3>3. objs[s][m.comm] # NoObj /\ work' = [work EXCEPT ![s] = @ \cup {w}]
          /\ UNCHANGED <<rtrVars, inq, conn, cliVars, starts, srvChan, objs>>
      BY <2>3 DEF SrvCommReq
    <3> HIDE DEF m
    <3>4. w \in Works
      BY <3>2, <3>3 DEF Works, Copied, RtrTypeOK
    <3> HIDE DEF w
    <3> QED BY <3>1, <3>3, <3>4 DEF RtrTypeOK, rtrVars, cliVars
  <2>4. CASE SrvCrash(s)
    BY <1>6, <2>4 DEF SrvCrash
  <2>5. ASSUME NEW w \in work[s], SrvReply(s, w)
        PROVE  RtrTypeOK'
    <3>1. w \in Works
      BY DEF RtrTypeOK
    <3>2. Response(w) \in ForRouter
      BY <3>1 DEF Response, ForRouter, Responses, Works
    <3>3. inq' = [inq EXCEPT ![srvChan[s]] = Append(inq[srvChan[s]], Response(w))]
          /\ work' = [work EXCEPT ![s] = work[s] \ {w}]
          /\ UNCHANGED <<rtrVars, outq, conn, cliVars, starts, srvChan, objs>>
      BY <2>5 DEF SrvReply
    <3>4. inq' \in [Chan -> Seq(ForRouter)]
      <4>1. CASE srvChan[s] \in Chan
        <5>1. Append(inq[srvChan[s]], Response(w)) \in Seq(ForRouter)
          BY <3>2, <4>1 DEF RtrTypeOK
        <5> QED BY <3>3, <5>1 DEF RtrTypeOK
      <4>2. CASE srvChan[s] \notin Chan
        BY <3>3, <4>2 DEF RtrTypeOK
      <4> QED BY <4>1, <4>2
    <3> QED BY <3>3, <3>4 DEF RtrTypeOK, rtrVars, cliVars
  <2> QED BY <1>7, <2>1, <2>2, <2>3, <2>4, <2>5 DEF SrvStep
<1>8. ASSUME NEW s \in Server, SrvDie(s)
      PROVE  RtrTypeOK'
  BY <1>6, <1>8 DEF SrvDie
<1> QED BY <1>1, <1>2, <1>3, <1>4, <1>5, <1>7, <1>8

LEMMA TypesInit == Init => RtrTypeOK
<1> SUFFICES ASSUME Init PROVE RtrTypeOK
  OBVIOUS
<1>1. \A T : <<>> \in Seq(T)
  OBVIOUS
<1>2. /\ inq \in [Chan -> Seq(ForRouter)] /\ outq \in [Chan -> Seq(ForServers \cup Answers)]
      /\ pending \in [Server -> Seq(ForServers)]
  BY <1>1 DEF Init
<1> QED BY <1>2, FS_EmptySet DEF Init, RtrTypeOK, Unused

LEMMA TypesKept ==
  ASSUME RtrTypeOK, [Next]_vars
  PROVE  RtrTypeOK'
<1>1. CASE UNCHANGED vars
  BY <1>1 DEF RtrTypeOK, vars, rtrVars, cliVars, srvVars
<1>2. CASE \E c \in Chan : RtrStep(c)
  BY <1>2, RtrTypes
<1>3. CASE Next /\ ~\E c \in Chan : RtrStep(c)
  BY <1>3, PeerTypes DEF Next
<1> QED BY <1>1, <1>2, <1>3

-----------------------------------------------------------------------------
(* The places of a sequence without its head, and of two joined.           *)
LEMMA TailAt ==
  ASSUME NEW T, NEW q \in Seq(T), q # <<>>
  PROVE  /\ Head(q) = q[1] /\ 1 \in DOMAIN q
         /\ Tail(q) \in Seq(T) /\ Len(Tail(q)) = Len(q) - 1
         /\ \A n \in DOMAIN Tail(q) : n + 1 \in DOMAIN q /\ Tail(q)[n] = q[n + 1]
         /\ \A n \in DOMAIN q : n = 1 \/ n - 1 \in DOMAIN Tail(q)
OBVIOUS

LEMMA JoinAt ==
  ASSUME NEW T, NEW p \in Seq(T), NEW q \in Seq(T)
  PROVE  /\ p \o q \in Seq(T) /\ Len(p \o q) = Len(p) + Len(q)
         /\ Len(p) \in Nat /\ Len(q) \in Nat
         /\ \A n \in DOMAIN (p \o q) :
              \/ n \in DOMAIN p /\ (p \o q)[n] = p[n]
              \/ n - Len(p) \in DOMAIN q /\ (p \o q)[n] = q[n - Len(p)]
         /\ \A n \in DOMAIN p : n \in DOMAIN (p \o q) /\ (p \o q)[n] = p[n]
         /\ \A n \in DOMAIN q : n + Len(p) \in DOMAIN (p \o q) /\ (p \o q)[n + Len(p)] = q[n]
<1> DEFINE r == p \o q
<1>1. /\ r \in Seq(T) /\ Len(r) = Len(p) + Len(q) /\ Len(p) \in Nat /\ Len(q) \in Nat
      /\ DOMAIN r = 1..(Len(p) + Len(q)) /\ DOMAIN p = 1..Len(p) /\ DOMAIN q = 1..Len(q)
  OBVIOUS
<1>2. \A n \in 1..(Len(p) + Len(q)) :
        \/ n \in 1..Len(p) /\ r[n] = p[n]
        \/ n - Len(p) \in 1..Len(q) /\ r[n] = q[n - Len(p)]
  OBVIOUS
<1>3. \A n \in 1..Len(p) : n \in DOMAIN r /\ r[n] = p[n]
  OBVIOUS
<1>4. \A n \in 1..Len(q) : n + Len(p) \in DOMAIN r /\ r[n + Len(p)] = q[n]
  OBVIOUS
<1> HIDE DEF r
<1>5. \A n \in DOMAIN r : \/ n \in DOMAIN p /\ r[n] = p[n]
                          \/ n - Len(p) \in DOMAIN q /\ r[n] = q[n - Len(p)]
  BY <1>1, <1>2
<1>6. \A n \in DOMAIN p : n \in DOMAIN r /\ r[n] = p[n]
  BY <1>1, <1>3
<1>7. \A n \in DOMAIN q : n + Len(p) \in DOMAIN r /\ r[n + Len(p)] = q[n]
  BY <1>1, <1>4
<1> QED BY <1>1, <1>5, <1>6, <1>7 DEF r

LEMMA AppendAt ==
  ASSUME NEW T, NEW q \in Seq(T), NEW e \in T
  PROVE  /\ Append(q, e) \in Seq(T) /\ Len(Append(q, e)) = Len(q) + 1 /\ Len(q) \in Nat
         /\ \A n \in DOMAIN Append(q, e) :
              \/ n \in DOMAIN q /\ Append(q, e)[n] = q[n]
              \/ n = Len(q) + 1 /\ Append(q, e)[n] = e
         /\ \A n \in DOMAIN q : n \in DOMAIN Append(q, e) /\ Append(q, e)[n] = q[n]
         /\ Len(q) + 1 \in DOMAIN Append(q, e) /\ Append(q, e)[Len(q) + 1] = e
<1> DEFINE r == Append(q, e)
<1>1. /\ r \in Seq(T) /\ Len(r) = Len(q) + 1 /\ Len(q) \in Nat
      /\ DOMAIN r = 1..(Len(q) + 1) /\ DOMAIN q = 1..Len(q)
      /\ r[Len(q) + 1] = e
  OBVIOUS
<1>2. \A n \in 1..Len(q) : r[n] = q[n]
  OBVIOUS
<1> HIDE DEF r
<1>3. \A n \in DOMAIN r : \/ n \in DOMAIN q /\ r[n] = q[n]
                          \/ n = Len(q) + 1 /\ r[n] = e
  BY <1>1, <1>2
<1> QED BY <1>1, <1>2, <1>3 DEF r

(* What is in a sequence of a type is in another.                          *)
Within(q, r, type) == \A n \in DOMAIN q : q[n].type = type => \E m \in DOMAIN r : q[n] = r[m]

LEMMA WithinTail ==
  ASSUME NEW T, NEW q \in Seq(T), NEW type
  PROVE  /\ q # <<>> => Within(Tail(q), q, type)
         /\ Within(q, q, type) /\ Within(<<>>, q, type)
         /\ \A e \in T : e.type # type => Within(Append(q, e), q, type)
<1>1. q # <<>> => Within(Tail(q), q, type)
  BY TailAt DEF Within
<1>2. \A e \in T : e.type # type => Within(Append(q, e), q, type)
  BY AppendAt DEF Within
<1> QED BY <1>1, <1>2 DEF Within

(* What each step does to what the router reads.                           *)
LEMMA ReceiveWithin ==
  ASSUME RtrTypeOK, NEW c \in Chan, NEW k, NEW type, Receive(c, k, type)
  PROVE  \A d \in Chan : \A ty : Within(inq'[d], inq[d], ty)
<1>1. inq' = [inq EXCEPT ![c] = Tail(inq[c])] /\ inq[c] # <<>>
  BY ReceiveFacts
<1>2. \A d \in Chan : inq[d] \in Seq(ForRouter)
  BY DEF RtrTypeOK
<1>3. \A d \in Chan : inq'[d] = IF d = c THEN Tail(inq[c]) ELSE inq[d]
  BY <1>1 DEF RtrTypeOK
<1> QED BY <1>1, <1>2, <1>3, WithinTail

LEMMA ApartSame ==
  ASSUME Apart, UNCHANGED <<kind, comms, made>>,
         \A d \in Chan : Within(inq'[d], inq[d], "CommCreate")
  PROVE  Apart'
BY DEF Apart, Within

LEMMA ApartKept ==
  ASSUME RtrTypeOK, Apart, [Next]_vars
  PROVE  Apart'
<1> USE DEF cliVars, srvVars, rtrVars
<1>0. ASSUME UNCHANGED <<kind, comms, made, inq>>
      PROVE  Apart'
  BY <1>0 DEF Apart
<1>1. ASSUME NEW c \in Chan, RtrCommCreate(c)
      PROVE  Apart'
  <2> DEFINE k == Head(inq[c]).comm
  <2>1. /\ kind[c] = "client" /\ inq[c] # <<>> /\ Head(inq[c]).type = "CommCreate"
    BY <1>1, ReceiveFacts DEF RtrCommCreate
  <2>2. \A d \in Chan : Within(inq'[d], inq[d], "CommCreate")
    BY <1>1, ReceiveWithin DEF RtrCommCreate
  <2>3. k \in made[c]
    <3>1. inq[c] \in Seq(ForRouter)
      BY DEF RtrTypeOK
    <3>2. Head(inq[c]) = inq[c][1] /\ 1 \in DOMAIN inq[c]
      BY <2>1, <3>1, TailAt
    <3> QED BY <2>1, <3>2 DEF Apart
  <2>4. UNCHANGED <<kind, made>> /\ (comms' = comms \/ comms' = [comms EXCEPT ![c] = @ \cup {k}])
    BY <1>1 DEF RtrCommCreate, Abort
  <2> HIDE DEF k
  <2>5. \A d \in Chan : comms'[d] = comms[d] \/ (d = c /\ comms'[d] = comms[d] \cup {k})
    BY <2>4 DEF RtrTypeOK
  <2> QED BY <2>1, <2>2, <2>3, <2>4, <2>5 DEF Apart, Within
<1>2. ASSUME NEW c \in Chan, NEW i \in InfoId, RtrCommReq(c, i)
      PROVE  Apart'
  <2>1. UNCHANGED <<kind, comms, made>>
    BY <1>2 DEF RtrCommReq, Abort
  <2>2. \A d \in Chan : Within(inq'[d], inq[d], "CommCreate")
    BY <1>2, ReceiveWithin DEF RtrCommReq
  <2> QED BY <2>1, <2>2, ApartSame
<1>3. ASSUME NEW c \in Chan, RtrCommResp(c) \/ RtrOneResp(c) \/ RtrServerConnect(c)
      PROVE  Apart'
  <2>1. UNCHANGED <<kind, comms, made>>
    BY <1>3 DEF RtrCommResp, RtrOneResp, RtrServerConnect
  <2>2. \A d \in Chan : Within(inq'[d], inq[d], "CommCreate")
    BY <1>3, ReceiveWithin DEF RtrCommResp, RtrOneResp, RtrServerConnect
  <2> QED BY <2>1, <2>2, ApartSame
<1>4. ASSUME NEW c \in Chan, RtrClientClosed(c) \/ RtrServerClosed(c)
      PROVE  Apart'
  <2>1. kind' = [kind EXCEPT ![c] = "free"] /\ UNCHANGED <<made, inq>>
    BY <1>4 DEF RtrClientClosed, RtrServerClosed, Forget
  <2>2. comms' = [comms EXCEPT ![c] = {}]
    <3>1. CASE RtrClientClosed(c)
      BY <3>1 DEF RtrClientClosed
    <3>2. CASE RtrServerClosed(c)
      <4>1. comms' = comms /\ comms[c] = {}
        BY <3>2 DEF RtrServerClosed, Closed, Apart
      <4> QED BY <4>1 DEF RtrTypeOK
    <3> QED BY <1>4, <3>1, <3>2
  <2>3. \A d \in Chan : /\ kind'[d] = IF d = c THEN "free" ELSE kind[d]
                        /\ comms'[d] = IF d = c THEN {} ELSE comms[d]
    BY <2>1, <2>2 DEF RtrTypeOK
  <2> QED BY <2>1, <2>3 DEF Apart
<1>5. ASSUME NEW c \in Chan, RtrReset(c) \/ CliRead(c) \/ CliLeave(c)
      PROVE  Apart'
  BY <1>0, <1>5 DEF RtrReset, Abort, CliRead, CliLeave
<1>6. ASSUME NEW c \in Chan, NEW K \in {"client", "server"}, Accept(c, K),
             made' = [made EXCEPT ![c] = {}] \/ made' = made,
             K = "client" => made' = [made EXCEPT ![c] = {}],
             inq' = [inq EXCEPT ![c] = <<>>] \/ (K = "server" /\ \E q : inq' = [inq EXCEPT ![c] = q])
      PROVE  Apart'
  <2>1. kind[c] = "free" /\ kind' = [kind EXCEPT ![c] = K] /\ comms' = comms
    BY <1>6 DEF Accept
  <2>2. comms[c] = {}
    BY <2>1 DEF Apart
  <2>3. \A d \in Chan : /\ kind'[d] = IF d = c THEN K ELSE kind[d]
                        /\ d # c => made'[d] = made[d] /\ inq'[d] = inq[d]
                        /\ K = "client" => made'[c] = {} /\ inq'[c] = <<>>
    BY <1>6, <2>1 DEF RtrTypeOK
  <2>4. DOMAIN <<>> = {}
    OBVIOUS
  <2> QED BY <2>1, <2>2, <2>3, <2>4 DEF Apart
<1>7. ASSUME NEW c \in Chan, AcceptClient(c)
      PROVE  Apart'
  BY <1>6, <1>7 DEF AcceptClient
<1>8. ASSUME NEW c \in Chan, NEW s \in Server, AcceptServer(c, s)
      PROVE  Apart'
  BY <1>6, <1>8 DEF AcceptServer
<1>9. ASSUME NEW c \in Chan, NEW q \in ReqId, NEW k \in CommId, NEW op \in ReqOp, CliAsk(c, q, k, op)
      PROVE  Apart'
  <2> DEFINE p == IF k \in made[c] THEN <<>> ELSE <<Create(k, NoObj)>>
             r == <<Request(op, q, k)>>
  <2>1. /\ kind[c] = "client" /\ UNCHANGED <<kind, comms>>
        /\ made' = [made EXCEPT ![c] = @ \cup {k}]
        /\ \A d \in Chan \ {c} : kind[d] = "client" => k \notin made[d]
        /\ inq' = [inq EXCEPT ![c] = inq[c] \o p \o r]
    BY <1>9 DEF CliAsk, IsClient, Own
  <2>2. \A d \in Chan : /\ made'[d] = IF d = c THEN made[c] \cup {k} ELSE made[d]
                        /\ inq'[d] = IF d = c THEN inq[c] \o p \o r ELSE inq[d]
    BY <2>1 DEF RtrTypeOK
  <2>3. ASSUME NEW n \in DOMAIN (inq[c] \o p \o r), (inq[c] \o p \o r)[n].type = "CommCreate"
        PROVE  (inq[c] \o p \o r)[n].comm \in made[c] \cup {k}
    <3>0. Create(k, NoObj) \in ForRouter /\ Request(op, q, k) \in ForRouter
      BY DEF Create, Request, ForRouter, Opened, AskedFor
    <3>1. inq[c] \in Seq(ForRouter) /\ p \in Seq(ForRouter) /\ r \in Seq(ForRouter)
      BY <3>0 DEF RtrTypeOK
    <3>2. \A j \in DOMAIN p : p[j].comm = k
      BY DEF Create
    <3>3. \A j \in DOMAIN r : r[j].comm = k
      BY DEF Request
    <3>4. \A j \in DOMAIN inq[c] : inq[c][j].type = "CommCreate" => inq[c][j].comm \in made[c]
      BY <2>1 DEF Apart
    <3> HIDE DEF p, r
    <3>5. inq[c] \o p \in Seq(ForRouter)
      BY <3>1
    <3>6. \A j \in DOMAIN (inq[c] \o p) : (inq[c] \o p)[j].type = "CommCreate" =>
                                          (inq[c] \o p)[j].comm \in made[c] \cup {k}
      BY <3>1, <3>2, <3>4, JoinAt
    <3> QED BY <2>3, <3>1, <3>3, <3>5, <3>6, JoinAt
  <2> HIDE DEF p, r
  <2>4. \A d, e \in Chan : d # e /\ kind[d] = "client" /\ kind[e] = "client" => made'[d] \cap made'[e] = {}
    BY <2>1, <2>2 DEF Apart
  <2>5. \A d \in Chan : comms[d] \subseteq made'[d] /\ made[d] \subseteq made'[d]
    BY <2>2 DEF Apart
  <2> QED BY <2>1, <2>2, <2>3, <2>4, <2>5 DEF Apart
<1>10. ASSUME NEW s \in Server, SrvStep(s)
       PROVE  Apart'
  <2>1. ASSUME NEW w \in work[s], SrvReply(s, w)
        PROVE  Apart'
    <3>1. w \in Works
      BY DEF RtrTypeOK
    <3>2. Response(w) \in ForRouter /\ Response(w).type # "CommCreate"
      BY <3>1 DEF Response, ForRouter, Responses, Works
    <3>3. \A d \in Chan : inq[d] \in Seq(ForRouter)
      BY DEF RtrTypeOK
    <3>4. inq' = [inq EXCEPT ![srvChan[s]] = Append(@, Response(w))] /\ UNCHANGED <<kind, comms, made>>
      BY <2>1 DEF SrvReply
    <3>5. \A d \in Chan : inq'[d] = inq[d] \/ inq'[d] = Append(inq[d], Response(w))
      BY <3>4 DEF RtrTypeOK
    <3>6. \A d \in Chan : Within(inq'[d], inq[d], "CommCreate")
      BY <3>2, <3>3, <3>5, WithinTail
    <3> QED BY <3>4, <3>6, ApartSame
  <2> QED BY <1>0, <1>10, <2>1 DEF SrvStep, SrvCommCreate, SrvCommDestroy, SrvCommReq, SrvCrash, SrvStops
<1>11. ASSUME NEW s \in Server, SrvDie(s)
       PROVE  Apart'
  BY <1>0, <1>11 DEF SrvDie, SrvStops
<1>12. CASE UNCHANGED vars
  BY <1>0, <1>12 DEF vars
<1> QED BY <1>1, <1>2, <1>3, <1>4, <1>5, <1>7, <1>8, <1>9, <1>10, <1>11, <1>12 DEF Next, RtrStep

-----------------------------------------------------------------------------
(* Running servers have channels of their own.                             *)
LEMMA PluggedKept ==
  ASSUME RtrTypeOK, Plugged, [Next]_vars
  PROVE  Plugged'
<1> USE DEF cliVars, srvVars, rtrVars
<1>0. ASSUME UNCHANGED <<kind, conn, srvChan, starts>>
      PROVE  Plugged'
  BY <1>0 DEF Plugged
<1>1. ASSUME NEW c \in Chan, NEW i \in InfoId, RtrCommReq(c, i)
      PROVE  Plugged'
  BY <1>0, <1>1 DEF RtrCommReq, Abort
<1>11. ASSUME NEW c \in Chan,
              \/ RtrCommCreate(c) \/ RtrCommResp(c) \/ RtrOneResp(c)
              \/ RtrServerConnect(c) \/ RtrReset(c) \/ CliRead(c)
       PROVE  Plugged'
  BY <1>0, <1>11 DEF RtrCommCreate, RtrCommResp, RtrOneResp, RtrServerConnect, RtrReset, Abort, CliRead
<1>2. ASSUME NEW c \in Chan, RtrClientClosed(c) \/ RtrServerClosed(c) \/ CliLeave(c)
      PROVE  Plugged'
  <2>1. kind[c] = "client" \/ conn[c] # "open"
    BY <1>2 DEF RtrClientClosed, RtrServerClosed, CliLeave, IsClient, Closed
  <2>2. \A s \in Server : srvChan[s] # NoChan => srvChan[s] # c /\ srvChan[s] \in Chan
    BY <2>1 DEF Plugged, RtrTypeOK
  <2>3. UNCHANGED <<srvChan, starts>> /\ \A d \in Chan \ {c} : kind'[d] = kind[d] /\ conn'[d] = conn[d]
    BY <1>2 DEF RtrClientClosed, RtrServerClosed, CliLeave, Close, Forget, RtrTypeOK
  <2> QED BY <2>2, <2>3 DEF Plugged
<1>3. ASSUME NEW c \in Chan, AcceptClient(c)
      PROVE  Plugged'
  <2>1. \A s \in Server : srvChan[s] # NoChan => srvChan[s] # c /\ srvChan[s] \in Chan
    BY <1>3 DEF AcceptClient, Accept, Plugged, RtrTypeOK
  <2>2. UNCHANGED <<srvChan, starts>> /\ \A d \in Chan \ {c} : kind'[d] = kind[d] /\ conn'[d] = conn[d]
    BY <1>3 DEF AcceptClient, Accept, RtrTypeOK
  <2> QED BY <2>1, <2>2 DEF Plugged
<1>4. ASSUME NEW c \in Chan, NEW s \in Server, AcceptServer(c, s)
      PROVE  Plugged'
  <2>1. \A t \in Server : srvChan[t] # NoChan => srvChan[t] # c /\ srvChan[t] \in Chan
    BY <1>4 DEF AcceptServer, Accept, Plugged, RtrTypeOK
  <2>2. /\ \A d \in Chan \ {c} : kind'[d] = kind[d] /\ conn'[d] = conn[d]
        /\ kind'[c] = "server" /\ conn'[c] = "open"
        /\ \A t \in Server : srvChan'[t] = IF t = s THEN c ELSE srvChan[t]
        /\ \A t \in Server : starts'[t] = IF t = s THEN starts[s] + 1 ELSE starts[t]
        /\ starts[s] \in Nat
    BY <1>4 DEF AcceptServer, Accept, RtrTypeOK
  <2> QED BY <2>1, <2>2 DEF Plugged
<1>5. ASSUME NEW c \in Chan, NEW q \in ReqId, NEW k \in CommId, NEW op \in ReqOp, CliAsk(c, q, k, op)
      PROVE  Plugged'
  BY <1>0, <1>5 DEF CliAsk
<1>6. ASSUME NEW s \in Server, NEW unread, srvChan[s] # NoChan, SrvStops(s, unread)
      PROVE  Plugged'
  <2>1. \A t \in Server : srvChan[t] # NoChan /\ t # s => srvChan[t] # srvChan[s] /\ srvChan[t] \in Chan
    BY DEF Plugged, RtrTypeOK
  <2>2. /\ UNCHANGED <<kind, starts>>
        /\ \A d \in Chan : d # srvChan[s] => conn'[d] = conn[d]
        /\ \A t \in Server : srvChan'[t] = IF t = s THEN NoChan ELSE srvChan[t]
    BY <1>6 DEF SrvStops, Close, RtrTypeOK
  <2> QED BY <2>1, <2>2 DEF Plugged
<1>7. ASSUME NEW s \in Server, SrvStep(s)
      PROVE  Plugged'
  BY <1>0, <1>6, <1>7 DEF SrvStep, SrvCommCreate, SrvCommDestroy, SrvCommReq, SrvCrash, SrvReply
<1>8. ASSUME NEW s \in Server, SrvDie(s)
      PROVE  Plugged'
  BY <1>6, <1>8 DEF SrvDie
<1>9. CASE UNCHANGED vars
  BY <1>0, <1>9 DEF vars
<1> QED BY <1>1, <1>11, <1>2, <1>3, <1>4, <1>5, <1>7, <1>8, <1>9 DEF Next, RtrStep

(* A server that has stopped stays so, or has been started again.          *)
LEMMA NoneStoppedBefore ==
  ASSUME RtrTypeOK, Plugged, [Next]_vars, NoneStopped'
  PROVE  NoneStopped
<1> USE DEF cliVars, srvVars, rtrVars
<1>1. ASSUME UNCHANGED <<srvChan, starts>>
      PROVE  NoneStopped
  BY <1>1 DEF NoneStopped
<1>2. ASSUME NEW c \in Chan, RtrStep(c)
      PROVE  UNCHANGED <<srvChan, starts>>
  <2>1. CASE RtrCommCreate(c) \/ \E i \in InfoId : RtrCommReq(c, i)
    BY <2>1 DEF RtrCommCreate, RtrCommReq
  <2>2. CASE RtrCommResp(c) \/ RtrOneResp(c) \/ RtrServerConnect(c)
    BY <2>2 DEF RtrCommResp, RtrOneResp, RtrServerConnect
  <2>3. CASE RtrClientClosed(c) \/ RtrServerClosed(c) \/ RtrReset(c)
    BY <2>3 DEF RtrClientClosed, RtrServerClosed, RtrReset
  <2> QED BY <1>2, <2>1, <2>2, <2>3 DEF RtrStep
<1>3. ASSUME NEW c \in Chan, AcceptClient(c) \/ CliRead(c) \/ CliLeave(c)
      PROVE  UNCHANGED <<srvChan, starts>>
  BY <1>3 DEF AcceptClient, CliRead, CliLeave
<1>4. ASSUME NEW c \in Chan, NEW q \in ReqId, NEW k \in CommId, NEW op \in ReqOp, CliAsk(c, q, k, op)
      PROVE  UNCHANGED <<srvChan, starts>>
  BY <1>4 DEF CliAsk
<1>5. ASSUME NEW c \in Chan, NEW s \in Server, AcceptServer(c, s)
      PROVE  NoneStopped
  <2>1. /\ srvChan[s] = NoChan
        /\ \A t \in Server : srvChan'[t] = IF t = s THEN c ELSE srvChan[t]
        /\ \A t \in Server : starts'[t] = IF t = s THEN starts[s] + 1 ELSE starts[t]
        /\ starts[s] \in Nat
    BY <1>5 DEF AcceptServer, Accept, RtrTypeOK
  <2>2. \A t \in Server : starts'[t] <= 1 /\ (starts'[t] = 1 => srvChan'[t] # NoChan)
    BY DEF NoneStopped
  <2>3. starts[s] = 0
    BY <2>1, <2>2
  <2> QED BY <2>1, <2>2, <2>3 DEF NoneStopped
<1>6. ASSUME NEW s \in Server, NEW unread, srvChan[s] # NoChan, SrvStops(s, unread)
      PROVE  FALSE
  <2>1. srvChan'[s] = NoChan /\ starts'[s] = starts[s] /\ starts[s] > 0 /\ starts[s] \in Nat
    BY <1>6 DEF SrvStops, RtrTypeOK, Plugged
  <2>2. starts'[s] <= 1 /\ (starts'[s] = 1 => srvChan'[s] # NoChan)
    BY DEF NoneStopped
  <2> QED BY <2>1, <2>2
<1>7. ASSUME NEW s \in Server, SrvStep(s)
      PROVE  UNCHANGED <<srvChan, starts>>
  BY <1>6, <1>7 DEF SrvStep, SrvCommCreate, SrvCommDestroy, SrvCommReq, SrvCrash, SrvReply
<1>8. ASSUME NEW s \in Server, SrvDie(s)
      PROVE  FALSE
  BY <1>6, <1>8 DEF SrvDie
<1>9. CASE UNCHANGED vars
  BY <1>1, <1>9 DEF vars
<1> QED BY <1>1, <1>2, <1>3, <1>4, <1>5, <1>7, <1>8, <1>9 DEF Next

-----------------------------------------------------------------------------
(* Until a server stops, m_localMap and the connections agree.             *)
LEMMA RouteFacts ==
  ASSUME RtrTypeOK, NEW o \in Obj, NEW c \in Chan
  PROVE  Route(o) = c <=> Home[o] \in Server /\ localMap[Home[o]] = c
<1>1. Home[o] \in Server \cup {NoRoute} /\ NoRoute \notin Server /\ NoRoute \notin Chan
  BY RouteAssumption
<1> QED BY <1>1 DEF Route

LEMMA ForServersFacts ==
  ASSUME NEW m \in ForServers
  PROVE  m.dst \in Obj /\ m.comm \in CommId /\ m.type \in {"CommCreate", "CommDestroy", "CommReq"}
BY DEF ForServers, Created, Destroyed, Copied

(* Only connected servers are sent requests.                               *)
OutRight == \A c \in Chan : \A n \in DOMAIN outq[c] :
              outq[c][n].type # "Answer" => \E s \in Server : localMap[s] = c

LEMMA SendOut ==
  ASSUME RtrTypeOK, Linked, NEW ms \in Seq(ForServers), Send(ms), UNCHANGED localMap
  PROVE  /\ OutRight'
         /\ \A s \in Server : localMap[s] # NoChan => pending'[s] = <<>>
<1>1. \A s \in Server : localMap[s] # NoChan => pending[s] = <<>>
  BY DEF Linked
<1>2. \A s \in Server : localMap[s] # NoChan => pending'[s] = <<>>
  BY <1>1, SendPicks
<1>3. ASSUME NEW c \in Chan, NEW n \in DOMAIN outq'[c], outq'[c][n].type # "Answer"
      PROVE  \E s \in Server : localMap[s] = c
  <2>1. PICK P : P = Routed(ms, c)
    OBVIOUS
  <2>2. PICK q : q = Picked(ms, P)
    OBVIOUS
  <2>3. outq'[c] = outq[c] \/ outq'[c] = outq[c] \o q
    BY <2>1, <2>2, SendPicks
  <2>4. q \in Seq(ForServers) /\ \A x \in Range(q) : \E j \in DOMAIN ms : j \in P /\ x = ms[j]
    BY <2>2, PickedFacts
  <2>5. q \in Seq(ForServers \cup Answers) /\ outq[c] \in Seq(ForServers \cup Answers)
    BY <2>4 DEF RtrTypeOK
  <2>6. \A j \in DOMAIN outq[c] : outq[c][j].type # "Answer" => \E s \in Server : localMap[s] = c
    BY DEF Linked
  <2>7. \A j \in DOMAIN q : \E s \in Server : localMap[s] = c
    <3>1. SUFFICES ASSUME NEW j \in DOMAIN q PROVE \E s \in Server : localMap[s] = c
      OBVIOUS
    <3>2. PICK i \in DOMAIN ms : i \in P
      BY <2>4 DEF Range
    <3>3. ms[i].dst \in Obj /\ Route(ms[i].dst) = c
      BY <2>1, <3>2, ForServersFacts DEF Routed
    <3> QED BY <3>3, RouteFacts
  <2>8. \A j \in DOMAIN (outq[c] \o q) : \/ j \in DOMAIN outq[c] /\ (outq[c] \o q)[j] = outq[c][j]
                                         \/ j - Len(outq[c]) \in DOMAIN q
    BY <2>5, JoinAt
  <2> HIDE <1>2
  <2>9. CASE outq'[c] = outq[c]
    BY <1>3, <2>6, <2>9
  <2>10. CASE outq'[c] = outq[c] \o q
    <3>1. PICK r : r = outq[c] \o q
      OBVIOUS
    <3>2. n \in DOMAIN r /\ r[n].type # "Answer"
      BY <1>3, <2>10, <3>1
    <3>3. CASE n \in DOMAIN outq[c] /\ r[n] = outq[c][n]
      BY <2>6, <3>2, <3>3
    <3>4. CASE n - Len(outq[c]) \in DOMAIN q
      BY <2>7, <3>4
    <3> QED BY <2>8, <3>1, <3>2, <3>3, <3>4
  <2> QED BY <2>3, <2>9, <2>10
<1> QED BY <1>2, <1>3 DEF OutRight

LEMMA LinkedSame ==
  ASSUME Linked, UNCHANGED <<srvChan, localMap, objs, work>>,
         \A c \in Chan : kind'[c] = "server" => kind[c] = "server",
         \A s \in Server : localMap[s] # NoChan => pending'[s] = <<>>,
         \A c \in Chan : Within(inq'[c], inq[c], "ServerConnect") /\ Within(inq'[c], inq[c], "CommResp"),
         OutRight'
  PROVE  Linked'
<1>1. \A c \in Chan : kind'[c] = "server" => \E s \in Server : srvChan'[s] = c
  BY DEF Linked
<1>2. \A s \in Server : localMap'[s] # NoChan => localMap'[s] = srvChan'[s] /\ pending'[s] = <<>>
  BY DEF Linked
<1>3. \A s \in Server : localMap'[s] = NoChan => objs'[s] = [k \in CommId |-> NoObj] /\ work'[s] = {}
  BY DEF Linked
<1>4. \A c \in Chan : \A n \in DOMAIN inq'[c] :
       /\ inq'[c][n].type = "ServerConnect" => srvChan'[inq'[c][n].srv] = c
       /\ inq'[c][n].type = "CommResp" => \E s \in Server : srvChan'[s] = c
  <2>1. \A c \in Chan : \A n \in DOMAIN inq[c] :
       /\ inq[c][n].type = "ServerConnect" => srvChan[inq[c][n].srv] = c
       /\ inq[c][n].type = "CommResp" => \E s \in Server : srvChan[s] = c
    BY DEF Linked
  <2> QED BY <2>1 DEF Within
<1> QED BY <1>1, <1>2, <1>3, <1>4 DEF Linked, OutRight

(* What a server takes from its channel is the head of its queue.          *)
LEMMA TakesQueue ==
  ASSUME RtrTypeOK, Plugged, Linked, NEW s \in Server, NEW type, SrvTakes(s, type), type # "Answer"
  PROVE  localMap[s] = srvChan[s] /\ Queue(s) = outq[srvChan[s]] /\ localMap[s] # NoChan
<1>1. srvChan[s] \in Chan /\ outq[srvChan[s]] # <<>> /\ Head(outq[srvChan[s]]).type = type
  BY TakesFacts
<1>2. Head(outq[srvChan[s]]) = outq[srvChan[s]][1] /\ 1 \in DOMAIN outq[srvChan[s]]
  BY <1>1, TailAt DEF RtrTypeOK
<1>3. PICK t \in Server : localMap[t] = srvChan[s]
  BY <1>1, <1>2 DEF Linked
<1>4. NoChan \notin Chan
  BY RouteAssumption
<1>5. localMap[t] = srvChan[t]
  BY <1>1, <1>3, <1>4 DEF Linked
<1>6. t = s
  BY <1>1, <1>3, <1>4, <1>5 DEF Plugged
<1> QED BY <1>1, <1>3, <1>4, <1>6 DEF Queue

LEMMA OutLess ==
  ASSUME RtrTypeOK, Linked, UNCHANGED localMap, NEW c,
         \/ outq' = outq
         \/ c \in Chan /\ outq[c] # <<>> /\ outq' = [outq EXCEPT ![c] = Tail(outq[c])]
         \/ outq' = [outq EXCEPT ![c] = <<>>]
  PROVE  OutRight'
<1>1. \A d \in Chan : outq'[d] = outq[d] \/ outq'[d] = <<>> \/ (outq[d] # <<>> /\ outq'[d] = Tail(outq[d]))
  BY DEF RtrTypeOK
<1>2. \A d \in Chan : outq[d] \in Seq(ForServers \cup Answers)
  BY DEF RtrTypeOK
<1>3. \A d \in Chan : \A n \in DOMAIN outq[d] : outq[d][n].type # "Answer" => \E s \in Server : localMap[s] = d
  BY DEF Linked
<1>4. DOMAIN <<>> = {}
  OBVIOUS
<1>5. \A d \in Chan : \A n \in DOMAIN outq'[d] : \E m \in DOMAIN outq[d] : outq'[d][n] = outq[d][m]
  <2> SUFFICES ASSUME NEW d \in Chan, NEW n \in DOMAIN outq'[d]
               PROVE  \E m \in DOMAIN outq[d] : outq'[d][n] = outq[d][m]
    OBVIOUS
  <2>1. PICK q : q = outq[d]
    OBVIOUS
  <2>2. q # <<>> => \A m \in DOMAIN Tail(q) : m + 1 \in DOMAIN q /\ Tail(q)[m] = q[m + 1]
    BY <1>2, <2>1, TailAt
  <2> QED BY <1>1, <1>4, <2>1, <2>2
<1> QED BY <1>3, <1>5 DEF OutRight

LEMMA AnswerOut ==
  ASSUME RtrTypeOK, Linked, UNCHANGED localMap, NEW x \in Info, NEW v \in Seq(Seq(Obj)), Answer(x, v)
  PROVE  /\ OutRight'
         /\ \A d \in Chan : \/ outq'[d] = outq[d]
                            \/ \E a \in Answers : outq'[d] = Append(outq[d], a)
<1>1. PICK a : a = [type |-> "Answer", id |-> x.id, value |-> v]
  OBVIOUS
<1>2. a \in Answers /\ a.type = "Answer"
  BY <1>1 DEF Answers, Info
<1>3. \A d \in Chan : outq'[d] = outq[d] \/ outq'[d] = Append(outq[d], a)
  BY <1>1 DEF Answer, RtrTypeOK
<1>4. \A d \in Chan : outq[d] \in Seq(ForServers \cup Answers)
  BY DEF RtrTypeOK
<1>5. \A d \in Chan : \A n \in DOMAIN outq[d] : outq[d][n].type # "Answer" => \E s \in Server : localMap[s] = d
  BY DEF Linked
<1>6. ASSUME NEW d \in Chan, NEW n \in DOMAIN outq'[d], outq'[d][n].type # "Answer"
      PROVE  \E s \in Server : localMap[s] = d
  <2>1. PICK q : q = outq[d]
    OBVIOUS
  <2>2. \A m \in DOMAIN Append(q, a) : \/ m \in DOMAIN q /\ Append(q, a)[m] = q[m]
                                       \/ m = Len(q) + 1 /\ Append(q, a)[m] = a
    BY <1>2, <1>4, <2>1, AppendAt
  <2>3. \A m \in DOMAIN q : q[m].type # "Answer" => \E s \in Server : localMap[s] = d
    BY <1>5, <2>1
  <2> QED BY <1>2, <1>3, <1>6, <2>1, <2>2, <2>3
<1> QED BY <1>2, <1>3, <1>6 DEF OutRight

LEMMA RespOut ==
  ASSUME RtrTypeOK, Linked, NEW c \in Chan, RtrCommResp(c) \/ RtrOneResp(c)
  PROVE  /\ OutRight'
         /\ \A d \in Chan : outq'[d] = outq[d] \/ \E a \in Answers : outq'[d] = Append(outq[d], a)
<1> DEFINE m == Head(inq[c])
<1>1. m \in ForRouter /\ m.type = "CommResp"
  BY ReceiveFacts DEF RtrCommResp, RtrOneResp
<1>2. m.info \in InfoId /\ m.grp \in Nat /\ m.obj \in Obj
  BY <1>1, MessageTypes DEF Responses
<1>3. UNCHANGED localMap
  BY DEF RtrCommResp, RtrOneResp
<1>5. outq' = outq \/ \E x \in Info, v \in Seq(Seq(Obj)) : Answer(x, v)
  <2>1. CASE RtrCommResp(c)
    <3>1. outq' = outq \/ (info[m.info] # Free /\ Reply(m))
      <4>1. \/ outq' = outq
            \/ info[m.info] # Free /\ (Collect(m) \/ Complete(m) \/ Reply(m))
        BY <2>1 DEF RtrCommResp
      <4> HIDE DEF m
      <4> QED BY <4>1 DEF Collect, Complete
    <3>2. ASSUME info[m.info] # Free, Reply(m)
          PROVE  \E x \in Info, v \in Seq(Seq(Obj)) : Answer(x, v)
      <4> HIDE DEF m
      <4>1. PICK x : x = info[m.info]
        OBVIOUS
      <4>2. x \in Info /\ DOMAIN x.respQ = DOMAIN x.value
        BY <1>2, <3>2, <4>1 DEF RtrTypeOK
      <4>3. Answer(x, [x.value EXCEPT ![m.grp] = Append(x.respQ[m.grp], m.obj)])
        BY <3>2, <4>1 DEF Reply, Queued
      <4>4. [x.value EXCEPT ![m.grp] = Append(x.respQ[m.grp], m.obj)] \in Seq(Seq(Obj))
        BY <1>2, <4>2, QueuedTypes
      <4> QED BY <4>2, <4>3, <4>4
    <3> QED BY <3>1, <3>2
  <2>2. CASE RtrOneResp(c)
    <3>1. outq' = outq \/ (info[m.info] # Free /\ Answer(info[m.info], <<<<m.obj>>>>))
      BY <2>2 DEF RtrOneResp
    <3>2. <<<<m.obj>>>> \in Seq(Seq(Obj)) /\ (info[m.info] # Free => info[m.info] \in Info)
      BY <1>2 DEF RtrTypeOK
    <3> QED BY <3>1, <3>2
  <2> QED BY <2>1, <2>2
<1>6. OutRight'
  BY <1>3, <1>5, OutLess, AnswerOut
<1> QED BY <1>3, <1>5, <1>6, AnswerOut

LEMMA LinkedKept ==
  ASSUME RtrTypeOK, Plugged, Linked, NoneStopped', Plugged', [Next]_vars
  PROVE  Linked'
<1> USE DEF cliVars, srvVars, rtrVars
<1>0. NoChan \notin Chan
  BY RouteAssumption
<1>01. UNCHANGED pending => \A s \in Server : localMap[s] # NoChan => pending'[s] = <<>>
  BY DEF Linked
<1>02. UNCHANGED inq => \A d \in Chan : \A ty : Within(inq'[d], inq[d], ty)
  BY DEF Within
<1>1. ASSUME NEW c \in Chan, RtrCommCreate(c)
      PROVE  Linked'
  <2> DEFINE k == Head(inq[c]).comm
             ms == [n \in DOMAIN FlattenSeq(Members[k]) |-> Create(k, FlattenSeq(Members[k])[n])]
  <2>1. Head(inq[c]) \in ForRouter /\ Head(inq[c]).type = "CommCreate"
    BY <1>1, ReceiveFacts DEF RtrCommCreate
  <2>2. k \in CommId
    BY <2>1, MessageTypes DEF Opened
  <2>3. \A d \in Chan : \A ty : Within(inq'[d], inq[d], ty)
    BY <1>1, ReceiveWithin DEF RtrCommCreate
  <2>4. UNCHANGED <<kind, srvChan, localMap, objs, work>>
    BY <1>1 DEF RtrCommCreate, Abort
  <2>5. OutRight' /\ \A s \in Server : localMap[s] # NoChan => pending'[s] = <<>>
    <3>1. CASE k \in comms[c]
      <4>1. UNCHANGED <<outq, pending>>
        BY <1>1, <3>1 DEF RtrCommCreate, Abort
      <4> QED BY <1>01, <2>4, <4>1, OutLess
    <3>2. CASE k \notin comms[c]
      <4>1. ms \in Seq(ForServers) /\ Send(ms)
        BY <1>1, <2>2, <3>2, CreatesFacts DEF RtrCommCreate
      <4> HIDE DEF ms
      <4> QED BY <2>4, <4>1, SendOut
    <3> QED BY <3>1, <3>2
  <2> QED BY <2>3, <2>4, <2>5, LinkedSame
<1>2. ASSUME NEW c \in Chan, NEW i \in InfoId, RtrCommReq(c, i)
      PROVE  Linked'
  <2> DEFINE m == Head(inq[c])
  <2>1. m \in ForRouter /\ m.type = "CommReq"
    BY <1>2, ReceiveFacts DEF RtrCommReq
  <2>2. m \in AskedFor
    BY <2>1, MessageTypes
  <2>3. \A d \in Chan : \A ty : Within(inq'[d], inq[d], ty)
    BY <1>2, ReceiveWithin DEF RtrCommReq
  <2>4. UNCHANGED <<kind, srvChan, localMap, objs, work>>
    BY <1>2 DEF RtrCommReq, Abort
  <2>5. OutRight' /\ \A s \in Server : localMap[s] # NoChan => pending'[s] = <<>>
    <3>1. UNCHANGED <<outq, pending>> \/ Send(CopiesOf(m, i))
      BY <1>2 DEF RtrCommReq, Abort
    <3>2. CopiesOf(m, i) \in Seq(ForServers)
      BY <2>2, CopiesFacts
    <3> HIDE DEF m
    <3> QED BY <1>01, <2>4, <3>1, <3>2, SendOut, OutLess
  <2> QED BY <2>3, <2>4, <2>5, LinkedSame
<1>3. ASSUME NEW c \in Chan, RtrCommResp(c) \/ RtrOneResp(c)
      PROVE  Linked'
  <2>1. \A d \in Chan : \A ty : Within(inq'[d], inq[d], ty)
    BY <1>3, ReceiveWithin DEF RtrCommResp, RtrOneResp
  <2>2. UNCHANGED <<kind, srvChan, localMap, objs, work, pending>>
    BY <1>3 DEF RtrCommResp, RtrOneResp
  <2>3. OutRight'
    BY <1>3, RespOut
  <2> QED BY <1>01, <2>1, <2>2, <2>3, LinkedSame
<1>4. ASSUME NEW c \in Chan, RtrServerConnect(c)
      PROVE  Linked'
  <2> DEFINE s == Head(inq[c]).srv
  <2>1. /\ inq[c] # <<>> /\ Head(inq[c]) \in ForRouter /\ Head(inq[c]).type = "ServerConnect"
        /\ inq[c] \in Seq(ForRouter)
    BY <1>4, ReceiveFacts DEF RtrServerConnect, RtrTypeOK
  <2>2. s \in Server
    BY <2>1, MessageTypes DEF Connects
  <2>3. srvChan[s] = c
    <3>1. Head(inq[c]) = inq[c][1] /\ 1 \in DOMAIN inq[c]
      BY <2>1, TailAt
    <3> QED BY <2>1, <3>1 DEF Linked
  <2>4. /\ localMap' = [localMap EXCEPT ![s] = c] /\ pending' = [pending EXCEPT ![s] = <<>>]
        /\ UNCHANGED <<kind, srvChan, objs, work>>
        /\ \/ outq' = outq
           \/ outq' = [outq EXCEPT ![c] = outq[c] \o pending[s]]
    BY <1>4 DEF RtrServerConnect
  <2>5. \A d \in Chan : \A ty : Within(inq'[d], inq[d], ty)
    BY <1>4, ReceiveWithin DEF RtrServerConnect
  <2> HIDE DEF s
  <2>6. /\ \A t \in Server : localMap'[t] = IF t = s THEN c ELSE localMap[t]
        /\ \A t \in Server : pending'[t] = IF t = s THEN <<>> ELSE pending[t]
        /\ \A d \in Chan \ {c} : outq'[d] = outq[d]
    BY <2>2, <2>4 DEF RtrTypeOK
  <2>7. \A t \in Server : localMap'[t] # NoChan => localMap'[t] = srvChan'[t] /\ pending'[t] = <<>>
    BY <2>3, <2>4, <2>6 DEF Linked
  <2>8. \A t \in Server : localMap'[t] = NoChan => objs'[t] = [k \in CommId |-> NoObj] /\ work'[t] = {}
    BY <1>0, <2>4, <2>6 DEF Linked
  <2>9. ASSUME NEW d \in Chan, NEW n \in DOMAIN outq'[d], outq'[d][n].type # "Answer"
        PROVE  \E t \in Server : localMap'[t] = d
    <3>1. CASE d = c
      BY <2>2, <2>6, <3>1
    <3>2. CASE d # c
      <4>1. PICK t \in Server : localMap[t] = d
        BY <2>6, <2>9, <3>2 DEF Linked
      <4>2. t # s
        BY <1>0, <2>3, <3>2, <4>1 DEF Linked
      <4> QED BY <2>6, <4>1, <4>2
    <3> QED BY <3>1, <3>2
  <2>10. \A d \in Chan : \A n \in DOMAIN inq'[d] :
       /\ inq'[d][n].type = "ServerConnect" => srvChan'[inq'[d][n].srv] = d
       /\ inq'[d][n].type = "CommResp" => \E t \in Server : srvChan'[t] = d
    <3>1. \A d \in Chan : \A n \in DOMAIN inq[d] :
       /\ inq[d][n].type = "ServerConnect" => srvChan[inq[d][n].srv] = d
       /\ inq[d][n].type = "CommResp" => \E t \in Server : srvChan[t] = d
      BY DEF Linked
    <3> QED BY <2>4, <2>5, <3>1 DEF Within
  <2>11. \A d \in Chan : kind'[d] = "server" => \E t \in Server : srvChan'[t] = d
    BY <2>4 DEF Linked
  <2> QED BY <2>7, <2>8, <2>9, <2>10, <2>11 DEF Linked
<1>5. ASSUME NEW c \in Chan, RtrClientClosed(c)
      PROVE  Linked'
  <2>1. /\ kind' = [kind EXCEPT ![c] = "free"] /\ Send(DestroysOf(comms[c]))
        /\ UNCHANGED <<inq, srvChan, localMap, objs, work>>
    BY <1>5 DEF RtrClientClosed, Forget, DestroysOf
  <2>2. DestroysOf(comms[c]) \in Seq(ForServers)
    BY DestroysFacts DEF RtrTypeOK
  <2>3. OutRight' /\ \A s \in Server : localMap[s] # NoChan => pending'[s] = <<>>
    BY <2>1, <2>2, SendOut
  <2>4. \A d \in Chan : kind'[d] = "server" => kind[d] = "server"
    BY <2>1 DEF RtrTypeOK
  <2> QED BY <1>02, <2>1, <2>3, <2>4, LinkedSame
<1>6. ASSUME NEW c \in Chan, RtrServerClosed(c)
      PROVE  FALSE
  <2>1. kind[c] = "server" /\ conn[c] = "eof"
    BY <1>6 DEF RtrServerClosed, Closed
  <2> QED BY <1>0, <2>1 DEF Linked, Plugged
<1>7. ASSUME NEW c \in Chan, RtrReset(c) \/ CliRead(c) \/ CliLeave(c)
      PROVE  Linked'
  <2>1. UNCHANGED <<kind, srvChan, localMap, objs, work, inq, pending>>
    BY <1>7 DEF RtrReset, CliRead, CliLeave, Abort
  <2>2. \/ outq' = outq
        \/ outq[c] # <<>> /\ outq' = [outq EXCEPT ![c] = Tail(outq[c])]
        \/ outq' = [outq EXCEPT ![c] = <<>>]
    BY <1>7 DEF RtrReset, CliRead, CliLeave, Close
  <2>3. OutRight'
    BY <2>1, <2>2, OutLess
  <2> QED BY <1>01, <1>02, <2>1, <2>3, LinkedSame
<1>8. ASSUME NEW c \in Chan, AcceptClient(c)
      PROVE  Linked'
  <2>1. /\ kind[c] = "free" /\ kind' = [kind EXCEPT ![c] = "client"]
        /\ inq' = [inq EXCEPT ![c] = <<>>] /\ outq' = [outq EXCEPT ![c] = <<>>]
        /\ UNCHANGED <<srvChan, localMap, objs, work, pending>>
    BY <1>8 DEF AcceptClient, Accept
  <2>2. OutRight'
    BY <2>1, OutLess
  <2>3. \A d \in Chan : \A ty : Within(inq'[d], inq[d], ty)
    <3>1. \A d \in Chan : inq'[d] = inq[d] \/ inq'[d] = <<>>
      BY <2>1 DEF RtrTypeOK
    <3>2. DOMAIN <<>> = {}
      OBVIOUS
    <3> QED BY <3>1, <3>2 DEF Within
  <2>4. \A d \in Chan : kind'[d] = "server" => kind[d] = "server"
    BY <2>1 DEF RtrTypeOK
  <2> QED BY <1>01, <2>1, <2>2, <2>3, <2>4, LinkedSame
<1>9. ASSUME NEW c \in Chan, NEW s \in Server, AcceptServer(c, s)
      PROVE  Linked'
  <2>1. PICK m : m = [type |-> "ServerConnect", srv |-> s]
    OBVIOUS
  <2>2. /\ kind[c] = "free" /\ srvChan[s] = NoChan /\ UNCHANGED <<localMap, pending>>
        /\ \A d \in Chan : /\ kind'[d] = IF d = c THEN "server" ELSE kind[d]
                           /\ inq'[d] = IF d = c THEN <<m>> ELSE inq[d]
                           /\ outq'[d] = IF d = c THEN <<>> ELSE outq[d]
        /\ \A t \in Server : /\ srvChan'[t] = IF t = s THEN c ELSE srvChan[t]
                             /\ objs'[t] = IF t = s THEN [k \in CommId |-> NoObj] ELSE objs[t]
                             /\ work'[t] = IF t = s THEN {} ELSE work[t]
    BY <1>9, <2>1 DEF AcceptServer, Accept, RtrTypeOK
  <2>3. localMap[s] = NoChan
    BY <2>2 DEF Linked
  <2>4. \A d \in Chan : kind'[d] = "server" => \E t \in Server : srvChan'[t] = d
    <3>1. \A d \in Chan : kind[d] = "server" => \E t \in Server : srvChan[t] = d
      BY DEF Linked
    <3> QED BY <1>0, <2>2, <3>1
  <2>5. \A t \in Server : localMap'[t] # NoChan => localMap'[t] = srvChan'[t] /\ pending'[t] = <<>>
    BY <2>2, <2>3 DEF Linked
  <2>6. \A t \in Server : localMap'[t] = NoChan => objs'[t] = [k \in CommId |-> NoObj] /\ work'[t] = {}
    BY <2>2 DEF Linked
  <2>7. ASSUME NEW d \in Chan, NEW n \in DOMAIN inq'[d]
        PROVE  /\ inq'[d][n].type = "ServerConnect" => srvChan'[inq'[d][n].srv] = d
               /\ inq'[d][n].type = "CommResp" => \E t \in Server : srvChan'[t] = d
    <3>1. CASE d = c
      <4>1. inq'[d] = <<m>> /\ n = 1
        BY <2>2, <2>7, <3>1
      <4>2. inq'[d][n] = m
        BY <4>1
      <4> QED BY <2>1, <2>2, <3>1, <4>2
    <3>2. CASE d # c
      <4>1. /\ inq'[d] = inq[d]
            /\ inq[d][n].type = "ServerConnect" => srvChan[inq[d][n].srv] = d
            /\ inq[d][n].type = "CommResp" => \E t \in Server : srvChan[t] = d
        BY <2>2, <2>7, <3>2 DEF Linked
      <4>2. inq[d][n].type = "ServerConnect" => inq[d][n].srv \in Server
        <5>1. inq[d][n] \in ForRouter
          BY <2>2, <2>7, <3>2 DEF RtrTypeOK
        <5> QED BY <5>1, MessageTypes DEF Connects
      <4> QED BY <1>0, <2>2, <4>1, <4>2
    <3> QED BY <3>1, <3>2
  <2>8. \A d \in Chan : \A n \in DOMAIN outq'[d] :
         outq'[d][n].type # "Answer" => \E t \in Server : localMap'[t] = d
    <3>1. DOMAIN <<>> = {}
      OBVIOUS
    <3>2. \A d \in Chan : \A n \in DOMAIN outq[d] :
         outq[d][n].type # "Answer" => \E t \in Server : localMap[t] = d
      BY DEF Linked
    <3> QED BY <2>2, <3>1, <3>2
  <2> QED BY <2>4, <2>5, <2>6, <2>7, <2>8 DEF Linked
<1>10. ASSUME NEW c \in Chan, NEW q \in ReqId, NEW k \in CommId, NEW op \in ReqOp, CliAsk(c, q, k, op)
       PROVE  Linked'
  <2>1. UNCHANGED <<kind, srvChan, localMap, objs, work, outq, pending>>
    BY <1>10 DEF CliAsk
  <2>2. OutRight'
    BY <2>1, OutLess
  <2>3. \A d \in Chan : Within(inq'[d], inq[d], "ServerConnect") /\ Within(inq'[d], inq[d], "CommResp")
    <3> DEFINE p == IF k \in made[c] THEN <<>> ELSE <<Create(k, NoObj)>>
               r == <<Request(op, q, k)>>
    <3>1. \A d \in Chan : inq'[d] = IF d = c THEN inq[c] \o p \o r ELSE inq[d]
      BY <1>10 DEF CliAsk, RtrTypeOK
    <3>2. Create(k, NoObj) \in ForRouter /\ Request(op, q, k) \in ForRouter
      BY DEF Create, Request, ForRouter, Opened, AskedFor
    <3>3. inq[c] \in Seq(ForRouter) /\ p \in Seq(ForRouter) /\ r \in Seq(ForRouter)
      BY <3>2 DEF RtrTypeOK
    <3>4. /\ \A j \in DOMAIN p : p[j].type = "CommCreate"
          /\ \A j \in DOMAIN r : r[j].type = "CommReq"
      BY DEF Create, Request
    <3> HIDE DEF p, r
    <3>5. PICK u : u = inq[c] \o p
      OBVIOUS
    <3>6. u \in Seq(ForRouter)
      BY <3>3, <3>5
    <3>7. \A j \in DOMAIN u : \/ j \in DOMAIN inq[c] /\ u[j] = inq[c][j]
                              \/ u[j].type = "CommCreate"
      BY <3>3, <3>4, <3>5, JoinAt
    <3>8. PICK v : v = u \o r
      OBVIOUS
    <3>9. \A j \in DOMAIN v : \/ j \in DOMAIN u /\ v[j] = u[j]
                              \/ v[j].type = "CommReq"
      BY <3>3, <3>4, <3>6, <3>8, JoinAt
    <3>10. Within(v, inq[c], "ServerConnect") /\ Within(v, inq[c], "CommResp")
      BY <3>7, <3>9 DEF Within
    <3>11. \A d \in Chan : (inq'[d] = v /\ d = c) \/ inq'[d] = inq[d]
      BY <3>1, <3>5, <3>8
    <3>12. \A d \in Chan : \A ty : Within(inq[d], inq[d], ty)
      BY DEF Within
    <3> QED BY <3>10, <3>11, <3>12
  <2> QED BY <1>01, <2>1, <2>2, <2>3, LinkedSame
<1>11. ASSUME NEW s \in Server, SrvCommCreate(s) \/ SrvCommDestroy(s) \/ SrvCommReq(s)
       PROVE  Linked'
  <2>1. \E type : SrvTakes(s, type) /\ type # "Answer"
    BY <1>11 DEF SrvCommCreate, SrvCommDestroy, SrvCommReq
  <2>2. localMap[s] # NoChan /\ srvChan[s] \in Chan /\ outq[srvChan[s]] # <<>>
        /\ outq' = [outq EXCEPT ![srvChan[s]] = Tail(outq[srvChan[s]])]
    BY <2>1, TakesQueue, TakesFacts
  <2>3. /\ UNCHANGED <<kind, srvChan, localMap, inq, pending>>
        /\ \A t \in Server : t # s => objs'[t] = objs[t] /\ work'[t] = work[t]
    BY <1>11 DEF SrvCommCreate, SrvCommDestroy, SrvCommReq, RtrTypeOK
  <2>4. OutRight'
    BY <2>2, <2>3, OutLess
  <2>5. \A t \in Server : localMap'[t] = NoChan => objs'[t] = [k \in CommId |-> NoObj] /\ work'[t] = {}
    BY <2>2, <2>3 DEF Linked
  <2> QED BY <2>3, <2>4, <2>5 DEF Linked, OutRight
<1>12. ASSUME NEW s \in Server, NEW w \in work[s], SrvReply(s, w)
       PROVE  Linked'
  <2>1. localMap[s] # NoChan /\ srvChan[s] \in Chan
    BY DEF Linked, RtrTypeOK
  <2>2. PICK r : r = Response(w)
    OBVIOUS
  <2>3. r \in ForRouter /\ r.type = "CommResp"
    <3>1. w \in Works
      BY DEF RtrTypeOK
    <3> QED BY <2>2, <3>1 DEF Response, ForRouter, Responses, Works
  <2>4. /\ UNCHANGED <<kind, srvChan, localMap, outq, pending, objs>>
        /\ inq' = [inq EXCEPT ![srvChan[s]] = Append(@, r)]
        /\ work' = [work EXCEPT ![s] = @ \ {w}]
    BY <1>12, <2>2 DEF SrvReply
  <2>5. \A t \in Server : localMap'[t] = NoChan => objs'[t] = [k \in CommId |-> NoObj] /\ work'[t] = {}
    BY <2>1, <2>4 DEF Linked, RtrTypeOK
  <2>6. ASSUME NEW d \in Chan, NEW n \in DOMAIN inq'[d]
        PROVE  /\ inq'[d][n].type = "ServerConnect" => srvChan'[inq'[d][n].srv] = d
               /\ inq'[d][n].type = "CommResp" => \E t \in Server : srvChan'[t] = d
    <3>1. CASE d = srvChan[s]
      <4>1. PICK q : q = inq[d]
        OBVIOUS
      <4>2. q \in Seq(ForRouter)
        BY <4>1 DEF RtrTypeOK
      <4>3. inq'[d] = Append(q, r)
        BY <2>4, <3>1, <4>1 DEF RtrTypeOK
      <4>4. \/ n \in DOMAIN q /\ inq'[d][n] = q[n]
            \/ inq'[d][n] = r
        BY <2>3, <2>6, <4>2, <4>3, AppendAt
      <4> QED BY <2>3, <2>4, <3>1, <4>1, <4>4 DEF Linked
    <3>2. CASE d # srvChan[s]
      BY <2>4, <2>6, <3>2 DEF Linked, RtrTypeOK
    <3> QED BY <3>1, <3>2
  <2> QED BY <2>4, <2>5, <2>6 DEF Linked
<1>13. ASSUME NEW s \in Server, NEW unread, srvChan[s] # NoChan, SrvStops(s, unread)
       PROVE  FALSE
  <2>1. srvChan'[s] = NoChan /\ starts'[s] = starts[s] /\ starts[s] > 0 /\ starts[s] \in Nat
    BY <1>13 DEF SrvStops, RtrTypeOK, Plugged
  <2>2. starts'[s] <= 1 /\ (starts'[s] = 1 => srvChan'[s] # NoChan)
    BY DEF NoneStopped
  <2> QED BY <2>1, <2>2
<1>14. ASSUME NEW s \in Server, SrvCrash(s) \/ SrvDie(s)
       PROVE  FALSE
  BY <1>13, <1>14 DEF SrvCrash, SrvDie
<1>15. CASE UNCHANGED vars
  BY <1>15 DEF vars, Linked
<1> QED BY <1>1, <1>2, <1>3, <1>4, <1>5, <1>6, <1>7, <1>8, <1>9, <1>10, <1>11, <1>12, <1>14, <1>15
        DEF Next, RtrStep, SrvStep

-----------------------------------------------------------------------------
(* What stands after the events of a queue, when the queue changes.        *)
LEMMA StandsJoin ==
  ASSUME NEW T, NEW q \in Seq(T), NEW r \in Seq(T), NEW b, NEW k, NEW o,
         NEW n \in 1 .. Len(q) + 1, Stands(q, b, k, n, o)
  PROVE  /\ Stands(q \o r, b, k, n, o)
         /\ n = Len(q) + 1 /\ (\A i \in DOMAIN r : ~About(r[i], k)) =>
              \A m \in Len(q) + 1 .. Len(q) + Len(r) + 1 : Stands(q \o r, b, k, m, o)
<1>1. PICK p : p = q \o r
  OBVIOUS
<1>2. /\ Len(q) \in Nat /\ Len(r) \in Nat /\ DOMAIN q = 1 .. Len(q) /\ DOMAIN r = 1 .. Len(r)
      /\ DOMAIN p = 1 .. Len(q) + Len(r)
      /\ \A i \in 1 .. Len(q) : p[i] = q[i]
  BY <1>1
<1>3. \A i \in DOMAIN p : \/ i \in DOMAIN q /\ p[i] = q[i]
                          \/ i - Len(q) \in DOMAIN r /\ p[i] = r[i - Len(q)]
  BY <1>1, JoinAt
<1>4. PICK j \in 0 .. n - 1 : /\ IF j = 0 THEN b = o ELSE q[j] = Create(k, o)
                              /\ \A i \in j + 1 .. n - 1 : About(q[i], k) => q[i] = Create(k, o)
  BY DEF Stands
<1>5. j # 0 => j \in 1 .. Len(q) /\ p[j] = Create(k, o)
  BY <1>2, <1>4
<1>6. \A i \in j + 1 .. n - 1 : About(p[i], k) => p[i] = Create(k, o)
  <2>1. \A i \in j + 1 .. n - 1 : i \in 1 .. Len(q)
    BY <1>2, <1>4
  <2> QED BY <1>2, <1>4, <2>1
<1>7. Stands(p, b, k, n, o)
  BY <1>4, <1>5, <1>6 DEF Stands
<1>8. ASSUME n = Len(q) + 1, \A i \in DOMAIN r : ~About(r[i], k),
             NEW m \in Len(q) + 1 .. Len(q) + Len(r) + 1
      PROVE  Stands(p, b, k, m, o)
  <2>1. j \in 0 .. m - 1
    BY <1>2, <1>4, <1>8
  <2>2. ASSUME NEW i \in j + 1 .. m - 1
        PROVE  About(p[i], k) => p[i] = Create(k, o)
    <3>1. i \in DOMAIN p
      BY <1>2, <1>4, <1>8
    <3>2. i \in DOMAIN q => i \in j + 1 .. n - 1
      BY <1>2, <1>8
    <3> QED BY <1>3, <1>4, <1>8, <3>1, <3>2
  <2> QED BY <1>4, <1>5, <2>1, <2>2 DEF Stands
<1> QED BY <1>1, <1>7, <1>8

LEMMA StandsNew ==
  ASSUME NEW T, NEW q \in Seq(T), NEW r \in Seq(T), NEW b, NEW k, NEW o,
         \A i \in DOMAIN r : About(r[i], k) => r[i] = Create(k, o),
         NEW a \in DOMAIN r, r[a] = Create(k, o)
  PROVE  Stands(q \o r, b, k, Len(q \o r) + 1, o)
<1>1. PICK p : p = q \o r
  OBVIOUS
<1>2. /\ Len(q) \in Nat /\ Len(r) \in Nat /\ DOMAIN q = 1 .. Len(q) /\ DOMAIN r = 1 .. Len(r)
      /\ DOMAIN p = 1 .. Len(q) + Len(r) /\ Len(p) = Len(q) + Len(r)
  BY <1>1
<1>3. \A i \in DOMAIN p : \/ i \in DOMAIN q
                          \/ i - Len(q) \in DOMAIN r /\ p[i] = r[i - Len(q)]
  BY <1>1, JoinAt
<1>4. a + Len(q) \in DOMAIN p /\ p[a + Len(q)] = r[a]
  BY <1>1, JoinAt
<1>5. a \in 1 .. Len(r)
  BY <1>2
<1>6. \A i \in a + Len(q) + 1 .. Len(p) : i \in DOMAIN p /\ i \notin DOMAIN q
  BY <1>2, <1>5
<1>7. ASSUME NEW i \in a + Len(q) + 1 .. Len(p) + 1 - 1, About(p[i], k)
      PROVE  p[i] = Create(k, o)
  <2>1. i \in a + Len(q) + 1 .. Len(p)
    BY <1>2
  <2>2. i - Len(q) \in DOMAIN r /\ p[i] = r[i - Len(q)]
    BY <1>3, <1>6, <2>1
  <2> QED BY <1>7, <2>2
<1>8. a + Len(q) \in 0 .. Len(p) + 1 - 1 /\ a + Len(q) # 0
  BY <1>2, <1>5
<1>9. Stands(p, b, k, Len(p) + 1, o)
  BY <1>4, <1>7, <1>8 DEF Stands
<1> QED BY <1>1, <1>9

LEMMA StandsShift ==
  ASSUME NEW T, NEW p \in Seq(T), NEW q \in Seq(T), NEW b, NEW k, NEW o,
         \A i \in DOMAIN p : ~About(p[i], k),
         NEW n \in 1 .. Len(q) + 1, Stands(q, b, k, n, o)
  PROVE  Stands(p \o q, b, k, n + Len(p), o)
<1>1. PICK r : r = p \o q
  OBVIOUS
<1>2. /\ Len(q) \in Nat /\ Len(p) \in Nat /\ DOMAIN q = 1 .. Len(q) /\ DOMAIN p = 1 .. Len(p)
      /\ DOMAIN r = 1 .. Len(p) + Len(q)
  BY <1>1
<1>3. \A i \in DOMAIN r : \/ i \in DOMAIN p /\ r[i] = p[i]
                          \/ i - Len(p) \in DOMAIN q /\ r[i] = q[i - Len(p)]
  BY <1>1, JoinAt
<1>4. \A i \in DOMAIN q : r[i + Len(p)] = q[i]
  BY <1>1, JoinAt
<1>5. PICK j \in 0 .. n - 1 : /\ IF j = 0 THEN b = o ELSE q[j] = Create(k, o)
                              /\ \A i \in j + 1 .. n - 1 : About(q[i], k) => q[i] = Create(k, o)
  BY DEF Stands
<1>6. CASE j # 0
  <2>1. j \in DOMAIN q /\ j + Len(p) \in 0 .. n + Len(p) - 1 /\ j + Len(p) # 0
    BY <1>2, <1>5, <1>6
  <2>2. r[j + Len(p)] = Create(k, o)
    BY <1>4, <1>5, <1>6, <2>1
  <2>3. ASSUME NEW i \in j + Len(p) + 1 .. n + Len(p) - 1
        PROVE  About(r[i], k) => r[i] = Create(k, o)
    <3>1. i - Len(p) \in j + 1 .. n - 1 /\ i - Len(p) \in DOMAIN q /\ i = (i - Len(p)) + Len(p)
      BY <1>2, <1>5
    <3> QED BY <1>4, <1>5, <3>1
  <2>4. Stands(r, b, k, n + Len(p), o)
    BY <2>1, <2>2, <2>3 DEF Stands
  <2> QED BY <1>1, <2>4
<1>7. CASE j = 0
  <2>1. b = o /\ 0 \in 0 .. n + Len(p) - 1
    BY <1>2, <1>5, <1>7
  <2>0. PICK u : u = n + Len(p)
    OBVIOUS
  <2>2. ASSUME NEW i \in 0 + 1 .. n + Len(p) - 1
        PROVE  About(r[i], k) => r[i] = Create(k, o)
    <3>1. i \in DOMAIN r
      BY <1>2
    <3>2. i - Len(p) \in DOMAIN q => i - Len(p) \in j + 1 .. n - 1
      BY <1>2, <1>7
    <3> QED BY <1>3, <1>5, <3>1, <3>2
  <2>3. \E h \in 0 .. u - 1 :
          /\ IF h = 0 THEN b = o ELSE r[h] = Create(k, o)
          /\ \A i \in h + 1 .. u - 1 : About(r[i], k) => r[i] = Create(k, o)
    <3>1. 0 \in 0 .. u - 1
      BY <1>2, <2>0, <2>1
    <3>2. \A i \in 0 + 1 .. u - 1 : About(r[i], k) => r[i] = Create(k, o)
      BY <1>2, <2>0, <2>2
    <3> QED BY <2>1, <3>1, <3>2
  <2>4. Stands(r, b, k, n + Len(p), o)
    BY <2>0, <2>3 DEF Stands
  <2> QED BY <1>1, <2>4
<1> QED BY <1>6, <1>7

LEMMA StandsTail ==
  ASSUME NEW T, NEW q \in Seq(T), q # <<>>, NEW b, NEW e, NEW k, NEW o,
         About(q[1], k) /\ q[1] = Create(k, o) => e = o, ~About(q[1], k) => e = b,
         NEW n \in 2 .. Len(q) + 1, Stands(q, b, k, n, o)
  PROVE  Stands(Tail(q), e, k, n - 1, o)
<1>1. PICK r : r = Tail(q)
  OBVIOUS
<1>2. /\ Len(q) \in Nat \ {0} /\ DOMAIN q = 1 .. Len(q) /\ DOMAIN r = 1 .. Len(q) - 1
      /\ \A i \in 1 .. Len(q) - 1 : r[i] = q[i + 1]
  BY <1>1
<1>3. PICK j \in 0 .. n - 1 : /\ IF j = 0 THEN b = o ELSE q[j] = Create(k, o)
                              /\ \A i \in j + 1 .. n - 1 : About(q[i], k) => q[i] = Create(k, o)
  BY DEF Stands
<1>4. ASSUME NEW i \in 1 .. n - 1 - 1, i \in j .. n - 1 - 1
      PROVE  About(r[i], k) => r[i] = Create(k, o)
  <2>1. i + 1 \in j + 1 .. n - 1 /\ i \in 1 .. Len(q) - 1
    BY <1>2, <1>3, <1>4
  <2> QED BY <1>2, <1>3, <2>1
<1>5. CASE j \in {0, 1}
  <2>1. e = o
    <3>1. Create(k, o).type = "CommCreate" /\ Create(k, o).comm = k
      BY DEF Create
    <3>2. j = 1 => About(q[1], k) /\ q[1] = Create(k, o)
      BY <1>3, <3>1 DEF About
    <3>3. j = 0 => b = o /\ (About(q[1], k) => q[1] = Create(k, o))
      BY <1>2, <1>3
    <3> QED BY <1>5, <3>2, <3>3
  <2>2. \A i \in 0 + 1 .. n - 1 - 1 : i \in 1 .. n - 1 - 1 /\ i \in j .. n - 1 - 1
    BY <1>2, <1>5
  <2>3. 0 \in 0 .. n - 1 - 1
    BY <1>2
  <2>4. \A i \in 0 + 1 .. n - 1 - 1 : About(r[i], k) => r[i] = Create(k, o)
    BY <1>4, <2>2
  <2>5. Stands(r, e, k, n - 1, o)
    BY <2>1, <2>3, <2>4 DEF Stands
  <2> QED BY <1>1, <2>5
<1>6. CASE j \notin {0, 1}
  <2>1. j - 1 \in 0 .. n - 1 - 1 /\ j - 1 # 0 /\ j - 1 \in 1 .. Len(q) - 1 /\ (j - 1) + 1 = j
    BY <1>2, <1>3, <1>6
  <2>2. r[j - 1] = Create(k, o)
    BY <1>2, <1>3, <1>6, <2>1
  <2>3. \A i \in (j - 1) + 1 .. n - 1 - 1 : i \in 1 .. n - 1 - 1 /\ i \in j .. n - 1 - 1
    BY <1>2, <1>3, <1>6
  <2>4. \A i \in (j - 1) + 1 .. n - 1 - 1 : About(r[i], k) => r[i] = Create(k, o)
    BY <1>4, <2>3
  <2>5. Stands(r, e, k, n - 1, o)
    BY <2>1, <2>2, <2>4 DEF Stands
  <2> QED BY <1>1, <2>5
<1> QED BY <1>5, <1>6

-----------------------------------------------------------------------------
(* The queues of the servers, and what the steps do to them.               *)
LEMMA QueueTypes ==
  ASSUME RtrTypeOK, Linked, NEW s \in Server
  PROVE  /\ Queue(s) \in Seq(ForServers \cup Answers)
         /\ localMap[s] # NoChan => localMap[s] = srvChan[s] /\ srvChan[s] \in Chan
<1>1. localMap[s] # NoChan => localMap[s] = srvChan[s] /\ srvChan[s] \in Chan
  BY DEF Linked, RtrTypeOK
<1>2. pending[s] \in Seq(ForServers \cup Answers)
  BY DEF RtrTypeOK
<1> QED BY <1>1, <1>2 DEF Queue, RtrTypeOK

Added(ms) == [s \in Server |-> Picked(ms, AtHome(ms, s))]

LEMMA SendQueue ==
  ASSUME RtrTypeOK, Plugged, Linked, NEW ms \in Seq(ForServers), Send(ms), UNCHANGED <<localMap, srvChan>>
  PROVE  \A s \in Server : Queue(s)' = Queue(s) \o Added(ms)[s]
<1> SUFFICES ASSUME NEW s \in Server PROVE Queue(s)' = Queue(s) \o Added(ms)[s]
  OBVIOUS
<1>1. Added(ms)[s] = Picked(ms, AtHome(ms, s))
  BY DEF Added
<1>2. CASE localMap[s] = NoChan
  <2>1. pending'[s] = pending[s] \o Picked(ms, AtHome(ms, s))
    BY <1>2, SendPicks
  <2> QED BY <1>1, <1>2, <2>1 DEF Queue
<1>3. CASE localMap[s] # NoChan
  <2>1. PICK c \in Chan : c = srvChan[s] /\ c = localMap[s]
    BY <1>3, QueueTypes
  <2>2. conn[c] = "open"
    BY <1>3, <2>1 DEF Plugged
  <2>3. outq'[c] = outq[c] \o Picked(ms, Routed(ms, c))
    BY <2>2, SendPicks
  <2>4. Routed(ms, c) = AtHome(ms, s)
    <3>1. ASSUME NEW n \in DOMAIN ms
          PROVE  Route(ms[n].dst) = c <=> Home[ms[n].dst] = s
      <4>1. PICK o \in Obj : o = ms[n].dst
        BY ForServersFacts
      <4>2. Route(o) = c <=> Home[o] \in Server /\ localMap[Home[o]] = c
        BY RouteFacts
      <4>3. Home[o] \in Server /\ localMap[Home[o]] = c => Home[o] = s
        BY <1>3, <2>1, QueueTypes DEF Plugged
      <4> QED BY <2>1, <4>1, <4>2, <4>3
    <3> QED BY <3>1 DEF Routed, AtHome
  <2> QED BY <1>1, <1>3, <2>1, <2>3, <2>4 DEF Queue
<1> QED BY <1>2, <1>3

LEMMA AddedFacts ==
  ASSUME NEW ms \in Seq(ForServers), NEW s \in Server
  PROVE  /\ Added(ms)[s] \in Seq(ForServers)
         /\ \A x : x \in Range(Added(ms)[s]) <=> \E n \in DOMAIN ms : Home[ms[n].dst] = s /\ x = ms[n]
         /\ IsInjective(ms) => IsInjective(Added(ms)[s])
<1>1. PICK P : P = AtHome(ms, s)
  OBVIOUS
<1>2. Added(ms)[s] = Picked(ms, P)
  BY <1>1 DEF Added
<1>3. /\ Picked(ms, P) \in Seq(ForServers)
      /\ \A x : x \in Range(Picked(ms, P)) <=> \E n \in DOMAIN ms : n \in P /\ x = ms[n]
      /\ IsInjective(ms) => IsInjective(Picked(ms, P))
  BY PickedFacts
<1>4. \A n \in DOMAIN ms : n \in P <=> Home[ms[n].dst] = s
  BY <1>1 DEF AtHome
<1> QED BY <1>2, <1>3, <1>4

(* The parts of InPlace.                                                   *)
QueueRight(s, q, b) ==
  \A n \in DOMAIN q : /\ q[n].type # "Answer" => Home[q[n].dst] = s
                      /\ q[n].type = "CommReq" => Stands(q, b[q[n].comm], q[n].comm, n, q[n].dst)

Stood(s, q, b, k) ==
  \A o \in MembersOf(k) : Home[o] = s => Stands(q, b[k], k, Len(q) + 1, o)

LEMMA InPlaceParts ==
  InPlace <=> /\ \A s \in Server : QueueRight(s, Queue(s), objs[s])
              /\ \A c \in Chan : \A k \in comms[c] : \A s \in Server : Stood(s, Queue(s), objs[s], k)
BY DEF InPlace, QueueRight, Stood

LEMMA InPlaceSame ==
  ASSUME InPlace, \A s \in Server : Queue(s)' = Queue(s) /\ objs'[s] = objs[s],
         \A c \in Chan : comms'[c] \subseteq comms[c]
  PROVE  InPlace'
<1>1. \A s \in Server : QueueRight(s, Queue(s), objs[s])
  BY InPlaceParts
<1>2. \A c \in Chan : \A k \in comms[c] : \A s \in Server : Stood(s, Queue(s), objs[s], k)
  BY InPlaceParts
<1>3. \A s \in Server : QueueRight(s, Queue(s)', objs'[s])
  BY <1>1
<1>4. \A c \in Chan : \A k \in comms'[c] : \A s \in Server : Stood(s, Queue(s)', objs'[s], k)
  BY <1>2
<1> QED BY <1>3, <1>4 DEF InPlace, QueueRight, Stood

LEMMA InPlaceMore ==
  ASSUME RtrTypeOK, Linked, InPlace, NEW R \in [Server -> Seq(ForServers \cup Answers)],
         \A s \in Server : Queue(s)' = Queue(s) \o R[s] /\ objs'[s] = objs[s],
         \A s \in Server : \A i \in DOMAIN R[s] :
           /\ R[s][i].type # "Answer" => Home[R[s][i].dst] = s
           /\ R[s][i].type = "CommReq" =>
                Stands(Queue(s) \o R[s], objs[s][R[s][i].comm], R[s][i].comm, Len(Queue(s)) + i, R[s][i].dst),
         \A c \in Chan : \A k \in comms'[c] : \A s \in Server : Stood(s, Queue(s) \o R[s], objs[s], k)
  PROVE  InPlace'
<1>1. ASSUME NEW s \in Server
      PROVE  QueueRight(s, Queue(s) \o R[s], objs[s])
  <2>1. PICK q \in Seq(ForServers \cup Answers) : q = Queue(s)
    BY QueueTypes
  <2>2. PICK r \in Seq(ForServers \cup Answers) : r = R[s]
    OBVIOUS
  <2>3. QueueRight(s, q, objs[s])
    BY <2>1, InPlaceParts
  <2>4. PICK p : p = q \o r
    OBVIOUS
  <2>5. \A n \in DOMAIN p : \/ n \in DOMAIN q /\ p[n] = q[n]
                            \/ n - Len(q) \in DOMAIN r /\ p[n] = r[n - Len(q)]
    BY <2>4, JoinAt
  <2>6. ASSUME NEW n \in DOMAIN p
        PROVE  /\ p[n].type # "Answer" => Home[p[n].dst] = s
               /\ p[n].type = "CommReq" => Stands(p, objs[s][p[n].comm], p[n].comm, n, p[n].dst)
    <3>1. CASE n \in DOMAIN q /\ p[n] = q[n]
      <4>1. n \in 1 .. Len(q) + 1
        BY <3>1
      <4>2. /\ q[n].type # "Answer" => Home[q[n].dst] = s
            /\ q[n].type = "CommReq" => Stands(q, objs[s][q[n].comm], q[n].comm, n, q[n].dst)
        BY <2>3, <3>1 DEF QueueRight
      <4>3. \A b, k, o : Stands(q, b, k, n, o) => Stands(q \o r, b, k, n, o)
        BY <4>1, StandsJoin
      <4> QED BY <2>4, <3>1, <4>2, <4>3
    <3>2. CASE n - Len(q) \in DOMAIN r /\ p[n] = r[n - Len(q)]
      <4>1. PICK i \in DOMAIN r : i = n - Len(q)
        BY <3>2
      <4>2. Len(q) + i = n
        <5>1. Len(q) \in Nat /\ n \in Int
          BY <2>4
        <5> QED BY <4>1, <5>1
      <4>3. /\ r[i].type # "Answer" => Home[r[i].dst] = s
            /\ r[i].type = "CommReq" => Stands(q \o r, objs[s][r[i].comm], r[i].comm, Len(q) + i, r[i].dst)
        BY <2>1, <2>2
      <4> QED BY <2>4, <3>2, <4>1, <4>2, <4>3
    <3> QED BY <2>5, <3>1, <3>2
  <2> QED BY <2>1, <2>2, <2>4, <2>6 DEF QueueRight
<1>2. \A s \in Server : QueueRight(s, Queue(s)', objs'[s])
  BY <1>1
<1>3. \A c \in Chan : \A k \in comms'[c] : \A s \in Server : Stood(s, Queue(s)', objs'[s], k)
  OBVIOUS
<1> QED BY <1>2, <1>3 DEF InPlace, QueueRight, Stood

LEMMA QueueUnchanged ==
  ASSUME UNCHANGED <<localMap, srvChan, pending>>,
         \A s \in Server : localMap[s] # NoChan => outq'[srvChan[s]] = outq[srvChan[s]]
  PROVE  \A s \in Server : Queue(s)' = Queue(s)
BY DEF Queue

(* Steps that leave the queues of the servers alone.                       *)
QuietStep ==
  \/ \E c \in Chan : RtrReset(c) \/ AcceptClient(c) \/ CliRead(c) \/ CliLeave(c)
  \/ \E c \in Chan, q \in ReqId, k \in CommId, op \in ReqOp : CliAsk(c, q, k, op)
  \/ \E c \in Chan, s \in Server : AcceptServer(c, s)
  \/ \E s \in Server : \E w \in work[s] : SrvReply(s, w)
  \/ UNCHANGED vars

LEMMA QuietQueue ==
  ASSUME RtrTypeOK, Plugged, Linked, QuietStep
  PROVE  /\ \A s \in Server : Queue(s)' = Queue(s) /\ objs'[s] = objs[s]
         /\ UNCHANGED <<comms, info>>
<1> USE DEF cliVars, srvVars, rtrVars
<1>1. ASSUME NEW c \in Chan, kind[c] # "server", UNCHANGED <<localMap, srvChan, pending>>,
             outq' = outq \/ \E q : outq' = [outq EXCEPT ![c] = q]
      PROVE  \A s \in Server : Queue(s)' = Queue(s)
  <2>1. \A s \in Server : localMap[s] # NoChan => srvChan[s] \in Chan /\ srvChan[s] # c
    <3>1. \A s \in Server : localMap[s] # NoChan => localMap[s] = srvChan[s] /\ srvChan[s] \in Chan
      BY QueueTypes
    <3> QED BY <1>1, <3>1 DEF Plugged
  <2>2. \A d \in Chan : d # c => outq'[d] = outq[d]
    BY <1>1 DEF RtrTypeOK
  <2> QED BY <1>1, <2>1, <2>2, QueueUnchanged
<1>2. ASSUME NEW c \in Chan, RtrReset(c)
      PROVE  UNCHANGED <<localMap, srvChan, pending, outq, objs, comms, info>>
  BY <1>2 DEF RtrReset, Abort
<1>3. ASSUME NEW c \in Chan, AcceptClient(c) \/ CliRead(c) \/ CliLeave(c)
      PROVE  /\ UNCHANGED <<objs, comms, info>>
             /\ \A s \in Server : Queue(s)' = Queue(s)
  <2>1. UNCHANGED <<localMap, srvChan, pending, objs, comms, info>> /\ kind[c] # "server"
    BY <1>3 DEF AcceptClient, Accept, CliRead, CliLeave, IsClient
  <2>2. \E q : outq' = [outq EXCEPT ![c] = q]
    BY <1>3 DEF AcceptClient, Accept, CliRead, CliLeave, Close
  <2> QED BY <1>1, <2>1, <2>2
<1>4. ASSUME NEW c \in Chan, NEW q \in ReqId, NEW k \in CommId, NEW op \in ReqOp, CliAsk(c, q, k, op)
      PROVE  UNCHANGED <<localMap, srvChan, pending, outq, objs, comms, info>>
  BY <1>4 DEF CliAsk
<1>5. ASSUME NEW c \in Chan, NEW s \in Server, AcceptServer(c, s)
      PROVE  /\ UNCHANGED <<comms, info>>
             /\ \A t \in Server : Queue(t)' = Queue(t) /\ objs'[t] = objs[t]
  <2>1. /\ kind[c] = "free" /\ srvChan[s] = NoChan /\ UNCHANGED <<localMap, pending, comms, info>>
        /\ \A d \in Chan : d # c => outq'[d] = outq[d]
        /\ \A t \in Server : t # s => srvChan'[t] = srvChan[t]
        /\ \A t \in Server : objs'[t] = IF t = s THEN [k \in CommId |-> NoObj] ELSE objs[t]
    BY <1>5 DEF AcceptServer, Accept, RtrTypeOK
  <2>2. localMap[s] = NoChan /\ objs[s] = [k \in CommId |-> NoObj]
    BY <2>1 DEF Linked
  <2>3. ASSUME NEW t \in Server
        PROVE  Queue(t)' = Queue(t)
    <3>1. CASE localMap[t] = NoChan
      BY <2>1, <3>1 DEF Queue
    <3>2. CASE localMap[t] # NoChan
      <4>1. t # s /\ srvChan[t] \in Chan /\ localMap[t] = srvChan[t]
        BY <2>2, <3>2, QueueTypes
      <4>2. srvChan[t] # c
        BY <2>1, <3>2, <4>1 DEF Plugged
      <4> QED BY <2>1, <3>2, <4>1, <4>2 DEF Queue
    <3> QED BY <3>1, <3>2
  <2> QED BY <2>1, <2>2, <2>3
<1>6. ASSUME NEW s \in Server, NEW w \in work[s], SrvReply(s, w)
      PROVE  UNCHANGED <<localMap, srvChan, pending, outq, objs, comms, info>>
  BY <1>6 DEF SrvReply
<1>7. ASSUME UNCHANGED <<localMap, srvChan, pending, outq, objs, comms, info>>
      PROVE  /\ \A s \in Server : Queue(s)' = Queue(s) /\ objs'[s] = objs[s]
             /\ UNCHANGED <<comms, info>>
  BY <1>7 DEF Queue
<1>8. CASE UNCHANGED vars
  BY <1>7, <1>8 DEF vars
<1> QED BY <1>2, <1>3, <1>4, <1>5, <1>6, <1>7, <1>8 DEF QuietStep

LEMMA AnswerQueue ==
  ASSUME RtrTypeOK, Plugged, Linked, UNCHANGED <<localMap, srvChan, pending>>,
         \A d \in Chan : outq'[d] = outq[d] \/ \E a \in Answers : outq'[d] = Append(outq[d], a)
  PROVE  \A s \in Server : Queue(s)' = Queue(s) \/ \E a \in Answers : Queue(s)' = Append(Queue(s), a)
<1> SUFFICES ASSUME NEW s \in Server
             PROVE  Queue(s)' = Queue(s) \/ \E a \in Answers : Queue(s)' = Append(Queue(s), a)
  OBVIOUS
<1>1. localMap[s] # NoChan => srvChan[s] \in Chan
  BY QueueTypes
<1> QED BY <1>1 DEF Queue

LEMMA ConnectQueue ==
  ASSUME RtrTypeOK, Plugged, Linked, NEW c \in Chan, RtrServerConnect(c)
  PROVE  /\ \A s \in Server : \E p \in Seq(Answers) : Queue(s)' = p \o Queue(s)
         /\ UNCHANGED <<srvChan, objs, work, comms, info>>
<1> DEFINE s == Head(inq[c]).srv
<1>1. /\ inq[c] # <<>> /\ Head(inq[c]) \in ForRouter /\ Head(inq[c]).type = "ServerConnect"
      /\ inq[c] \in Seq(ForRouter)
  BY ReceiveFacts DEF RtrServerConnect, RtrTypeOK
<1>2. s \in Server
  BY <1>1, MessageTypes DEF Connects
<1>3. srvChan[s] = c
  <2>1. Head(inq[c]) = inq[c][1] /\ 1 \in DOMAIN inq[c]
    BY <1>1, TailAt
  <2> QED BY <1>1, <2>1 DEF Linked
<1>4. /\ localMap' = [localMap EXCEPT ![s] = c] /\ pending' = [pending EXCEPT ![s] = <<>>]
      /\ UNCHANGED <<kind, srvChan, objs, work, comms, info>>
      /\ IF pending[s] = <<>> THEN outq' = outq
         ELSE outq' = IF conn[c] = "open" THEN [outq EXCEPT ![c] = outq[c] \o pending[s]] ELSE outq
  BY DEF RtrServerConnect, srvVars
<1> HIDE DEF s
<1>5. NoChan \notin Chan
  BY RouteAssumption
<1>6. conn[c] = "open"
  BY <1>2, <1>3, <1>5 DEF Plugged
<1>7. /\ \A t \in Server : localMap'[t] = IF t = s THEN c ELSE localMap[t]
      /\ \A t \in Server : pending'[t] = IF t = s THEN <<>> ELSE pending[t]
      /\ \A d \in Chan \ {c} : outq'[d] = outq[d]
  BY <1>2, <1>4 DEF RtrTypeOK
<1>8. outq'[c] = outq[c] \o pending[s]
  <2>1. outq[c] \in Seq(ForServers \cup Answers)
    BY DEF RtrTypeOK
  <2>2. CASE pending[s] = <<>>
    BY <1>4, <2>1, <2>2
  <2>3. CASE pending[s] # <<>>
    BY <1>4, <1>6, <2>3 DEF RtrTypeOK
  <2> QED BY <2>2, <2>3
<1>9. ASSUME NEW t \in Server
      PROVE  \E p \in Seq(Answers) : Queue(t)' = p \o Queue(t)
  <2>0. <<>> \in Seq(Answers) /\ \A T : \A q \in Seq(T) : <<>> \o q = q
    OBVIOUS
  <2>1. CASE t # s
    <3>1. Queue(t)' = Queue(t)
      <4>1. CASE localMap[t] = NoChan
        BY <1>7, <2>1, <4>1 DEF Queue
      <4>2. CASE localMap[t] # NoChan
        <5>1. srvChan[t] \in Chan /\ srvChan[t] # c
          BY <1>2, <1>3, <1>5, <2>1, <4>2, QueueTypes DEF Plugged
        <5> QED BY <1>4, <1>7, <2>1, <4>2, <5>1 DEF Queue
      <4> QED BY <4>1, <4>2
    <3> QED BY <2>0, <3>1, QueueTypes
  <2>2. CASE t = s /\ localMap[s] # NoChan
    <3>1. pending[s] = <<>>
      BY <1>2, <2>2 DEF Linked
    <3>2. outq'[c] = outq[c]
      BY <1>4, <3>1
    <3>3. Queue(t)' = Queue(t)
      BY <1>2, <1>3, <1>4, <1>5, <1>7, <2>2, <3>2 DEF Queue
    <3> QED BY <2>0, <3>3, QueueTypes
  <2>3. CASE t = s /\ localMap[s] = NoChan
    <3>1. Queue(t) = pending[s] /\ Queue(t)' = outq[c] \o pending[s]
      BY <1>2, <1>3, <1>4, <1>5, <1>7, <1>8, <2>3 DEF Queue
    <3>2. outq[c] \in Seq(Answers)
      <4>1. outq[c] \in Seq(ForServers \cup Answers)
        BY DEF RtrTypeOK
      <4>2. ASSUME NEW n \in DOMAIN outq[c]
            PROVE  outq[c][n] \in Answers
        <5>1. ASSUME outq[c][n].type # "Answer" PROVE FALSE
          <6>1. PICK u \in Server : localMap[u] = c
            BY <4>2, <5>1 DEF Linked
          <6>2. srvChan[u] = c
            BY <1>5, <6>1 DEF Linked
          <6> QED BY <1>2, <1>3, <1>5, <2>3, <6>1, <6>2 DEF Plugged
        <5>2. outq[c][n] \in ForServers \cup Answers
          BY <4>1, <4>2
        <5> QED BY <5>1, <5>2, MessageTypes
      <4> QED BY <4>1, <4>2
    <3> QED BY <3>1, <3>2
  <2> QED BY <2>1, <2>2, <2>3
<1> QED BY <1>4, <1>9

LEMMA TakesTail ==
  ASSUME RtrTypeOK, Plugged, Linked, NEW s \in Server, NEW type, SrvTakes(s, type), type # "Answer",
         UNCHANGED <<localMap, srvChan, pending>>
  PROVE  /\ Queue(s)' = Tail(Queue(s)) /\ Queue(s) # <<>> /\ Queue(s) = outq[srvChan[s]]
         /\ \A t \in Server : t # s => Queue(t)' = Queue(t)
<1>1. localMap[s] = srvChan[s] /\ Queue(s) = outq[srvChan[s]] /\ localMap[s] # NoChan
  BY TakesQueue
<1>2. /\ srvChan[s] \in Chan /\ outq[srvChan[s]] # <<>>
      /\ outq' = [outq EXCEPT ![srvChan[s]] = Tail(outq[srvChan[s]])]
  BY TakesFacts
<1>3. Queue(s)' = Tail(Queue(s))
  BY <1>1, <1>2 DEF Queue, RtrTypeOK
<1>4. ASSUME NEW t \in Server, t # s
      PROVE  Queue(t)' = Queue(t)
  <2>1. CASE localMap[t] = NoChan
    BY <2>1 DEF Queue
  <2>2. CASE localMap[t] # NoChan
    <3>1. srvChan[t] \in Chan /\ srvChan[t] # srvChan[s]
      BY <1>1, <1>4, <2>2, QueueTypes DEF Plugged
    <3> QED BY <1>2, <2>2, <3>1 DEF Queue, RtrTypeOK
  <2> QED BY <2>1, <2>2
<1> QED BY <1>1, <1>2, <1>3, <1>4

LEMMA StoodMore ==
  ASSUME NEW s, NEW T, NEW q \in Seq(T), NEW r \in Seq(T), NEW b, NEW k, Stood(s, q, b, k),
         \A i \in DOMAIN r : ~About(r[i], k)
  PROVE  Stood(s, q \o r, b, k)
<1> SUFFICES ASSUME NEW o \in MembersOf(k), Home[o] = s
             PROVE  Stands(q \o r, b[k], k, Len(q \o r) + 1, o)
  BY DEF Stood
<1>1. Len(q) \in Nat /\ Len(r) \in Nat /\ Len(q \o r) = Len(q) + Len(r)
  OBVIOUS
<1>2. Stands(q, b[k], k, Len(q) + 1, o) /\ Len(q) + 1 \in 1 .. Len(q) + 1
  BY <1>1 DEF Stood
<1>3. \A m \in Len(q) + 1 .. Len(q) + Len(r) + 1 : Stands(q \o r, b[k], k, m, o)
  BY <1>2, StandsJoin
<1>4. Len(q) + Len(r) + 1 \in Len(q) + 1 .. Len(q) + Len(r) + 1
  BY <1>1
<1> QED BY <1>1, <1>3, <1>4

LEMMA AnswersInPlace ==
  ASSUME RtrTypeOK, Linked, InPlace, UNCHANGED <<objs, comms>>,
         \A s \in Server : Queue(s)' = Queue(s) \/ \E a \in Answers : Queue(s)' = Append(Queue(s), a)
  PROVE  InPlace'
<1>1. \A s \in Server : \E r \in Seq(Answers) : Queue(s)' = Queue(s) \o r
  <2> SUFFICES ASSUME NEW s \in Server PROVE \E r \in Seq(Answers) : Queue(s)' = Queue(s) \o r
    OBVIOUS
  <2>1. PICK q \in Seq(ForServers \cup Answers) : q = Queue(s)
    BY QueueTypes
  <2>2. q \o <<>> = q /\ <<>> \in Seq(Answers)
    OBVIOUS
  <2>3. \A a \in Answers : Append(q, a) = q \o <<a>> /\ <<a>> \in Seq(Answers)
    OBVIOUS
  <2> QED BY <2>1, <2>2, <2>3
<1> DEFINE R == [s \in Server |-> CHOOSE r \in Seq(Answers) : Queue(s)' = Queue(s) \o r]
<1>2. \A s \in Server : R[s] \in Seq(Answers) /\ Queue(s)' = Queue(s) \o R[s]
  BY <1>1
<1>3. PICK S : S = R
  OBVIOUS
<1>4. S \in [Server -> Seq(Answers)] /\ \A s \in Server : Queue(s)' = Queue(s) \o S[s]
  BY <1>2, <1>3
<1> HIDE DEF R
<1>5. S \in [Server -> Seq(ForServers \cup Answers)]
  BY <1>4
<1>6. \A a \in Answers : a.type = "Answer"
  BY DEF Answers
<1>7. \A s \in Server : \A i \in DOMAIN S[s] : S[s][i].type = "Answer"
  BY <1>4, <1>6
<1>8. \A m, k : m.type = "Answer" => ~About(m, k)
  BY DEF About
<1>9. ASSUME NEW c \in Chan, NEW k \in comms'[c], NEW s \in Server
      PROVE  Stood(s, Queue(s) \o S[s], objs[s], k)
  <2>1. Stood(s, Queue(s), objs[s], k)
    BY InPlaceParts
  <2>2. PICK q \in Seq(ForServers \cup Answers) : q = Queue(s)
    BY QueueTypes
  <2>3. PICK r \in Seq(ForServers \cup Answers) : r = S[s]
    BY <1>5
  <2>4. \A i \in DOMAIN r : ~About(r[i], k)
    BY <1>7, <1>8, <2>3
  <2>5. Stood(s, q \o r, objs[s], k)
    BY <2>1, <2>2, <2>4, StoodMore
  <2> QED BY <2>2, <2>3, <2>5
<1> QED BY <1>4, <1>5, <1>7, <1>9, InPlaceMore

LEMMA ShiftInPlace ==
  ASSUME RtrTypeOK, Linked, InPlace, UNCHANGED <<objs, comms>>,
         \A s \in Server : \E p \in Seq(Answers) : Queue(s)' = p \o Queue(s)
  PROVE  InPlace'
<1>1. ASSUME NEW s \in Server
      PROVE  /\ QueueRight(s, Queue(s)', objs[s])
             /\ \A k : Stood(s, Queue(s), objs[s], k) => Stood(s, Queue(s)', objs[s], k)
  <2>1. PICK q \in Seq(ForServers \cup Answers) : q = Queue(s)
    BY QueueTypes
  <2>2. PICK p \in Seq(Answers) : Queue(s)' = p \o Queue(s)
    OBVIOUS
  <2>3. PICK r : r = p \o q
    OBVIOUS
  <2>4. \A i \in DOMAIN p : p[i].type = "Answer"
    <3>1. \A i \in DOMAIN p : p[i] \in Answers
      OBVIOUS
    <3> QED BY <3>1 DEF Answers
  <2>5. \A k : \A i \in DOMAIN p : ~About(p[i], k)
    BY <2>4 DEF About
  <2>6. p \in Seq(ForServers \cup Answers) /\ Len(p) \in Nat /\ Len(q) \in Nat
    OBVIOUS
  <2>7. \A n \in DOMAIN r : \/ n \in DOMAIN p /\ r[n] = p[n]
                            \/ n - Len(p) \in DOMAIN q /\ r[n] = q[n - Len(p)]
    BY <2>3, <2>6, JoinAt
  <2>8. \A b, k, o : \A n \in 1 .. Len(q) + 1 : Stands(q, b, k, n, o) => Stands(r, b, k, n + Len(p), o)
    BY <2>3, <2>5, <2>6, StandsShift
  <2>9. QueueRight(s, q, objs[s])
    BY <2>1, InPlaceParts
  <2>10. ASSUME NEW n \in DOMAIN r
         PROVE  /\ r[n].type # "Answer" => Home[r[n].dst] = s
                /\ r[n].type = "CommReq" => Stands(r, objs[s][r[n].comm], r[n].comm, n, r[n].dst)
    <3>1. CASE n \in DOMAIN p /\ r[n] = p[n]
      BY <2>4, <3>1
    <3>2. CASE n - Len(p) \in DOMAIN q /\ r[n] = q[n - Len(p)]
      <4>1. PICK j \in DOMAIN q : j = n - Len(p)
        BY <3>2
      <4>2. n = j + Len(p) /\ j \in 1 .. Len(q) + 1
        <5>1. n \in Int /\ j \in Int /\ Len(p) \in Int
          BY <2>3, <2>6
        <5>2. n = j + Len(p)
          BY <4>1, <5>1
        <5>3. DOMAIN q = 1 .. Len(q) /\ Len(q) \in Nat
          OBVIOUS
        <5> QED BY <5>2, <5>3
      <4>3. /\ q[j].type # "Answer" => Home[q[j].dst] = s
            /\ q[j].type = "CommReq" => Stands(q, objs[s][q[j].comm], q[j].comm, j, q[j].dst)
        BY <2>9 DEF QueueRight
      <4> QED BY <2>8, <3>2, <4>1, <4>2, <4>3
    <3> QED BY <2>7, <3>1, <3>2
  <2>11. QueueRight(s, r, objs[s])
    BY <2>10 DEF QueueRight
  <2>12. ASSUME NEW k, Stood(s, q, objs[s], k)
         PROVE  Stood(s, r, objs[s], k)
    <3>1. Len(r) + 1 = Len(q) + 1 + Len(p) /\ Len(q) + 1 \in 1 .. Len(q) + 1
      BY <2>3, <2>6
    <3> QED BY <2>8, <2>12, <3>1 DEF Stood
  <2> QED BY <2>1, <2>2, <2>3, <2>11, <2>12
<1>2. \A s \in Server : QueueRight(s, Queue(s)', objs'[s])
  BY <1>1
<1>3. \A c \in Chan : \A k \in comms'[c] : \A s \in Server : Stood(s, Queue(s)', objs'[s], k)
  BY <1>1, InPlaceParts
<1> QED BY <1>2, <1>3 DEF InPlace, QueueRight, Stood

LEMMA TailInPlace ==
  ASSUME RtrTypeOK, Linked, InPlace, UNCHANGED comms, NEW s \in Server,
         Queue(s) # <<>>, Queue(s)' = Tail(Queue(s)),
         \A t \in Server : t # s => Queue(t)' = Queue(t) /\ objs'[t] = objs[t],
         \A k \in CommId : /\ \A o : About(Queue(s)[1], k) /\ Queue(s)[1] = Create(k, o) => objs'[s][k] = o
                           /\ ~About(Queue(s)[1], k) => objs'[s][k] = objs[s][k]
  PROVE  InPlace'
<1>1. PICK q \in Seq(ForServers \cup Answers) : q = Queue(s)
  BY QueueTypes
<1>2. PICK r : r = Tail(q)
  OBVIOUS
<1>3. /\ Len(q) \in Nat \ {0} /\ DOMAIN q = 1 .. Len(q) /\ DOMAIN r = 1 .. Len(q) - 1 /\ Len(r) = Len(q) - 1
      /\ \A n \in DOMAIN r : n + 1 \in DOMAIN q /\ r[n] = q[n + 1]
  BY <1>1, <1>2
<1>4. PICK e : e = objs'[s]
  OBVIOUS
<1>5. \A k \in CommId : \A o : \A n \in 2 .. Len(q) + 1 :
        Stands(q, objs[s][k], k, n, o) => Stands(r, e[k], k, n - 1, o)
  <2> SUFFICES ASSUME NEW k \in CommId, NEW o, NEW n \in 2 .. Len(q) + 1, Stands(q, objs[s][k], k, n, o)
               PROVE  Stands(r, e[k], k, n - 1, o)
    OBVIOUS
  <2>1. /\ About(q[1], k) /\ q[1] = Create(k, o) => e[k] = o
        /\ ~About(q[1], k) => e[k] = objs[s][k]
    BY <1>1, <1>4
  <2>2. PICK b : b = objs[s][k]
    OBVIOUS
  <2>3. PICK f : f = e[k]
    OBVIOUS
  <2>4. q # <<>>
    BY <1>1
  <2>5. Stands(Tail(q), f, k, n - 1, o)
    BY <2>1, <2>2, <2>3, <2>4, StandsTail
  <2> QED BY <1>2, <2>3, <2>5
<1>6. QueueRight(s, q, objs[s])
  BY <1>1, InPlaceParts
<1>7. ASSUME NEW n \in DOMAIN r
      PROVE  /\ r[n].type # "Answer" => Home[r[n].dst] = s
             /\ r[n].type = "CommReq" => Stands(r, e[r[n].comm], r[n].comm, n, r[n].dst)
  <2>1. PICK j : j = n + 1
    OBVIOUS
  <2>2. j \in DOMAIN q /\ r[n] = q[j] /\ j \in 2 .. Len(q) + 1 /\ n = j - 1
    BY <1>3, <2>1
  <2>3. /\ q[j].type # "Answer" => Home[q[j].dst] = s
        /\ q[j].type = "CommReq" => Stands(q, objs[s][q[j].comm], q[j].comm, j, q[j].dst)
    BY <1>6, <2>2 DEF QueueRight
  <2>4. q[j].type = "CommReq" => q[j].comm \in CommId
    <3>1. q[j] \in ForServers \cup Answers
      BY <2>2
    <3> QED BY <3>1, MessageTypes DEF Copied
  <2> QED BY <1>5, <2>2, <2>3, <2>4
<1>8. QueueRight(s, r, e)
  BY <1>7 DEF QueueRight
<1>9. ASSUME NEW k \in CommId, Stood(s, q, objs[s], k)
      PROVE  Stood(s, r, e, k)
  <2>1. Len(q) + 1 \in 2 .. Len(q) + 1 /\ Len(q) + 1 - 1 = Len(r) + 1
    BY <1>3
  <2> QED BY <1>5, <1>9, <2>1 DEF Stood
<1>10. \A t \in Server : QueueRight(t, Queue(t)', objs'[t])
  <2>1. \A t \in Server : QueueRight(t, Queue(t), objs[t])
    BY InPlaceParts
  <2>2. Queue(s)' = r
    BY <1>1, <1>2
  <2> QED BY <1>4, <1>8, <2>1, <2>2
<1>11. ASSUME NEW c \in Chan, NEW k \in comms'[c], NEW t \in Server
       PROVE  Stood(t, Queue(t)', objs'[t], k)
  <2>1. k \in CommId /\ Stood(t, Queue(t), objs[t], k)
    BY InPlaceParts DEF RtrTypeOK
  <2>2. CASE t # s
    BY <2>1, <2>2
  <2>3. CASE t = s
    <3>1. Queue(s)' = r
      BY <1>1, <1>2
    <3> QED BY <1>1, <1>4, <1>9, <2>1, <2>3, <3>1
  <2> QED BY <2>2, <2>3
<1> QED BY <1>10, <1>11 DEF InPlace, QueueRight, Stood

(* Every step keeps the events of a queue in place.                        *)
LEMMA InPlaceKept ==
  ASSUME RtrTypeOK, Apart, Plugged, Linked, InPlace, NoneStopped', [Next]_vars
  PROVE  InPlace'
<1> USE DEF cliVars, srvVars, rtrVars
<1>1. CASE QuietStep
  BY <1>1, QuietQueue, InPlaceSame
<1>2. ASSUME UNCHANGED <<localMap, srvChan, pending, outq, objs, comms>>
      PROVE  InPlace'
  <2>1. \A s \in Server : Queue(s)' = Queue(s) /\ objs'[s] = objs[s]
    BY <1>2 DEF Queue
  <2> QED BY <1>2, <2>1, InPlaceSame
<1>3. ASSUME NEW c \in Chan, RtrCommCreate(c)
      PROVE  InPlace'
  <2> DEFINE k == Head(inq[c]).comm
             ms == [n \in DOMAIN FlattenSeq(Members[k]) |-> Create(k, FlattenSeq(Members[k])[n])]
  <2>1. Head(inq[c]) \in ForRouter /\ Head(inq[c]).type = "CommCreate"
    BY <1>3, ReceiveFacts DEF RtrCommCreate
  <2>2. k \in CommId
    BY <2>1, MessageTypes DEF Opened
  <2>3. CASE k \in comms[c]
    BY <1>2, <1>3, <2>3 DEF RtrCommCreate, Abort
  <2>4. CASE k \notin comms[c]
    <3>1. /\ ms \in Seq(ForServers) /\ Send(ms)
          /\ \A m : m \in Range(ms) <=> \E o \in MembersOf(k) : m = Create(k, o)
      BY <1>3, <2>2, <2>4, CreatesFacts DEF RtrCommCreate
    <3>2. UNCHANGED <<localMap, srvChan, objs>> /\ comms' = [comms EXCEPT ![c] = @ \cup {k}]
      BY <1>3, <2>4 DEF RtrCommCreate
    <3> HIDE DEF ms, k
    <3>3. \A d \in Chan : comms'[d] \subseteq comms[d] \cup {k}
      BY <3>2 DEF RtrTypeOK
    <3>4. PICK R : R = Added(ms)
      OBVIOUS
    <3>5. ASSUME NEW s \in Server
          PROVE  /\ R[s] \in Seq(ForServers)
                 /\ \A x : x \in Range(R[s]) <=> \E o \in MembersOf(k) : Home[o] = s /\ x = Create(k, o)
      <4>1. /\ R[s] \in Seq(ForServers)
            /\ \A x : x \in Range(R[s]) <=> \E n \in DOMAIN ms : Home[ms[n].dst] = s /\ x = ms[n]
        <5>1. ms \in Seq(ForServers)
          BY <3>1
        <5>2. /\ Added(ms)[s] \in Seq(ForServers)
              /\ \A x : x \in Range(Added(ms)[s]) <=> \E n \in DOMAIN ms : Home[ms[n].dst] = s /\ x = ms[n]
          BY <5>1, AddedFacts, Zenon
        <5> QED BY <3>4, <5>2, Zenon
      <4>2. \A x : (\E n \in DOMAIN ms : Home[ms[n].dst] = s /\ x = ms[n]) <=> x \in Range(ms) /\ Home[x.dst] = s
        BY DEF Range
      <4>3. \A o : Create(k, o).dst = o
        BY DEF Create
      <4> QED BY <3>1, <4>1, <4>2, <4>3
    <3>6. R \in [Server -> Seq(ForServers \cup Answers)]
      BY <3>4, <3>5 DEF Added
    <3>7. \A s \in Server : Queue(s)' = Queue(s) \o R[s] /\ objs'[s] = objs[s]
      BY <3>1, <3>2, <3>4, SendQueue
    <3>8. \A s \in Server : \A i \in DOMAIN R[s] : \E o \in MembersOf(k) : Home[o] = s /\ R[s][i] = Create(k, o)
      <4> SUFFICES ASSUME NEW s \in Server, NEW i \in DOMAIN R[s]
                   PROVE  \E o \in MembersOf(k) : Home[o] = s /\ R[s][i] = Create(k, o)
        OBVIOUS
      <4>1. R[s][i] \in Range(R[s])
        BY DEF Range
      <4>2. \A x : x \in Range(R[s]) => \E o \in MembersOf(k) : Home[o] = s /\ x = Create(k, o)
        BY <3>5, Zenon
      <4> QED BY <4>1, <4>2, Zenon
    <3>9. \A s \in Server : \A i \in DOMAIN R[s] : R[s][i].type # "CommReq" /\ Home[R[s][i].dst] = s
      <4> SUFFICES ASSUME NEW s \in Server, NEW i \in DOMAIN R[s]
                   PROVE  R[s][i].type # "CommReq" /\ Home[R[s][i].dst] = s
        OBVIOUS
      <4>1. PICK o \in MembersOf(k) : Home[o] = s /\ R[s][i] = Create(k, o)
        BY <3>8
      <4> QED BY <4>1 DEF Create
    <3>10. ASSUME NEW d \in Chan, NEW h \in comms'[d], NEW s \in Server
           PROVE  Stood(s, Queue(s) \o R[s], objs[s], h)
      <4>1. PICK q \in Seq(ForServers \cup Answers) : q = Queue(s)
        BY QueueTypes
      <4>2. PICK r \in Seq(ForServers \cup Answers) : r = R[s]
        BY <3>6
      <4>3. CASE h = k
        <5>1. ASSUME NEW o \in MembersOf(k), Home[o] = s
              PROVE  Stands(q \o r, objs[s][k], k, Len(q \o r) + 1, o)
          <6>1. \A i \in DOMAIN r : r[i] = Create(k, o)
            <7>1. \A p \in MembersOf(k) : Home[p] = s => p = o
              BY <2>2, <5>1, OneOnServer
            <7> QED BY <3>8, <4>2, <7>1
          <6>2. \E a \in DOMAIN r : r[a] = Create(k, o)
            BY <3>5, <4>2, <5>1 DEF Range
          <6>3. PICK b : b = objs[s][k]
            OBVIOUS
          <6>4. Stands(q \o r, b, k, Len(q \o r) + 1, o)
            BY <6>1, <6>2, StandsNew
          <6> QED BY <6>3, <6>4
        <5> QED BY <4>1, <4>2, <4>3, <5>1 DEF Stood
      <4>4. CASE h # k
        <5>1. Stood(s, q, objs[s], h)
          BY <3>3, <4>1, <4>4, InPlaceParts
        <5>2. ASSUME NEW i \in DOMAIN r
              PROVE  ~About(r[i], h)
          <6>1. PICK o \in MembersOf(k) : r[i] = Create(k, o)
            BY <3>8, <4>2
          <6>2. Create(k, o).comm = k
            BY DEF Create
          <6> QED BY <4>4, <6>1, <6>2 DEF About
        <5>3. Stood(s, q \o r, objs[s], h)
          BY <5>1, <5>2, StoodMore
        <5> QED BY <4>1, <4>2, <5>3
      <4> QED BY <4>3, <4>4
    <3> QED BY <3>6, <3>7, <3>9, <3>10, InPlaceMore
  <2> QED BY <2>3, <2>4
<1>4. ASSUME NEW c \in Chan, NEW i \in InfoId, RtrCommReq(c, i)
      PROVE  InPlace'
  <2> DEFINE m == Head(inq[c])
             ms == CopiesOf(m, i)
  <2>1. m \in ForRouter /\ m.type = "CommReq"
    BY <1>4, ReceiveFacts DEF RtrCommReq
  <2>2. m \in AskedFor
    BY <2>1, MessageTypes
  <2>3. CASE m.comm \notin comms[c] \/ ~ Supported(m.op, m.comm)
    BY <1>2, <1>4, <2>3 DEF RtrCommReq, Abort
  <2>4. CASE ~ (m.comm \notin comms[c] \/ ~ Supported(m.op, m.comm))
    <3>1. /\ ms \in Seq(ForServers) /\ Send(ms)
          /\ \A x : x \in Range(ms) <=>
              \E g \in Groups(m.comm) : \E o \in Range(Members[m.comm][g]) : x = Copy(m.op, m.comm, i, g, o)
      BY <1>4, <2>2, <2>4, CopiesFacts DEF RtrCommReq
    <3>2. UNCHANGED <<localMap, srvChan, objs, comms>>
      BY <1>4, <2>4 DEF RtrCommReq
    <3>3. PICK k \in comms[c] : k = m.comm
      BY <2>4
    <3> HIDE DEF m, ms
    <3>4. PICK R : R = Added(ms)
      OBVIOUS
    <3>5. ASSUME NEW s \in Server
          PROVE  /\ R[s] \in Seq(ForServers)
                 /\ \A x \in Range(R[s]) : /\ x.type = "CommReq" /\ x.comm = k
                                           /\ x.dst \in MembersOf(k) /\ Home[x.dst] = s
      <4>1. /\ R[s] \in Seq(ForServers)
            /\ \A x : x \in Range(R[s]) <=> \E n \in DOMAIN ms : Home[ms[n].dst] = s /\ x = ms[n]
        <5>1. ms \in Seq(ForServers)
          BY <3>1
        <5>2. /\ Added(ms)[s] \in Seq(ForServers)
              /\ \A x : x \in Range(Added(ms)[s]) <=> \E n \in DOMAIN ms : Home[ms[n].dst] = s /\ x = ms[n]
          BY <5>1, AddedFacts, Zenon
        <5> QED BY <3>4, <5>2, Zenon
      <4>2. \A n \in DOMAIN ms : ms[n] \in Range(ms)
        BY DEF Range
      <4>3. \A x \in Range(ms) : x.type = "CommReq" /\ x.comm = k /\ x.dst \in MembersOf(k)
        BY <3>1, <3>3 DEF Copy, MembersOf
      <4> QED BY <4>1, <4>2, <4>3
    <3>6. R \in [Server -> Seq(ForServers \cup Answers)]
      BY <3>4, <3>5 DEF Added
    <3>7. \A s \in Server : Queue(s)' = Queue(s) \o R[s] /\ objs'[s] = objs[s]
      BY <3>1, <3>2, <3>4, SendQueue
    <3>8. \A s \in Server : \A j \in DOMAIN R[s] :
            /\ R[s][j].type = "CommReq" /\ R[s][j].comm = k
            /\ R[s][j].dst \in MembersOf(k) /\ Home[R[s][j].dst] = s
      BY <3>5 DEF Range
    <3>9. ASSUME NEW s \in Server, NEW h
          PROVE  \A j \in DOMAIN R[s] : ~About(R[s][j], h)
      BY <3>8 DEF About
    <3>10. ASSUME NEW d \in Chan, NEW h \in comms'[d], NEW s \in Server
           PROVE  Stood(s, Queue(s) \o R[s], objs[s], h)
      <4>1. PICK q \in Seq(ForServers \cup Answers) : q = Queue(s)
        BY QueueTypes
      <4>2. PICK r \in Seq(ForServers \cup Answers) : r = R[s]
        BY <3>6
      <4>3. Stood(s, q, objs[s], h)
        BY <3>2, <4>1, InPlaceParts
      <4>4. \A j \in DOMAIN r : ~About(r[j], h)
        BY <3>9, <4>2
      <4>5. Stood(s, q \o r, objs[s], h)
        BY <4>3, <4>4, StoodMore
      <4> QED BY <4>1, <4>2, <4>5
    <3>11. ASSUME NEW s \in Server, NEW j \in DOMAIN R[s]
           PROVE  Stands(Queue(s) \o R[s], objs[s][R[s][j].comm], R[s][j].comm, Len(Queue(s)) + j, R[s][j].dst)
      <4>1. PICK q \in Seq(ForServers \cup Answers) : q = Queue(s)
        BY QueueTypes
      <4>2. PICK r \in Seq(ForServers \cup Answers) : r = R[s]
        BY <3>6
      <4>3. PICK o : o = r[j].dst
        OBVIOUS
      <4>4. r[j].comm = k /\ o \in MembersOf(k) /\ Home[o] = s
        BY <3>8, <4>2, <4>3
      <4>5. PICK b : b = objs[s][k]
        OBVIOUS
      <4>6. Stands(q, b, k, Len(q) + 1, o)
        <5>1. Stood(s, q, objs[s], k)
          BY <4>1, InPlaceParts
        <5> QED BY <4>4, <4>5, <5>1 DEF Stood
      <4>7. \A x \in DOMAIN r : ~About(r[x], k)
        BY <3>9, <4>2
      <4>8. Len(q) + 1 \in 1 .. Len(q) + 1 /\ Len(q) + j \in Len(q) + 1 .. Len(q) + Len(r) + 1
        BY <4>2
      <4>9. Stands(q \o r, b, k, Len(q) + j, o)
        BY <4>6, <4>7, <4>8, StandsJoin
      <4> QED BY <4>1, <4>2, <4>3, <4>4, <4>5, <4>9
    <3> QED BY <3>6, <3>7, <3>8, <3>10, <3>11, InPlaceMore
  <2> QED BY <2>3, <2>4
<1>5. ASSUME NEW c \in Chan, RtrCommResp(c) \/ RtrOneResp(c)
      PROVE  InPlace'
  <2>1. UNCHANGED <<localMap, srvChan, pending, objs, comms>>
    BY <1>5 DEF RtrCommResp, RtrOneResp
  <2>2. \A d \in Chan : outq'[d] = outq[d] \/ \E a \in Answers : outq'[d] = Append(outq[d], a)
    BY <1>5, RespOut
  <2> QED BY <2>1, <2>2, AnswerQueue, AnswersInPlace
<1>6. ASSUME NEW c \in Chan, RtrServerConnect(c)
      PROVE  InPlace'
  BY <1>6, ConnectQueue, ShiftInPlace
<1>7. ASSUME NEW c \in Chan, RtrClientClosed(c)
      PROVE  InPlace'
  <2> DEFINE ms == DestroysOf(comms[c])
  <2>1. /\ Send(ms) /\ comms' = [comms EXCEPT ![c] = {}] /\ UNCHANGED <<localMap, srvChan, objs>>
        /\ kind[c] = "client"
    BY <1>7 DEF RtrClientClosed, DestroysOf, Closed
  <2>2. ms \in Seq(ForServers) /\ \A x \in Range(ms) : x.type = "CommDestroy" /\ x.comm \in comms[c]
    BY DestroysFacts DEF RtrTypeOK
  <2> HIDE DEF ms
  <2>3. PICK R : R = Added(ms)
    OBVIOUS
  <2>4. ASSUME NEW s \in Server
        PROVE  /\ R[s] \in Seq(ForServers)
               /\ \A x \in Range(R[s]) : x.type = "CommDestroy" /\ x.comm \in comms[c] /\ Home[x.dst] = s
    <3>1. /\ R[s] \in Seq(ForServers)
          /\ \A x : x \in Range(R[s]) <=> \E n \in DOMAIN ms : Home[ms[n].dst] = s /\ x = ms[n]
      <4>1. ms \in Seq(ForServers)
        BY <2>2
      <4>2. /\ Added(ms)[s] \in Seq(ForServers)
            /\ \A x : x \in Range(Added(ms)[s]) <=> \E n \in DOMAIN ms : Home[ms[n].dst] = s /\ x = ms[n]
        BY <4>1, AddedFacts, Zenon
      <4> QED BY <2>3, <4>2, Zenon
    <3>2. \A n \in DOMAIN ms : ms[n] \in Range(ms)
      BY DEF Range
    <3> QED BY <2>2, <3>1, <3>2
  <2>5. R \in [Server -> Seq(ForServers \cup Answers)]
    BY <2>3, <2>4 DEF Added
  <2>6. \A s \in Server : Queue(s)' = Queue(s) \o R[s] /\ objs'[s] = objs[s]
    BY <2>1, <2>2, <2>3, SendQueue
  <2>7. \A s \in Server : \A j \in DOMAIN R[s] :
          R[s][j].type = "CommDestroy" /\ R[s][j].comm \in comms[c] /\ Home[R[s][j].dst] = s
    BY <2>4 DEF Range
  <2>8. ASSUME NEW d \in Chan, NEW h \in comms'[d], NEW s \in Server
        PROVE  Stood(s, Queue(s) \o R[s], objs[s], h)
    <3>1. d # c /\ h \in comms[d]
      BY <2>1, <2>8 DEF RtrTypeOK
    <3>2. h \notin comms[c]
      <4>1. kind[d] = "client" /\ comms[d] \subseteq made[d] /\ comms[c] \subseteq made[c]
        BY <3>1 DEF Apart
      <4> QED BY <2>1, <3>1, <4>1 DEF Apart
    <3>3. PICK q \in Seq(ForServers \cup Answers) : q = Queue(s)
      BY QueueTypes
    <3>4. PICK r \in Seq(ForServers \cup Answers) : r = R[s]
      BY <2>5
    <3>5. Stood(s, q, objs[s], h)
      BY <3>1, <3>3, InPlaceParts
    <3>6. \A j \in DOMAIN r : ~About(r[j], h)
      BY <2>7, <3>2, <3>4 DEF About
    <3>7. Stood(s, q \o r, objs[s], h)
      BY <3>5, <3>6, StoodMore
    <3> QED BY <3>3, <3>4, <3>7
  <2> QED BY <2>5, <2>6, <2>7, <2>8, InPlaceMore
<1>8. ASSUME NEW c \in Chan, RtrServerClosed(c)
      PROVE  FALSE
  <2>1. kind[c] = "server" /\ conn[c] = "eof" /\ NoChan \notin Chan
    BY <1>8, RouteAssumption DEF RtrServerClosed, Closed
  <2> QED BY <2>1 DEF Linked, Plugged
<1>9. ASSUME NEW s \in Server, SrvCommCreate(s) \/ SrvCommDestroy(s) \/ SrvCommReq(s)
      PROVE  InPlace'
  <2>1. PICK q \in Seq(ForServers \cup Answers) : q = Queue(s)
    BY QueueTypes
  <2>2. PICK type : type = Head(outq[srvChan[s]]).type
    OBVIOUS
  <2>3. SrvTakes(s, type) /\ type \in {"CommCreate", "CommDestroy", "CommReq"}
    BY <1>9, <2>2 DEF SrvCommCreate, SrvCommDestroy, SrvCommReq, SrvTakes
  <2>4. UNCHANGED <<localMap, srvChan, pending, comms>>
    BY <1>9 DEF SrvCommCreate, SrvCommDestroy, SrvCommReq
  <2>5. /\ Queue(s)' = Tail(q) /\ q # <<>> /\ q = outq[srvChan[s]]
        /\ \A t \in Server : t # s => Queue(t)' = Queue(t)
    BY <2>1, <2>3, <2>4, TakesTail
  <2>6. Head(q) = q[1] /\ q[1] \in ForServers \cup Answers /\ q[1].type = type
    BY <2>2, <2>5, TailAt
  <2>7. PICK m : m = q[1]
    OBVIOUS
  <2>8. \/ m \in Created /\ objs' = [objs EXCEPT ![s][m.comm] = m.dst]
        \/ m \in Destroyed /\ objs' = [objs EXCEPT ![s][m.comm] = NoObj]
        \/ m.type = "CommReq" /\ objs' = objs
    <3>1. CASE SrvCommCreate(s)
      BY <2>5, <2>6, <2>7, <3>1, MessageTypes DEF SrvCommCreate, SrvTakes
    <3>2. CASE SrvCommDestroy(s)
      BY <2>5, <2>6, <2>7, <3>2, MessageTypes DEF SrvCommDestroy, SrvTakes
    <3>3. CASE SrvCommReq(s)
      BY <2>5, <2>6, <2>7, <3>3 DEF SrvCommReq, SrvTakes
    <3> QED BY <1>9, <3>1, <3>2, <3>3
  <2>9. \A t \in Server : t # s => objs'[t] = objs[t]
    BY <2>8 DEF RtrTypeOK
  <2>10. ASSUME NEW k \in CommId
         PROVE  /\ \A o : About(m, k) /\ m = Create(k, o) => objs'[s][k] = o
                /\ ~About(m, k) => objs'[s][k] = objs[s][k]
    <3>1. objs \in [Server -> [CommId -> Obj \cup {NoObj}]]
      BY DEF RtrTypeOK
    <3>2. CASE m \in Created /\ objs' = [objs EXCEPT ![s][m.comm] = m.dst]
      <4>1. \A o : m = Create(k, o) => m.comm = k /\ m.dst = o
        BY DEF Create
      <4>2. ~About(m, k) => m.comm # k
        BY <3>2 DEF About, Created
      <4> QED BY <3>1, <3>2, <4>1, <4>2
    <3>3. CASE m \in Destroyed /\ objs' = [objs EXCEPT ![s][m.comm] = NoObj]
      <4>1. \A o : m # Create(k, o)
        BY <3>3 DEF Create, Destroyed
      <4>2. ~About(m, k) => m.comm # k
        BY <3>3 DEF About, Destroyed
      <4> QED BY <3>1, <3>3, <4>1, <4>2
    <3>4. CASE m.type = "CommReq" /\ objs' = objs
      BY <3>4 DEF About
    <3> QED BY <2>8, <3>2, <3>3, <3>4
  <2>11. /\ Queue(s) # <<>> /\ Queue(s)' = Tail(Queue(s))
         /\ \A t \in Server : t # s => Queue(t)' = Queue(t) /\ objs'[t] = objs[t]
    BY <2>1, <2>5, <2>9
  <2>12. \A k \in CommId :
           /\ \A o : About(Queue(s)[1], k) /\ Queue(s)[1] = Create(k, o) => objs'[s][k] = o
           /\ ~About(Queue(s)[1], k) => objs'[s][k] = objs[s][k]
    BY <2>1, <2>7, <2>10
  <2> QED BY <2>4, <2>11, <2>12, TailInPlace
<1>10. ASSUME NEW s \in Server, NEW unread, srvChan[s] # NoChan, SrvStops(s, unread)
       PROVE  FALSE
  <2>1. srvChan'[s] = NoChan /\ starts'[s] = starts[s] /\ starts[s] > 0 /\ starts[s] \in Nat
    BY <1>10 DEF SrvStops, RtrTypeOK, Plugged
  <2>2. starts'[s] <= 1 /\ (starts'[s] = 1 => srvChan'[s] # NoChan)
    BY DEF NoneStopped
  <2> QED BY <2>1, <2>2
<1>11. ASSUME NEW s \in Server, SrvCrash(s) \/ SrvDie(s)
       PROVE  FALSE
  BY <1>10, <1>11 DEF SrvCrash, SrvDie
<1> QED BY <1>1, <1>3, <1>4, <1>5, <1>6, <1>7, <1>8, <1>9, <1>11
        DEF Next, RtrStep, SrvStep, QuietStep

-----------------------------------------------------------------------------
(* RightObject.                                                            *)
LEMMA PlacesInit ==
  ASSUME Init
  PROVE  Apart /\ Plugged /\ Linked /\ InPlace
<1>1. DOMAIN <<>> = {} /\ Len(<<>>) = 0
  OBVIOUS
<1>2. Apart
  BY <1>1 DEF Init, Apart
<1>3. Plugged
  BY DEF Init, Plugged
<1>4. Linked
  BY <1>1 DEF Init, Linked
<1>5. \A s \in Server : Queue(s) = <<>>
  BY DEF Init, Queue
<1>6. \A c \in Chan : comms[c] = {}
  BY DEF Init
<1>7. InPlace
  BY <1>1, <1>5, <1>6 DEF InPlace
<1> QED BY <1>2, <1>3, <1>4, <1>7

(* The last event about k is the one that Found goes by.                   *)
LEMMA LastAbout ==
  ASSUME NEW N \in Nat, NEW P, P \subseteq 1 .. N, P # {}
  PROVE  Max(P) \in P /\ \A j \in P : Max(P) >= j
<1> DEFINE T == {N - j : j \in P}
<1>1. T \subseteq Nat /\ T # {}
  OBVIOUS
<1>2. PICK m \in T : \A y \in T : m <= y
  BY <1>1, Least
<1>3. PICK j \in P : m = N - j
  OBVIOUS
<1>4. \A i \in P : j >= i
  <2> SUFFICES ASSUME NEW i \in P PROVE j >= i
    OBVIOUS
  <2>1. N - i \in T
    OBVIOUS
  <2>2. N - j <= N - i
    BY <1>2, <1>3, <2>1
  <2> QED BY <2>2
<1>5. \E x \in P : \A y \in P : x >= y
  BY <1>4
<1> QED BY <1>5 DEF Max

LEMMA FoundStands ==
  ASSUME NEW s \in Server, NEW k, NEW o, NEW T, Stream(s) \in Seq(T), NEW n \in DOMAIN Stream(s),
         Stands(Stream(s), objs[s][k], k, n, o)
  PROVE  Found(s, k, n) = o
<1>1. PICK q \in Seq(T) : q = Stream(s)
  OBVIOUS
<1>2. PICK P : P = {j \in 1 .. n - 1 : About(q[j], k)}
  OBVIOUS
<1>3. Found(s, k, n) = IF P = {} THEN objs[s][k]
                       ELSE IF q[Max(P)].type = "CommCreate" THEN q[Max(P)].dst ELSE NoObj
  BY <1>1, <1>2 DEF Found, About
<1>4. n \in Nat \ {0}
  BY <1>1
<1>5. PICK j \in 0 .. n - 1 :
        /\ IF j = 0 THEN objs[s][k] = o ELSE q[j] = Create(k, o)
        /\ \A i \in j + 1 .. n - 1 : About(q[i], k) => q[i] = Create(k, o)
  BY <1>1 DEF Stands
<1>6. j # 0 => j \in P
  <2>1. About(Create(k, o), k)
    BY DEF About, Create
  <2> QED BY <1>2, <1>4, <1>5, <2>1
<1>7. CASE P = {}
  BY <1>3, <1>5, <1>6, <1>7
<1>8. CASE P # {}
  <2>1. PICK m : m = Max(P)
    OBVIOUS
  <2>2. m \in P /\ \A i \in P : m >= i
    <3>1. n - 1 \in Nat /\ P \subseteq 1 .. n - 1
      BY <1>2, <1>4
    <3> QED BY <1>8, <2>1, <3>1, LastAbout
  <2>3. m \in 1 .. n - 1 /\ About(q[m], k)
    BY <1>2, <2>2
  <2>4. j <= m
    BY <1>4, <1>6, <2>2, <2>3
  <2>5. q[m] = Create(k, o)
    <3>1. CASE m = j
      BY <1>4, <1>5, <2>3, <3>1
    <3>2. CASE m # j
      <4>1. m \in j + 1 .. n - 1
        BY <1>4, <2>3, <2>4, <3>2
      <4> QED BY <1>5, <2>3, <4>1
    <3> QED BY <3>1, <3>2
  <2>6. Create(k, o).type = "CommCreate" /\ Create(k, o).dst = o
    BY DEF Create
  <2> QED BY <1>3, <1>8, <2>1, <2>5, <2>6
<1> QED BY <1>7, <1>8

(* A server that has not said that it is there may have answers on its     *)
(* connection, ahead of what is pending.                                   *)
LEMMA StreamShift ==
  ASSUME RtrTypeOK, Plugged, Linked, NEW s \in Server
  PROVE  \E p \in Seq(Answers) : Stream(s) = p \o Queue(s)
<1>1. <<>> \in Seq(Answers) /\ \A T : \A q \in Seq(T) : <<>> \o q = q /\ q \o <<>> = q
  OBVIOUS
<1>2. NoChan \notin Chan /\ pending[s] \in Seq(ForServers)
  BY RouteAssumption DEF RtrTypeOK
<1>3. CASE localMap[s] # NoChan
  <2>1. pending[s] = <<>> /\ srvChan[s] # NoChan /\ srvChan[s] \in Chan
    BY <1>2, <1>3, QueueTypes DEF Linked
  <2>2. Stream(s) = outq[srvChan[s]] \o <<>> /\ Queue(s) = outq[srvChan[s]]
    BY <1>3, <2>1 DEF Stream, Queue
  <2>3. Queue(s) \in Seq(ForServers \cup Answers)
    BY QueueTypes
  <2>4. Stream(s) = Queue(s) \o <<>>
    BY <2>2
  <2>5. PICK q \in Seq(ForServers \cup Answers) : q = Queue(s)
    BY <2>3
  <2>6. Stream(s) = <<>> \o q
    BY <1>1, <2>4, <2>5
  <2> QED BY <1>1, <2>5, <2>6
<1>4. CASE localMap[s] = NoChan /\ srvChan[s] = NoChan
  BY <1>1, <1>4 DEF Stream, Queue
<1>5. CASE localMap[s] = NoChan /\ srvChan[s] # NoChan
  <2>1. PICK c \in Chan : c = srvChan[s]
    BY <1>5 DEF RtrTypeOK
  <2>2. outq[c] \in Seq(ForServers \cup Answers)
    BY DEF RtrTypeOK
  <2>3. ASSUME NEW n \in DOMAIN outq[c]
        PROVE  outq[c][n] \in Answers
    <3>1. ASSUME outq[c][n].type # "Answer" PROVE FALSE
      <4>1. PICK u \in Server : localMap[u] = c
        BY <2>3, <3>1 DEF Linked
      <4>2. srvChan[u] = c
        BY <1>2, <4>1 DEF Linked
      <4> QED BY <1>2, <1>5, <2>1, <4>1, <4>2 DEF Plugged
    <3>2. outq[c][n] \in ForServers \cup Answers
      BY <2>2, <2>3
    <3> QED BY <3>1, <3>2, MessageTypes
  <2>4. outq[c] \in Seq(Answers)
    BY <2>2, <2>3
  <2> QED BY <1>5, <2>1, <2>4 DEF Stream, Queue
<1> QED BY <1>3, <1>4, <1>5

LEMMA RightByPlace ==
  ASSUME RtrTypeOK, Plugged, Linked, InPlace
  PROVE  \A s \in Server : \A n \in DOMAIN Stream(s) :
           Stream(s)[n].type = "CommReq" => Found(s, Stream(s)[n].comm, n) = Stream(s)[n].dst
<1> SUFFICES ASSUME NEW s \in Server, NEW n \in DOMAIN Stream(s), Stream(s)[n].type = "CommReq"
             PROVE  Found(s, Stream(s)[n].comm, n) = Stream(s)[n].dst
  OBVIOUS
<1>1. PICK q \in Seq(ForServers \cup Answers) : q = Queue(s)
  BY QueueTypes
<1>2. PICK p \in Seq(Answers) : Stream(s) = p \o q
  BY <1>1, StreamShift
<1>3. p \in Seq(ForServers \cup Answers)
  BY <1>2
<1>4. PICK r : r = p \o q
  OBVIOUS
<1>5. r \in Seq(ForServers \cup Answers)
  BY <1>3, <1>4, JoinAt
<1>6. \/ n \in DOMAIN p /\ r[n] = p[n]
      \/ n - Len(p) \in DOMAIN q /\ r[n] = q[n - Len(p)]
  BY <1>2, <1>3, <1>4, JoinAt
<1>7. ASSUME NEW i \in DOMAIN p
      PROVE  p[i].type = "Answer"
  <2>1. p[i] \in Answers
    OBVIOUS
  <2> QED BY <2>1 DEF Answers
<1>8. PICK h : h = n - Len(p)
  OBVIOUS
<1>9. h \in DOMAIN q /\ r[n] = q[h] /\ q[h].type = "CommReq"
  BY <1>2, <1>4, <1>6, <1>7, <1>8
<1>10. PICK k, o : k = q[h].comm /\ o = q[h].dst
  OBVIOUS
<1>11. PICK b : b = objs[s][k]
  OBVIOUS
<1>12. Stands(q, b, k, h, o)
  BY <1>1, <1>9, <1>10, <1>11 DEF InPlace
<1>13. h + Len(p) = n /\ h \in 1 .. Len(q) + 1
  <2>1. Len(p) \in Nat /\ Len(q) \in Nat /\ DOMAIN q = 1 .. Len(q)
    OBVIOUS
  <2>2. n \in Int
    BY <1>2, <1>4, <1>5
  <2>3. h \in 1 .. Len(q)
    BY <1>9, <2>1
  <2>4. h + Len(p) = n
    BY <1>8, <2>1, <2>2
  <2> QED BY <2>1, <2>3, <2>4
<1>14. \A i \in DOMAIN p : ~About(p[i], k)
  BY <1>7 DEF About
<1>15. Stands(r, b, k, n, o)
  <2>1. Stands(p \o q, b, k, h + Len(p), o)
    BY <1>3, <1>12, <1>13, <1>14, StandsShift
  <2> QED BY <1>4, <1>13, <2>1
<1>16. Found(s, k, n) = o
  <2>1. Stream(s) = r
    BY <1>2, <1>4
  <2>2. Stands(Stream(s), objs[s][k], k, n, o)
    BY <1>11, <1>15, <2>1
  <2>3. Stream(s) \in Seq(ForServers \cup Answers)
    BY <1>5, <2>1
  <2> QED BY <2>2, <2>3, FoundStands
<1> QED BY <1>2, <1>4, <1>9, <1>10, <1>16

(* Whatever the clients, the router and the servers do, the variables keep *)
(* their types: no handler reads a field an event or a CommReqInfo has not.*)
THEOREM TypesHold == Spec => []RtrTypeOK
<1>1. Init => RtrTypeOK
  BY TypesInit
<1>2. RtrTypeOK /\ [Next]_vars => RtrTypeOK'
  BY TypesKept
<1> QED BY <1>1, <1>2, PTL DEF Spec

-----------------------------------------------------------------------------
(* The bookkeeping of a CommReqInfo: the groups that are not complete are  *)
(* counted by pending.                                                     *)
Mem(k, g) == Range(Members[k][g])
Open(x) == {g \in Groups(x.comm) : Range(x.respQ[g]) # Mem(x.comm, g)}

Ledger(x) ==
  /\ x.comm \in CommId
  /\ DOMAIN x.grpInfo = Groups(x.comm) /\ DOMAIN x.respQ = Groups(x.comm)
  /\ DOMAIN x.value = Groups(x.comm)
  /\ \A g \in Groups(x.comm) :
       /\ x.grpInfo[g] = Cardinality(Mem(x.comm, g))
       /\ x.respQ[g] \in Seq(Obj) /\ IsInjective(x.respQ[g])
       /\ Range(x.respQ[g]) \subseteq Mem(x.comm, g)
       /\ Range(x.respQ[g]) = Mem(x.comm, g) => x.value[g] = x.respQ[g]
  /\ Open(x) # {}
  /\ x.pending = Cardinality(Open(x))

Due(x, g, o) == g \in Groups(x.comm) /\ o \in Mem(x.comm, g) /\ o \notin Range(x.respQ[g])

LEMMA AppendNew ==
  ASSUME NEW S, NEW q \in Seq(S), NEW e \in S
  PROVE  /\ Range(Append(q, e)) = Range(q) \cup {e}
         /\ IsInjective(q) /\ e \notin Range(q) => IsInjective(Append(q, e))
<1>1. PICK a : a = Append(q, e)
  OBVIOUS
<1>2. /\ \A n \in DOMAIN a : (n \in DOMAIN q /\ a[n] = q[n]) \/ (n = Len(q) + 1 /\ a[n] = e)
      /\ \A n \in DOMAIN q : n \in DOMAIN a /\ a[n] = q[n]
      /\ Len(q) + 1 \in DOMAIN a /\ a[Len(q) + 1] = e
  BY <1>1, AppendAt
<1>3. Range(a) = Range(q) \cup {e}
  BY <1>2 DEF Range
<1>4. ASSUME IsInjective(q), e \notin Range(q), NEW m \in DOMAIN a, NEW n \in DOMAIN a, a[m] = a[n]
      PROVE  m = n
  <2>1. \A i \in DOMAIN q : q[i] # e
    BY <1>4 DEF Range
  <2>2. \A i, j \in DOMAIN q : q[i] = q[j] => i = j
    BY <1>4 DEF IsInjective
  <2> QED BY <1>2, <1>4, <2>1, <2>2
<1> QED BY <1>1, <1>3, <1>4 DEF IsInjective

LEMMA CountOf ==
  ASSUME NEW q \in Seq(Obj), IsInjective(q)
  PROVE  IsFiniteSet(Range(q)) /\ Cardinality(Range(q)) = Len(q)
<1>1. Len(q) \in Nat /\ DOMAIN q = 1 .. Len(q)
  OBVIOUS
<1>2. q \in [1 .. Len(q) -> Range(q)]
  BY <1>1 DEF Range
<1>3. q \in Injection(1 .. Len(q), Range(q))
  BY <1>1, <1>2 DEF Injection, IsInjective
<1>4. q \in Surjection(1 .. Len(q), Range(q))
  BY <1>1, <1>2 DEF Surjection, Range
<1>5. ExistsBijection(1 .. Len(q), Range(q))
  BY <1>3, <1>4 DEF ExistsBijection, Bijection
<1>6. IsFiniteSet(1 .. Len(q)) /\ Cardinality(1 .. Len(q)) = Len(q)
  <2>1. 1 \in Int /\ Len(q) \in Int
    BY <1>1
  <2>2. /\ IsFiniteSet(1 .. Len(q))
        /\ Cardinality(1 .. Len(q)) = IF 1 > Len(q) THEN 0 ELSE Len(q) - 1 + 1
    BY <2>1, FS_Interval
  <2> QED BY <1>1, <2>2
<1> QED BY <1>5, <1>6, FS_Bijection

LEMMA MemFacts ==
  ASSUME NEW k \in CommId, NEW g \in Groups(k)
  PROVE  /\ Mem(k, g) # {} /\ IsFiniteSet(Mem(k, g)) /\ Mem(k, g) \subseteq Obj
         /\ Cardinality(Mem(k, g)) = Len(Members[k][g])
<1>1. PICK q \in Seq(Obj) : q = Members[k][g] /\ q # <<>> /\ IsInjective(q)
  BY GroupFacts
<1>2. \A n \in DOMAIN q : q[n] \in Obj
  OBVIOUS
<1>3. Range(q) \subseteq Obj
  BY <1>2 DEF Range
<1>4. 1 \in DOMAIN q
  BY <1>1
<1>5. Range(q) # {}
  BY <1>4 DEF Range
<1>6. IsFiniteSet(Range(q)) /\ Cardinality(Range(q)) = Len(q)
  BY <1>1, CountOf
<1> QED BY <1>1, <1>3, <1>5, <1>6 DEF Mem

(* A queue of distinct members is as long as the group when all are in it: *)
(* why it is enough that RtrCommRespEvent::process compares the sizes.     *)
LEMMA FullByLength ==
  ASSUME NEW q \in Seq(Obj), IsInjective(q), NEW T, IsFiniteSet(T), Range(q) \subseteq T
  PROVE  Len(q) = Cardinality(T) <=> Range(q) = T
<1>1. Cardinality(Range(q)) = Len(q)
  BY CountOf
<1>2. Cardinality(Range(q)) = Cardinality(T) => Range(q) = T
  <2>1. Range(q) \in SUBSET T
    OBVIOUS
  <2> QED BY <2>1, FS_Subset
<1> QED BY <1>1, <1>2

LEMMA OpenFinite ==
  ASSUME NEW x, x.comm \in CommId
  PROVE  IsFiniteSet(Open(x)) /\ Open(x) \subseteq Groups(x.comm)
<1>1. PICK n \in Nat : Groups(x.comm) = 1 .. n
  BY GroupFacts
<1>2. IsFiniteSet(1 .. n)
  <2>1. 1 \in Int /\ n \in Int
    OBVIOUS
  <2> QED BY <2>1, FS_Interval
<1>3. Open(x) \subseteq Groups(x.comm)
  BY DEF Open
<1>4. Open(x) \in SUBSET (1 .. n)
  BY <1>1, <1>3
<1> QED BY <1>2, <1>3, <1>4, FS_Subset

(* A response that is due, and the queue of its group.                     *)
LEMMA DueFacts ==
  ASSUME NEW x, Ledger(x), NEW g, NEW o, Due(x, g, o)
  PROVE  LET q == Append(x.respQ[g], o)
         IN  /\ q \in Seq(Obj) /\ IsInjective(q)
             /\ Range(q) = Range(x.respQ[g]) \cup {o}
             /\ Range(q) \subseteq Mem(x.comm, g)
             /\ Len(q) = x.grpInfo[g] <=> Range(q) = Mem(x.comm, g)
             /\ g \in Open(x)
<1>1. /\ x.comm \in CommId /\ g \in Groups(x.comm) /\ o \in Mem(x.comm, g)
      /\ o \notin Range(x.respQ[g])
      /\ x.respQ[g] \in Seq(Obj) /\ IsInjective(x.respQ[g]) /\ Range(x.respQ[g]) \subseteq Mem(x.comm, g)
      /\ x.grpInfo[g] = Cardinality(Mem(x.comm, g))
  BY DEF Ledger, Due
<1>2. PICK T : T = Mem(x.comm, g)
  OBVIOUS
<1>3. IsFiniteSet(T) /\ T \subseteq Obj
  BY <1>1, <1>2, MemFacts
<1>4. PICK r \in Seq(Obj) : r = x.respQ[g]
  BY <1>1
<1>5. o \in Obj
  BY <1>1, <1>2, <1>3
<1>6. PICK q : q = Append(r, o)
  OBVIOUS
<1>7. q \in Seq(Obj) /\ IsInjective(q) /\ Range(q) = Range(r) \cup {o}
  BY <1>1, <1>4, <1>5, <1>6, AppendNew, AppendAt
<1>8. Range(q) \subseteq T
  BY <1>1, <1>2, <1>4, <1>7
<1>9. Len(q) = Cardinality(T) <=> Range(q) = T
  BY <1>3, <1>7, <1>8, FullByLength
<1>10. g \in Open(x)
  BY <1>1 DEF Open
<1> QED BY <1>1, <1>2, <1>4, <1>6, <1>7, <1>8, <1>9, <1>10

(* A response that leaves its group open.                                  *)
LEMMA CollectOK ==
  ASSUME NEW x, Ledger(x), NEW g, NEW o, Due(x, g, o), NEW y,
         Len(Append(x.respQ[g], o)) # x.grpInfo[g],
         y.comm = x.comm, y.grpInfo = x.grpInfo, y.value = x.value, y.pending = x.pending,
         y.respQ = [x.respQ EXCEPT ![g] = Append(x.respQ[g], o)]
  PROVE  Ledger(y)
<1>1. PICK q : q = Append(x.respQ[g], o)
  OBVIOUS
<1>2. /\ q \in Seq(Obj) /\ IsInjective(q) /\ Range(q) \subseteq Mem(x.comm, g)
      /\ Range(q) # Mem(x.comm, g) /\ g \in Open(x)
  BY <1>1, DueFacts
<1>3. /\ DOMAIN y.respQ = Groups(x.comm) /\ y.respQ[g] = q
      /\ \A h \in Groups(x.comm) : h # g => y.respQ[h] = x.respQ[h]
  BY <1>1 DEF Ledger, Due
<1>4. Open(y) = Open(x)
  BY <1>2, <1>3 DEF Open
<1> QED BY <1>2, <1>3, <1>4 DEF Ledger

(* A response that completes its group closes that group and no other.     *)
LEMMA OneGroupLess ==
  ASSUME NEW x, Ledger(x), NEW g \in Open(x)
  PROVE  /\ Cardinality(Open(x) \ {g}) = x.pending - 1 /\ x.pending \in Nat
         /\ x.pending = 1 <=> Open(x) = {g}
<1>1. IsFiniteSet(Open(x)) /\ x.pending = Cardinality(Open(x))
  BY OpenFinite DEF Ledger
<1>2. IsFiniteSet(Open(x) \ {g}) /\ Cardinality(Open(x) \ {g}) = Cardinality(Open(x)) - 1
  BY <1>1, FS_RemoveElement
<1>3. Cardinality(Open(x)) \in Nat
  BY <1>1, FS_CardinalityType
<1>4. Open(x) \ {g} = {} <=> Cardinality(Open(x) \ {g}) = 0
  BY <1>2, FS_EmptySet
<1>5. Open(x) \ {g} = {} <=> Open(x) = {g}
  OBVIOUS
<1> QED BY <1>1, <1>2, <1>3, <1>4, <1>5

LEMMA CompleteOK ==
  ASSUME NEW x, Ledger(x), NEW g, NEW o, Due(x, g, o), NEW y,
         Len(Append(x.respQ[g], o)) = x.grpInfo[g], x.pending > 1,
         y.comm = x.comm, y.grpInfo = x.grpInfo, y.pending = x.pending - 1,
         y.respQ = [x.respQ EXCEPT ![g] = Append(x.respQ[g], o)],
         y.value = [x.value EXCEPT ![g] = Append(x.respQ[g], o)]
  PROVE  Ledger(y)
<1>1. PICK q : q = Append(x.respQ[g], o)
  OBVIOUS
<1>2. /\ q \in Seq(Obj) /\ IsInjective(q) /\ Range(q) = Mem(x.comm, g) /\ g \in Open(x)
  BY <1>1, DueFacts
<1>3. /\ DOMAIN y.respQ = Groups(x.comm) /\ DOMAIN y.value = Groups(x.comm)
      /\ y.respQ[g] = q /\ y.value[g] = q
      /\ \A h \in Groups(x.comm) : h # g => y.respQ[h] = x.respQ[h] /\ y.value[h] = x.value[h]
  BY <1>1 DEF Ledger, Due
<1>4. Open(y) = Open(x) \ {g}
  BY <1>2, <1>3 DEF Open
<1>5. Open(y) # {} /\ y.pending = Cardinality(Open(y))
  <2>1. /\ Cardinality(Open(x) \ {g}) = x.pending - 1 /\ x.pending \in Nat
        /\ x.pending = 1 <=> Open(x) = {g}
    BY <1>2, OneGroupLess
  <2>2. Open(x) # {g}
    BY <2>1
  <2> QED BY <1>2, <1>4, <2>1, <2>2
<1>6. ASSUME NEW h \in Groups(x.comm)
      PROVE  /\ y.grpInfo[h] = Cardinality(Mem(x.comm, h))
             /\ y.respQ[h] \in Seq(Obj) /\ IsInjective(y.respQ[h])
             /\ Range(y.respQ[h]) \subseteq Mem(x.comm, h)
             /\ Range(y.respQ[h]) = Mem(x.comm, h) => y.value[h] = y.respQ[h]
  <2>1. y.grpInfo[h] = Cardinality(Mem(x.comm, h))
    BY DEF Ledger
  <2>2. CASE h = g
    <3>1. y.respQ[h] = q /\ y.value[h] = q
      BY <1>3, <2>2
    <3> QED BY <1>2, <2>1, <2>2, <3>1
  <2>3. CASE h # g
    <3>1. y.respQ[h] = x.respQ[h] /\ y.value[h] = x.value[h]
      BY <1>3, <2>3
    <3> QED BY <2>1, <3>1 DEF Ledger
  <2> QED BY <2>2, <2>3
<1>7. y.comm \in CommId /\ DOMAIN y.grpInfo = Groups(x.comm)
  BY DEF Ledger
<1> QED BY <1>3, <1>5, <1>6, <1>7 DEF Ledger

(* With the last response of the last group nothing else is due.           *)
LEMMA LastDue ==
  ASSUME NEW x, Ledger(x), NEW g, NEW o, Due(x, g, o),
         Len(Append(x.respQ[g], o)) = x.grpInfo[g], x.pending = 1
  PROVE  \A h, p : Due(x, h, p) => h = g /\ p = o
<1>1. Range(x.respQ[g]) \cup {o} = Mem(x.comm, g) /\ g \in Open(x)
  BY DueFacts
<1>2. Open(x) = {g}
  BY <1>1, OneGroupLess
<1>3. \A h, p : Due(x, h, p) => h \in Open(x)
  BY DEF Due, Open
<1> QED BY <1>1, <1>2, <1>3 DEF Due

(* The CommReqInfo of a request that the router takes.                     *)
LEMMA NewLedger ==
  ASSUME NEW c \in Chan, NEW m \in AskedFor, Supported(m.op, m.comm)
  PROVE  LET y == AsInfo(NewInfo(c, m))
         IN  /\ Ledger(y) /\ y.comm = m.comm
             /\ \A g \in Groups(m.comm) : Range(y.respQ[g]) = {}
<1>1. PICK k \in CommId : k = m.comm
  BY DEF AskedFor
<1>2. PICK x : x = NewInfo(c, m)
  OBVIOUS
<1>3. PICK y : y = AsInfo(x)
  OBVIOUS
<1>4. x # Free /\ x.op = m.op /\ x.comm = k /\ x.pending = Len(Members[k])
  BY <1>1, <1>2, NewInfoTypes, FreeAssumption DEF NewInfo
<1>5. /\ Len(Members[k]) \in Nat \ {0} /\ Groups(k) = 1 .. Len(Members[k])
      /\ \A g \in Groups(k) : Cardinality(Mem(k, g)) = Len(Members[k][g]) /\ Mem(k, g) # {}
  BY GroupFacts, MemFacts
<1>6. <<>> \in Seq(Obj) /\ Range(<<>>) = {} /\ IsInjective(<<>>)
  BY Singletons
<1>7. /\ y.comm = k /\ y.pending = Len(Members[k])
      /\ DOMAIN y.grpInfo = Groups(k) /\ DOMAIN y.respQ = Groups(k) /\ DOMAIN y.value = Groups(k)
      /\ \A g \in Groups(k) : y.grpInfo[g] = Len(Members[k][g]) /\ y.respQ[g] = <<>>
  <2>1. CASE m.op \in OneObj
    <3>1. Len(Members[k]) = 1 /\ Len(Members[k][1]) = 1
      BY <1>1, <2>1 DEF Supported
    <3>2. Groups(k) = {1}
      BY <1>5, <3>1
    <3>3. /\ y.comm = k /\ y.pending = Len(Members[k]) /\ y.grpInfo = <<1>>
          /\ y.respQ = <<<<>>>> /\ y.value = <<<<>>>>
      BY <1>3, <1>4, <2>1 DEF AsInfo
    <3>4. DOMAIN <<1>> = {1} /\ DOMAIN <<<<>>>> = {1} /\ <<1>>[1] = 1 /\ <<<<>>>>[1] = <<>>
      OBVIOUS
    <3> QED BY <3>1, <3>2, <3>3, <3>4
  <2>2. CASE m.op \notin OneObj
    <3>1. /\ y.comm = k /\ y.pending = Len(Members[k]) /\ y.grpInfo = x.grpInfo
          /\ y.respQ = x.respQ /\ y.value = x.value
      BY <1>3, <1>4, <2>2 DEF AsInfo
    <3>2. /\ x.grpInfo = [g \in Groups(k) |-> Len(Members[k][g])]
          /\ x.respQ = [g \in Groups(k) |-> <<>>] /\ x.value = [g \in Groups(k) |-> <<>>]
      BY <1>1, <1>2, <2>2 DEF NewInfo
    <3> QED BY <3>1, <3>2
  <2> QED BY <2>1, <2>2
<1>8. Open(y) = Groups(k)
  BY <1>5, <1>6, <1>7 DEF Open
<1>9. Cardinality(Groups(k)) = Len(Members[k]) /\ Groups(k) # {}
  <2>1. PICK n \in Nat \ {0} : n = Len(Members[k])
    BY <1>5
  <2>2. 1 \in Int /\ n \in Int /\ 1 \in 1 .. n
    OBVIOUS
  <2>3. Cardinality(1 .. n) = IF 1 > n THEN 0 ELSE n - 1 + 1
    BY <2>2, FS_Interval
  <2>4. Cardinality(1 .. n) = n
    BY <2>3
  <2> QED BY <1>5, <2>1, <2>2, <2>4
<1>10. \A g \in Groups(k) : Range(y.respQ[g]) = {}
  BY <1>6, <1>7
<1>11. Ledger(y)
  BY <1>5, <1>6, <1>7, <1>8, <1>9, <1>10 DEF Ledger
<1> QED BY <1>1, <1>2, <1>3, <1>7, <1>10, <1>11

(* What Promise!InfoOK says of a CommReqInfo.                              *)
LEMMA LedgerIs ==
  ASSUME NEW x \in Info
  PROVE  Promise!InfoOK(AsInfo(x)) <=> Ledger(AsInfo(x))
<1>1. x # Free /\ x.comm \in CommId /\ x.respQ \in Seq(Seq(Obj))
  BY FreeAssumption DEF Info
<1>2. PICK y : y = AsInfo(x)
  OBVIOUS
<1>3. y.comm = x.comm /\ y.respQ = IF x.op \in OneObj THEN <<<<>>>> ELSE x.respQ
  BY <1>1, <1>2 DEF AsInfo
<1>4. PICK k \in CommId : k = y.comm
  BY <1>1, <1>3
<1>5. \A g \in DOMAIN y.respQ : y.respQ[g] \in Seq(Obj)
  <2>1. y.respQ \in Seq(Seq(Obj))
    <3>1. <<>> \in Seq(Obj)
      OBVIOUS
    <3>2. <<<<>>>> \in Seq(Seq(Obj))
      BY <3>1
    <3> QED BY <1>1, <1>3, <3>2
  <2> QED BY <2>1
<1>6. /\ Promise!Groups(y.comm) = Groups(y.comm)
      /\ \A g \in Groups(y.comm) : MemberSets[y.comm][g] = Mem(y.comm, g)
  BY <1>4 DEF Promise!Groups, Groups, Mem, MemberSets
<1>7. \A q : Promise!Range(q) = Range(q) /\ (Promise!IsInjective(q) <=> IsInjective(q))
  BY DEF Promise!Range, Range, Promise!IsInjective, IsInjective
<1>8. Promise!OpenGroups(y) = Open(y)
  BY <1>6, <1>7 DEF Promise!OpenGroups, Open
<1>9. \A T : Promise!Cardinality(T) = Cardinality(T)
  BY DEF Promise!Cardinality, Cardinality
<1>10. Promise!InfoOK(y) <=>
         /\ DOMAIN y.grpInfo = Groups(y.comm) /\ DOMAIN y.respQ = Groups(y.comm)
         /\ DOMAIN y.value = Groups(y.comm)
         /\ \A g \in Groups(y.comm) :
              /\ y.grpInfo[g] = Cardinality(Mem(y.comm, g))
              /\ IsInjective(y.respQ[g])
              /\ Range(y.respQ[g]) \subseteq Mem(y.comm, g)
              /\ Range(y.respQ[g]) = Mem(y.comm, g) => y.value[g] = y.respQ[g]
         /\ Open(y) # {}
         /\ y.pending = Cardinality(Open(y))
  <2>1. ASSUME NEW g \in Groups(y.comm)
        PROVE  (/\ y.grpInfo[g] = Promise!Cardinality(MemberSets[y.comm][g])
                /\ Promise!IsInjective(y.respQ[g])
                /\ Promise!Range(y.respQ[g]) \subseteq MemberSets[y.comm][g]
                /\ Promise!Range(y.respQ[g]) = MemberSets[y.comm][g] => y.value[g] = y.respQ[g])
               <=>
               (/\ y.grpInfo[g] = Cardinality(Mem(y.comm, g))
                /\ IsInjective(y.respQ[g])
                /\ Range(y.respQ[g]) \subseteq Mem(y.comm, g)
                /\ Range(y.respQ[g]) = Mem(y.comm, g) => y.value[g] = y.respQ[g])
    <3>1. MemberSets[y.comm][g] = Mem(y.comm, g)
      BY <1>6
    <3>2. Promise!Cardinality(MemberSets[y.comm][g]) = Cardinality(Mem(y.comm, g))
      BY <1>9, <3>1, Zenon
    <3>3. /\ Promise!IsInjective(y.respQ[g]) <=> IsInjective(y.respQ[g])
          /\ Promise!Range(y.respQ[g]) = Range(y.respQ[g])
      BY <1>7, Zenon
    <3> QED BY <3>1, <3>2, <3>3, Zenon
  <2>2. Promise!Cardinality(Promise!OpenGroups(y)) = Cardinality(Open(y))
    BY <1>8, <1>9, Zenon
  <2>3. Promise!Groups(y.comm) = Groups(y.comm)
    BY <1>6
  <2> QED BY <1>8, <2>1, <2>2, <2>3, Zenon DEF Promise!InfoOK
<1>11. Promise!InfoOK(y) <=> Ledger(y)
  <2>1. DOMAIN y.respQ = Groups(y.comm) => \A g \in Groups(y.comm) : y.respQ[g] \in Seq(Obj)
    BY <1>5
  <2>2. y.comm \in CommId
    BY <1>4
  <2> QED BY <1>10, <2>1, <2>2 DEF Ledger
<1> QED BY <1>2, <1>11

-----------------------------------------------------------------------------
(* The tokens of a sequence of messages.                                   *)
LEMMA TokenAt ==
  ASSUME NEW q, NEW type
  PROVE  /\ \A n \in DOMAIN q : q[n].type = type => Token(q[n]) \in Tokens(q, type)
         /\ \A t \in Tokens(q, type) : \E n \in DOMAIN q : q[n].type = type /\ t = Token(q[n])
BY DEF Tokens, Places

LEMMA OnceIs ==
  ASSUME NEW q, NEW type
  PROVE  Once(q, type) <=> \A m, n \in DOMAIN q : q[m].type = type /\ q[n].type = type
                                                 /\ Token(q[m]) = Token(q[n]) => m = n
BY DEF Once, Places

LEMMA NoTokens ==
  ASSUME NEW q, NEW type, \A n \in DOMAIN q : q[n].type # type
  PROVE  Tokens(q, type) = {} /\ Once(q, type)
BY DEF Tokens, Once, Places

LEMMA JoinTokens ==
  ASSUME NEW T, NEW p \in Seq(T), NEW q \in Seq(T), NEW type
  PROVE  /\ Tokens(p \o q, type) = Tokens(p, type) \cup Tokens(q, type)
         /\ Once(p, type) /\ Once(q, type) /\ Tokens(p, type) \cap Tokens(q, type) = {}
            => Once(p \o q, type)
<1>1. PICK r : r = p \o q
  OBVIOUS
<1>2. /\ Len(p) \in Nat
      /\ \A n \in DOMAIN r : \/ n \in DOMAIN p /\ r[n] = p[n]
                             \/ n - Len(p) \in DOMAIN q /\ r[n] = q[n - Len(p)]
      /\ \A n \in DOMAIN p : n \in DOMAIN r /\ r[n] = p[n]
      /\ \A n \in DOMAIN q : n + Len(p) \in DOMAIN r /\ r[n + Len(p)] = q[n]
      /\ r \in Seq(T)
  BY <1>1, JoinAt
<1>3. Tokens(r, type) \subseteq Tokens(p, type) \cup Tokens(q, type)
  <2> SUFFICES ASSUME NEW t \in Tokens(r, type) PROVE t \in Tokens(p, type) \cup Tokens(q, type)
    OBVIOUS
  <2>1. PICK n \in DOMAIN r : r[n].type = type /\ t = Token(r[n])
    BY TokenAt
  <2> QED BY <1>2, <2>1, TokenAt
<1>4. Tokens(p, type) \subseteq Tokens(r, type)
  <2> SUFFICES ASSUME NEW t \in Tokens(p, type) PROVE t \in Tokens(r, type)
    OBVIOUS
  <2>1. PICK n \in DOMAIN p : p[n].type = type /\ t = Token(p[n])
    BY TokenAt
  <2> QED BY <1>2, <2>1, TokenAt
<1>5. Tokens(q, type) \subseteq Tokens(r, type)
  <2> SUFFICES ASSUME NEW t \in Tokens(q, type) PROVE t \in Tokens(r, type)
    OBVIOUS
  <2>1. PICK n \in DOMAIN q : q[n].type = type /\ t = Token(q[n])
    BY TokenAt
  <2>2. n + Len(p) \in DOMAIN r /\ r[n + Len(p)] = q[n]
    BY <1>2
  <2> QED BY <2>1, <2>2, TokenAt
<1>6. ASSUME Once(p, type), Once(q, type), Tokens(p, type) \cap Tokens(q, type) = {},
             NEW m \in DOMAIN r, NEW n \in DOMAIN r, r[m].type = type, r[n].type = type,
             Token(r[m]) = Token(r[n])
      PROVE  m = n
  <2>1. CASE m \in DOMAIN p /\ r[m] = p[m] /\ n \in DOMAIN p /\ r[n] = p[n]
    BY <1>6, <2>1, OnceIs
  <2>2. CASE m \in DOMAIN p /\ r[m] = p[m] /\ n - Len(p) \in DOMAIN q /\ r[n] = q[n - Len(p)]
    BY <1>6, <2>2, TokenAt
  <2>3. CASE n \in DOMAIN p /\ r[n] = p[n] /\ m - Len(p) \in DOMAIN q /\ r[m] = q[m - Len(p)]
    BY <1>6, <2>3, TokenAt
  <2>4. CASE /\ m - Len(p) \in DOMAIN q /\ r[m] = q[m - Len(p)]
             /\ n - Len(p) \in DOMAIN q /\ r[n] = q[n - Len(p)]
    <3>1. m - Len(p) = n - Len(p)
      BY <1>6, <2>4, OnceIs
    <3>2. m \in Int /\ n \in Int
      BY <1>2
    <3> QED BY <1>2, <3>1, <3>2
  <2> QED BY <1>2, <2>1, <2>2, <2>3, <2>4
<1> QED BY <1>1, <1>3, <1>4, <1>5, <1>6, OnceIs

LEMMA TailTokens ==
  ASSUME NEW T, NEW q \in Seq(T), q # <<>>, NEW type, Once(q, type)
  PROVE  /\ Once(Tail(q), type) /\ Tokens(Tail(q), type) \subseteq Tokens(q, type)
         /\ q[1].type # type => Tokens(Tail(q), type) = Tokens(q, type)
         /\ q[1].type = type => /\ Token(q[1]) \in Tokens(q, type)
                                /\ Tokens(Tail(q), type) = Tokens(q, type) \ {Token(q[1])}
<1>1. PICK r \in Seq(T) : r = Tail(q)
  BY TailAt
<1>2. /\ 1 \in DOMAIN q
      /\ \A n \in DOMAIN r : n + 1 \in DOMAIN q /\ r[n] = q[n + 1] /\ n \in Nat \ {0}
      /\ \A n \in DOMAIN q : n = 1 \/ (n - 1 \in DOMAIN r /\ r[n - 1] = q[n])
  <2>1. /\ 1 \in DOMAIN q
        /\ \A n \in DOMAIN r : n + 1 \in DOMAIN q /\ r[n] = q[n + 1]
        /\ \A n \in DOMAIN q : n = 1 \/ n - 1 \in DOMAIN r
    BY <1>1, TailAt
  <2>2. \A n \in DOMAIN r : n \in Nat \ {0}
    OBVIOUS
  <2>3. \A n \in DOMAIN q : n \in Nat /\ (n - 1) + 1 = n
    OBVIOUS
  <2>4. ASSUME NEW n \in DOMAIN q, n # 1
        PROVE  n - 1 \in DOMAIN r /\ r[n - 1] = q[n]
    <3>1. n - 1 \in DOMAIN r
      BY <2>1, <2>4
    <3>2. r[n - 1] = q[(n - 1) + 1]
      BY <2>1, <3>1
    <3> QED BY <2>3, <3>1, <3>2
  <2> QED BY <2>1, <2>2, <2>4
<1>3. ASSUME NEW m \in DOMAIN r, NEW n \in DOMAIN r, r[m].type = type, r[n].type = type,
             Token(r[m]) = Token(r[n])
      PROVE  m = n
  <2>1. m + 1 = n + 1
    BY <1>2, <1>3, OnceIs
  <2> QED BY <1>2, <2>1
<1>4. Tokens(r, type) \subseteq Tokens(q, type)
  <2> SUFFICES ASSUME NEW t \in Tokens(r, type) PROVE t \in Tokens(q, type)
    OBVIOUS
  <2>1. PICK n \in DOMAIN r : r[n].type = type /\ t = Token(r[n])
    BY TokenAt
  <2>2. n + 1 \in DOMAIN q /\ r[n] = q[n + 1]
    BY <1>2
  <2> QED BY <2>1, <2>2, TokenAt
<1>5. ASSUME NEW t \in Tokens(q, type)
      PROVE  t \in Tokens(r, type) \/ (q[1].type = type /\ t = Token(q[1]))
  <2>1. PICK n \in DOMAIN q : q[n].type = type /\ t = Token(q[n])
    BY <1>5, TokenAt
  <2> QED BY <1>2, <2>1, TokenAt
<1>6. ASSUME q[1].type = type
      PROVE  Token(q[1]) \in Tokens(q, type) /\ Token(q[1]) \notin Tokens(r, type)
  <2>1. ASSUME Token(q[1]) \in Tokens(r, type) PROVE FALSE
    <3>1. PICK n \in DOMAIN r : r[n].type = type /\ Token(q[1]) = Token(r[n])
      BY <2>1, TokenAt
    <3>2. n + 1 \in DOMAIN q /\ r[n] = q[n + 1] /\ n \in Nat \ {0}
      BY <1>2
    <3>3. 1 = n + 1
      BY <1>2, <1>6, <3>1, <3>2, OnceIs
    <3> QED BY <3>2, <3>3
  <2> QED BY <1>2, <1>6, <2>1, TokenAt
<1>7. Once(r, type)
  BY <1>3, OnceIs
<1>8. Tokens(r, type) = IF q[1].type = type THEN Tokens(q, type) \ {Token(q[1])} ELSE Tokens(q, type)
  BY <1>4, <1>5, <1>6
<1> QED BY <1>1, <1>4, <1>6, <1>7, <1>8

LEMMA AppendTokens ==
  ASSUME NEW T, NEW q \in Seq(T), NEW e \in T, NEW type, Once(q, type)
  PROVE  /\ e.type # type => Tokens(Append(q, e), type) = Tokens(q, type) /\ Once(Append(q, e), type)
         /\ e.type = type => /\ Tokens(Append(q, e), type) = Tokens(q, type) \cup {Token(e)}
                             /\ Token(e) \notin Tokens(q, type) => Once(Append(q, e), type)
<1>1. <<e>> \in Seq(T) /\ DOMAIN <<e>> = {1} /\ <<e>>[1] = e
  OBVIOUS
<1>2. PICK p \in Seq(T) : p = <<e>>
  BY <1>1
<1>3. Append(q, e) = q \o p
  BY <1>2
<1>4. /\ Tokens(q \o p, type) = Tokens(q, type) \cup Tokens(p, type)
      /\ Once(p, type) /\ Tokens(q, type) \cap Tokens(p, type) = {} => Once(q \o p, type)
  BY JoinTokens
<1>5. Once(p, type)
  BY <1>1, <1>2, OnceIs
<1>6. CASE e.type # type
  <2>1. Tokens(p, type) = {}
    BY <1>1, <1>2, <1>6, NoTokens
  <2> QED BY <1>3, <1>4, <1>5, <1>6, <2>1
<1>7. CASE e.type = type
  <2>1. Tokens(p, type) = {Token(e)}
    BY <1>1, <1>2, <1>7, TokenAt
  <2> QED BY <1>3, <1>4, <1>5, <1>7, <2>1
<1> QED BY <1>6, <1>7

-----------------------------------------------------------------------------
(* Tallied, in terms of one server's queue, work and responses.            *)
Neat(q, W, b) ==
  /\ Once(q, "CommReq") /\ Once(b, "CommResp")
  /\ Tokens(q, "CommReq") \cap W = {}
  /\ (Tokens(q, "CommReq") \cup W) \cap Tokens(b, "CommResp") = {}

All(q, W, b) == Tokens(q, "CommReq") \cup W \cup Tokens(b, "CommResp")

DueIn(x, t) == x # Free /\ x.op = t.op /\ Due(AsInfo(x), t.grp, t.obj)

LEMMA ExpectedIs ==
  \A t : /\ Expected(t) <=> DueIn(info[t.info], t)
         /\ Expected(t)' <=> DueIn(info'[t.info], t)
<1>1. ASSUME NEW t
      PROVE  Expected(t) <=> DueIn(info[t.info], t)
  BY DEF Expected, DueIn, Due, Mem
<1>2. ASSUME NEW t
      PROVE  Expected(t)' <=> DueIn(info'[t.info], t)
  BY DEF Expected, DueIn, Due, Mem
<1> QED BY <1>1, <1>2

LEMMA TalliedIs ==
  ASSUME RtrTypeOK
  PROVE  Tallied <=> /\ \A s \in Server :
                          /\ Neat(Queue(s), work[s], Back(s))
                          /\ \A t \in All(Queue(s), work[s], Back(s)) : Home[t.obj] = s /\ DueIn(info[t.info], t)
                     /\ \A i \in InfoId : info[i] # Free => Ledger(AsInfo(info[i]))
<1>1. \A i \in InfoId : info[i] # Free => (Promise!InfoOK(AsInfo(info[i])) <=> Ledger(AsInfo(info[i])))
  BY LedgerIs DEF RtrTypeOK
<1>2. ASSUME NEW s \in Server
      PROVE  (/\ Once(Queue(s), "CommReq") /\ Once(Back(s), "CommResp")
              /\ Even(s, Asked(s), work[s], Returned(s)))
             <=> /\ Neat(Queue(s), work[s], Back(s))
                 /\ \A t \in All(Queue(s), work[s], Back(s)) : Home[t.obj] = s /\ DueIn(info[t.info], t)
  BY ExpectedIs DEF Neat, All, Even, Asked, Returned
<1> QED BY <1>1, <1>2 DEF Tallied

LEMMA TalliedNext ==
  ASSUME RtrTypeOK',
         \A s \in Server :
           /\ Neat(Queue(s)', work'[s], Back(s)')
           /\ \A t \in All(Queue(s)', work'[s], Back(s)') : Home[t.obj] = s /\ DueIn(info'[t.info], t),
         \A i \in InfoId : info'[i] # Free => Ledger(AsInfo(info'[i]))
  PROVE  Tallied'
<1>1. \A i \in InfoId : info'[i] # Free => Promise!InfoOK(AsInfo(info'[i]))
  BY LedgerIs DEF RtrTypeOK
<1>2. ASSUME NEW s \in Server
      PROVE  (/\ Once(Queue(s), "CommReq") /\ Once(Back(s), "CommResp")
              /\ Even(s, Asked(s), work[s], Returned(s)))'
  BY ExpectedIs DEF Neat, All, Even, Asked, Returned
<1> QED BY <1>1, <1>2 DEF Tallied

(* Steps that move tokens about, or lose them.                             *)
LEMMA TallyMoved ==
  ASSUME RtrTypeOK, RtrTypeOK', Tallied, UNCHANGED info,
         \A s \in Server : /\ Neat(Queue(s)', work'[s], Back(s)')
                           /\ All(Queue(s)', work'[s], Back(s)') \subseteq All(Queue(s), work[s], Back(s))
  PROVE  Tallied'
<1>1. /\ \A s \in Server : \A t \in All(Queue(s), work[s], Back(s)) :
           Home[t.obj] = s /\ DueIn(info[t.info], t)
      /\ \A i \in InfoId : info[i] # Free => Ledger(AsInfo(info[i]))
  BY TalliedIs
<1> QED BY <1>1, TalliedNext

LEMMA SameTokens ==
  ASSUME NEW q, NEW p, NEW W, NEW b, NEW d, Neat(q, W, b),
         Tokens(p, "CommReq") = Tokens(q, "CommReq"), Once(p, "CommReq"),
         Tokens(d, "CommResp") = Tokens(b, "CommResp"), Once(d, "CommResp")
  PROVE  Neat(p, W, d) /\ All(p, W, d) = All(q, W, b)
BY DEF Neat, All

(* A server takes a request.                                               *)
LEMMA TakenTokens ==
  ASSUME NEW T, NEW q \in Seq(T), NEW W, NEW b, Neat(q, W, b), q # <<>>, q[1].type = "CommReq"
  PROVE  /\ Neat(Tail(q), W \cup {Token(q[1])}, b)
         /\ All(Tail(q), W \cup {Token(q[1])}, b) \subseteq All(q, W, b)
<1>1. /\ Once(Tail(q), "CommReq") /\ Token(q[1]) \in Tokens(q, "CommReq")
      /\ Tokens(Tail(q), "CommReq") = Tokens(q, "CommReq") \ {Token(q[1])}
  BY TailTokens DEF Neat
<1> QED BY <1>1 DEF Neat, All

(* It answers one.                                                         *)
LEMMA RepliedTokens ==
  ASSUME NEW q, NEW W, NEW T, NEW b \in Seq(T), NEW m \in T, Neat(q, W, b),
         m.type = "CommResp", Token(m) \in W
  PROVE  /\ Neat(q, W \ {Token(m)}, Append(b, m))
         /\ All(q, W \ {Token(m)}, Append(b, m)) \subseteq All(q, W, b)
<1>1. Token(m) \notin Tokens(b, "CommResp") /\ Token(m) \notin Tokens(q, "CommReq")
  BY DEF Neat
<1>2. /\ Tokens(Append(b, m), "CommResp") = Tokens(b, "CommResp") \cup {Token(m)}
      /\ Once(Append(b, m), "CommResp")
  BY <1>1, AppendTokens DEF Neat
<1> QED BY <1>1, <1>2 DEF Neat, All

(* The router reads what comes from a server.                              *)
LEMMA ReadTokens ==
  ASSUME NEW q, NEW W, NEW T, NEW b \in Seq(T), Neat(q, W, b), b # <<>>
  PROVE  /\ Neat(q, W, Tail(b)) /\ All(q, W, Tail(b)) \subseteq All(q, W, b)
         /\ b[1].type = "CommResp" => /\ Token(b[1]) \in All(q, W, b)
                                      /\ Token(b[1]) \notin All(q, W, Tail(b))
<1>1. /\ Once(Tail(b), "CommResp") /\ Tokens(Tail(b), "CommResp") \subseteq Tokens(b, "CommResp")
      /\ b[1].type = "CommResp" => /\ Token(b[1]) \in Tokens(b, "CommResp")
                                   /\ Tokens(Tail(b), "CommResp") = Tokens(b, "CommResp") \ {Token(b[1])}
  BY TailTokens DEF Neat
<1> QED BY <1>1 DEF Neat, All

LEMMA BackTypes ==
  ASSUME RtrTypeOK, NEW s \in Server
  PROVE  Back(s) \in Seq(ForRouter)
<1>1. <<>> \in Seq(ForRouter)
  OBVIOUS
<1> QED BY <1>1 DEF Back, RtrTypeOK

LEMMA BackUnchanged ==
  ASSUME UNCHANGED srvChan,
         \A s \in Server : srvChan[s] # NoChan => inq'[srvChan[s]] = inq[srvChan[s]]
  PROVE  \A s \in Server : Back(s)' = Back(s)
BY DEF Back

LEMMA ClientRead ==
  ASSUME RtrTypeOK, Plugged, NEW c \in Chan, NEW type, Receive(c, "client", type), UNCHANGED srvChan
  PROVE  \A s \in Server : Back(s)' = Back(s)
<1>1. kind[c] = "client" /\ \A d \in Chan : d # c => inq'[d] = inq[d]
  BY ReceiveFacts DEF RtrTypeOK
<1>2. \A s \in Server : srvChan[s] # NoChan => srvChan[s] \in Chan /\ srvChan[s] # c
  BY <1>1 DEF Plugged, RtrTypeOK
<1> QED BY <1>1, <1>2, BackUnchanged

LEMMA ServerRead ==
  ASSUME RtrTypeOK, Plugged, Linked, NEW c \in Chan, NEW type, Receive(c, "server", type), UNCHANGED srvChan
  PROVE  \E s \in Server :
           /\ srvChan[s] = c /\ Back(s) # <<>> /\ Back(s)[1] = Head(inq[c]) /\ Back(s)' = Tail(Back(s))
           /\ \A t \in Server : t # s => Back(t)' = Back(t)
<1>1. /\ kind[c] = "server" /\ inq[c] # <<>> /\ inq[c] \in Seq(ForRouter)
      /\ inq'[c] = Tail(inq[c]) /\ \A d \in Chan : d # c => inq'[d] = inq[d]
  BY ReceiveFacts DEF RtrTypeOK
<1>2. PICK s \in Server : srvChan[s] = c
  BY <1>1 DEF Linked
<1>3. c # NoChan
  BY RouteAssumption
<1>4. Back(s) = inq[c] /\ Back(s)' = Tail(inq[c])
  BY <1>1, <1>2, <1>3 DEF Back
<1>5. Head(inq[c]) = inq[c][1]
  BY <1>1, TailAt
<1>6. ASSUME NEW t \in Server, t # s
      PROVE  Back(t)' = Back(t)
  <2>1. srvChan[t] # NoChan => srvChan[t] \in Chan /\ srvChan[t] # c
    BY <1>2, <1>3, <1>6 DEF Plugged, RtrTypeOK
  <2> QED BY <1>1, <2>1 DEF Back
<1> QED BY <1>1, <1>2, <1>4, <1>5, <1>6

LEMMA BackOther ==
  ASSUME RtrTypeOK, Plugged, UNCHANGED srvChan, NEW c \in Chan, kind[c] # "server",
         \A d \in Chan : d # c => inq'[d] = inq[d]
  PROVE  \A s \in Server : Back(s)' = Back(s)
<1>1. \A s \in Server : srvChan[s] # NoChan => srvChan[s] \in Chan /\ srvChan[s] # c
  BY DEF Plugged, RtrTypeOK
<1> QED BY <1>1, BackUnchanged

(* What the peers and the kernel do, and what it leaves on the way.        *)
LEMMA PeersTally ==
  ASSUME RtrTypeOK, RtrTypeOK', Plugged, Linked, Tallied, QuietStep
  PROVE  Tallied'
<1> USE DEF cliVars, srvVars, rtrVars
<1>1. \A s \in Server : Neat(Queue(s), work[s], Back(s))
  BY TalliedIs
<1>2. (\A s \in Server : Queue(s)' = Queue(s)) /\ UNCHANGED info
  BY QuietQueue
<1>3. ASSUME UNCHANGED work, \A s \in Server : Back(s)' = Back(s)
      PROVE  Tallied'
  <2>1. \A s \in Server : /\ Neat(Queue(s)', work'[s], Back(s)')
                          /\ All(Queue(s)', work'[s], Back(s)') \subseteq All(Queue(s), work[s], Back(s))
    BY <1>1, <1>2, <1>3
  <2> QED BY <1>2, <2>1, TallyMoved
<1>4. ASSUME NEW c \in Chan, RtrReset(c) \/ CliRead(c) \/ CliLeave(c)
      PROVE  Tallied'
  <2>1. UNCHANGED <<work, srvChan, inq>>
    BY <1>4 DEF RtrReset, CliRead, CliLeave
  <2>2. \A s \in Server : Back(s)' = Back(s)
    BY <2>1 DEF Back
  <2> QED BY <1>3, <2>1, <2>2
<1>5. ASSUME NEW c \in Chan, AcceptClient(c)
      PROVE  Tallied'
  <2>1. UNCHANGED <<work, srvChan>> /\ kind[c] = "free" /\ \A d \in Chan : d # c => inq'[d] = inq[d]
    BY <1>5 DEF AcceptClient, Accept, RtrTypeOK
  <2>2. \A s \in Server : Back(s)' = Back(s)
    BY <2>1, BackOther
  <2> QED BY <1>3, <2>1, <2>2
<1>6. ASSUME NEW c \in Chan, NEW q \in ReqId, NEW k \in CommId, NEW op \in ReqOp, CliAsk(c, q, k, op)
      PROVE  Tallied'
  <2>1. UNCHANGED <<work, srvChan>> /\ kind[c] = "client" /\ \A d \in Chan : d # c => inq'[d] = inq[d]
    BY <1>6 DEF CliAsk, IsClient, RtrTypeOK
  <2>2. \A s \in Server : Back(s)' = Back(s)
    BY <2>1, BackOther
  <2> QED BY <1>3, <2>1, <2>2
<1>7. ASSUME NEW c \in Chan, NEW s \in Server, AcceptServer(c, s)
      PROVE  Tallied'
  <2> DEFINE first == [type |-> "ServerConnect", srv |-> s]
  <2>1. /\ kind[c] = "free" /\ srvChan[s] = NoChan
        /\ \A t \in Server : srvChan'[t] = IF t = s THEN c ELSE srvChan[t]
        /\ \A t \in Server : work'[t] = IF t = s THEN {} ELSE work[t]
        /\ \A d \in Chan : inq'[d] = IF d = c THEN <<first>> ELSE inq[d]
    BY <1>7 DEF AcceptServer, Accept, RtrTypeOK
  <2>2. work[s] = {} /\ c # NoChan
    <3>1. localMap[s] = NoChan
      BY <2>1 DEF Linked
    <3> QED BY <3>1, RouteAssumption DEF Linked
  <2>3. ASSUME NEW t \in Server, t # s
        PROVE  Back(t)' = Back(t)
    <3>1. srvChan[t] # NoChan => srvChan[t] \in Chan /\ srvChan[t] # c
      BY <2>1 DEF Plugged, RtrTypeOK
    <3> QED BY <2>1, <2>3, <3>1 DEF Back
  <2>4. Back(s) = <<>> /\ Back(s)' = <<first>>
    BY <2>1, <2>2 DEF Back
  <2>5. /\ Tokens(<<>>, "CommResp") = {} /\ Once(<<>>, "CommResp")
        /\ Tokens(<<first>>, "CommResp") = {} /\ Once(<<first>>, "CommResp")
    <3>1. DOMAIN <<>> = {} /\ DOMAIN <<first>> = {1} /\ <<first>>[1].type = "ServerConnect"
      OBVIOUS
    <3> QED BY <3>1, NoTokens
  <2>6. \A t \in Server : work'[t] = work[t]
    BY <2>1, <2>2
  <2>7. ASSUME NEW t \in Server
        PROVE  /\ Neat(Queue(t)', work'[t], Back(t)')
               /\ All(Queue(t)', work'[t], Back(t)') \subseteq All(Queue(t), work[t], Back(t))
    <3>1. CASE t # s
      BY <1>1, <1>2, <2>3, <2>6, <3>1
    <3>2. CASE t = s
      <4>1. Neat(Queue(s), work[s], <<>>)
        BY <1>1, <2>4
      <4>2. /\ Neat(Queue(s), work[s], <<first>>)
            /\ All(Queue(s), work[s], <<first>>) = All(Queue(s), work[s], <<>>)
        BY <2>5, <4>1 DEF Neat, All
      <4> QED BY <1>2, <2>4, <2>6, <3>2, <4>2
    <3> QED BY <3>1, <3>2
  <2> QED BY <1>2, <2>7, TallyMoved
<1>8. ASSUME NEW s \in Server, NEW w \in work[s], SrvReply(s, w)
      PROVE  Tallied'
  <2>1. /\ \A t \in Server : work'[t] = IF t = s THEN work[s] \ {w} ELSE work[t]
        /\ UNCHANGED srvChan
        /\ inq' = [inq EXCEPT ![srvChan[s]] = Append(inq[srvChan[s]], Response(w))]
    BY <1>8 DEF SrvReply, RtrTypeOK
  <2>2. PICK c \in Chan : c = srvChan[s] /\ c # NoChan
    <3>1. localMap[s] # NoChan
      BY <1>8 DEF Linked
    <3> QED BY <3>1, QueueTypes, RouteAssumption
  <2>3. w \in Works
    BY DEF RtrTypeOK
  <2>4. PICK m : m = Response(w)
    OBVIOUS
  <2>5. m \in ForRouter /\ m.type = "CommResp" /\ Token(m) = w
    BY <2>3, <2>4 DEF Response, Works, ForRouter, Responses, Token
  <2>6. /\ inq'[c] = Append(inq[c], m) /\ \A d \in Chan : d # c => inq'[d] = inq[d]
    BY <2>1, <2>2, <2>4 DEF RtrTypeOK
  <2>7. Back(s)' = Append(Back(s), m)
    BY <2>1, <2>2, <2>6 DEF Back
  <2>8. ASSUME NEW t \in Server, t # s
        PROVE  Back(t)' = Back(t)
    <3>1. srvChan[t] # NoChan => srvChan[t] \in Chan /\ srvChan[t] # c
      BY <2>2, <2>8 DEF Plugged, RtrTypeOK
    <3> QED BY <2>1, <2>6, <3>1 DEF Back
  <2>9. ASSUME NEW t \in Server
        PROVE  /\ Neat(Queue(t)', work'[t], Back(t)')
               /\ All(Queue(t)', work'[t], Back(t)') \subseteq All(Queue(t), work[t], Back(t))
    <3>1. CASE t # s
      BY <1>1, <1>2, <2>1, <2>8, <3>1
    <3>2. CASE t = s
      <4>1. PICK b \in Seq(ForRouter) : b = Back(s)
        BY BackTypes
      <4>2. Neat(Queue(s), work[s], b)
        BY <1>1, <4>1
      <4>3. /\ Neat(Queue(s), work[s] \ {w}, Append(b, m))
            /\ All(Queue(s), work[s] \ {w}, Append(b, m)) \subseteq All(Queue(s), work[s], b)
        BY <2>5, <4>2, RepliedTokens
      <4> QED BY <1>2, <2>1, <2>7, <3>2, <4>1, <4>3
    <3> QED BY <3>1, <3>2
  <2> QED BY <1>2, <2>9, TallyMoved
<1>9. CASE UNCHANGED vars
  <2>1. UNCHANGED <<work, srvChan, inq>>
    BY <1>9 DEF vars
  <2>2. \A s \in Server : Back(s)' = Back(s)
    BY <2>1 DEF Back
  <2> QED BY <1>3, <2>1, <2>2
<1> QED BY <1>4, <1>5, <1>6, <1>7, <1>8, <1>9 DEF QuietStep

(* What the router and the servers do to their queues: messages that are   *)
(* no requests, before or behind.                                          *)
LEMMA QueueMore ==
  ASSUME RtrTypeOK, RtrTypeOK', Linked, Tallied, UNCHANGED <<info, work>>,
         \A s \in Server : Back(s)' = Back(s),
         \A s \in Server : \E r \in Seq(ForServers \cup Answers) :
           /\ \A n \in DOMAIN r : r[n].type # "CommReq"
           /\ Queue(s)' = Queue(s) \o r \/ Queue(s)' = r \o Queue(s)
  PROVE  Tallied'
<1> SUFFICES ASSUME NEW s \in Server
             PROVE  /\ Neat(Queue(s)', work'[s], Back(s)')
                    /\ All(Queue(s)', work'[s], Back(s)') \subseteq All(Queue(s), work[s], Back(s))
  BY TallyMoved
<1>1. Neat(Queue(s), work[s], Back(s))
  BY TalliedIs
<1>2. PICK q \in Seq(ForServers \cup Answers) : q = Queue(s)
  BY QueueTypes
<1>3. PICK r \in Seq(ForServers \cup Answers) :
        /\ \A n \in DOMAIN r : r[n].type # "CommReq"
        /\ Queue(s)' = q \o r \/ Queue(s)' = r \o q
  BY <1>2
<1>4. Tokens(r, "CommReq") = {} /\ Once(r, "CommReq")
  BY <1>3, NoTokens
<1>5. Once(q, "CommReq")
  BY <1>1, <1>2 DEF Neat
<1>6. /\ Tokens(q \o r, "CommReq") = Tokens(q, "CommReq") /\ Once(q \o r, "CommReq")
      /\ Tokens(r \o q, "CommReq") = Tokens(q, "CommReq") /\ Once(r \o q, "CommReq")
  <2>1. /\ Tokens(q \o r, "CommReq") = Tokens(q, "CommReq") \cup Tokens(r, "CommReq")
        /\ Once(q, "CommReq") /\ Once(r, "CommReq") /\ Tokens(q, "CommReq") \cap Tokens(r, "CommReq") = {}
           => Once(q \o r, "CommReq")
    BY JoinTokens
  <2>2. /\ Tokens(r \o q, "CommReq") = Tokens(r, "CommReq") \cup Tokens(q, "CommReq")
        /\ Once(r, "CommReq") /\ Once(q, "CommReq") /\ Tokens(r, "CommReq") \cap Tokens(q, "CommReq") = {}
           => Once(r \o q, "CommReq")
    BY JoinTokens
  <2>3. Tokens(q, "CommReq") \cap Tokens(r, "CommReq") = {} /\ Tokens(r, "CommReq") \cap Tokens(q, "CommReq") = {}
    BY <1>4
  <2> QED BY <1>4, <1>5, <2>1, <2>2, <2>3
<1>7. PICK p : p = Queue(s)'
  OBVIOUS
<1>8. Tokens(p, "CommReq") = Tokens(q, "CommReq") /\ Once(p, "CommReq")
  BY <1>3, <1>6, <1>7
<1>9. Neat(p, work[s], Back(s)) /\ All(p, work[s], Back(s)) = All(q, work[s], Back(s))
  BY <1>1, <1>2, <1>8 DEF Neat, All
<1> QED BY <1>2, <1>7, <1>9

LEMMA OtherSendsTally ==
  ASSUME RtrTypeOK, RtrTypeOK', Plugged, Linked, Tallied, NEW c \in Chan,
         \/ RtrCommCreate(c)
         \/ RtrClientClosed(c)
         \/ RtrServerConnect(c)
  PROVE  Tallied'
<1> USE DEF cliVars, srvVars, rtrVars
<1>1. ASSUME UNCHANGED <<info, work, srvChan>>, \A s \in Server : Back(s)' = Back(s),
             NEW ms \in Seq(ForServers), \A x \in Range(ms) : x.type # "CommReq",
             Send(ms), UNCHANGED localMap
      PROVE  Tallied'
  <2>1. \A s \in Server : Queue(s)' = Queue(s) \o Added(ms)[s]
    BY <1>1, SendQueue
  <2>2. ASSUME NEW s \in Server
        PROVE  \E r \in Seq(ForServers \cup Answers) :
                 /\ \A n \in DOMAIN r : r[n].type # "CommReq"
                 /\ Queue(s)' = Queue(s) \o r \/ Queue(s)' = r \o Queue(s)
    <3>1. /\ Added(ms)[s] \in Seq(ForServers)
          /\ \A x : x \in Range(Added(ms)[s]) <=> \E n \in DOMAIN ms : Home[ms[n].dst] = s /\ x = ms[n]
      BY <1>1, AddedFacts, Zenon
    <3>2. PICK r \in Seq(ForServers) : r = Added(ms)[s]
      BY <3>1
    <3>3. ASSUME NEW x \in Range(r)
          PROVE  x \in Range(ms)
      <4>1. PICK n \in DOMAIN ms : x = ms[n]
        BY <3>1, <3>2, Zenon
      <4> QED BY <4>1 DEF Range
    <3>4. \A n \in DOMAIN r : r[n] \in Range(r)
      BY DEF Range
    <3>5. \A n \in DOMAIN r : r[n].type # "CommReq"
      BY <1>1, <3>3, <3>4
    <3>6. r \in Seq(ForServers \cup Answers)
      OBVIOUS
    <3> QED BY <2>1, <3>2, <3>5, <3>6
  <2> QED BY <1>1, <2>2, QueueMore
<1>2. ASSUME RtrCommCreate(c)
      PROVE  Tallied'
  <2> DEFINE k == Head(inq[c]).comm
             ms == [n \in DOMAIN FlattenSeq(Members[k]) |-> Create(k, FlattenSeq(Members[k])[n])]
  <2>1. Head(inq[c]) \in ForRouter /\ Head(inq[c]).type = "CommCreate"
    BY <1>2, ReceiveFacts DEF RtrCommCreate
  <2>2. k \in CommId
    BY <2>1, MessageTypes DEF Opened
  <2>3. \A s \in Server : Back(s)' = Back(s)
    BY <1>2, ClientRead DEF RtrCommCreate
  <2>4. UNCHANGED <<info, work, srvChan, localMap>>
    BY <1>2 DEF RtrCommCreate, Abort
  <2>5. CASE k \in comms[c]
    <3>1. UNCHANGED <<pending, outq>>
      BY <1>2, <2>5 DEF RtrCommCreate, Abort
    <3>2. \A s \in Server : Queue(s)' = Queue(s)
      BY <2>4, <3>1 DEF Queue
    <3>3. \A s \in Server : Neat(Queue(s), work[s], Back(s))
      BY TalliedIs
    <3>4. \A s \in Server : /\ Neat(Queue(s)', work'[s], Back(s)')
                            /\ All(Queue(s)', work'[s], Back(s)') \subseteq All(Queue(s), work[s], Back(s))
      BY <2>3, <2>4, <3>2, <3>3
    <3> QED BY <2>4, <3>4, TallyMoved
  <2>6. CASE k \notin comms[c]
    <3>1. /\ ms \in Seq(ForServers) /\ Send(ms)
          /\ \A m : m \in Range(ms) <=> \E o \in MembersOf(k) : m = Create(k, o)
      BY <1>2, <2>2, <2>6, CreatesFacts DEF RtrCommCreate
    <3>2. \A x \in Range(ms) : x.type # "CommReq"
      <4>1. \A o : Create(k, o).type # "CommReq"
        BY DEF Create
      <4> QED BY <3>1, <4>1
    <3> HIDE DEF ms
    <3> QED BY <1>1, <2>3, <2>4, <3>1, <3>2
  <2> QED BY <2>5, <2>6
<1>3. ASSUME RtrClientClosed(c)
      PROVE  Tallied'
  <2> DEFINE ms == DestroysOf(comms[c])
  <2>1. Send(ms) /\ UNCHANGED <<info, work, srvChan, localMap, inq>>
    BY <1>3 DEF RtrClientClosed, DestroysOf
  <2>2. ms \in Seq(ForServers) /\ \A x \in Range(ms) : x.type = "CommDestroy"
    BY DestroysFacts DEF RtrTypeOK
  <2>3. \A s \in Server : Back(s)' = Back(s)
    BY <2>1 DEF Back
  <2> HIDE DEF ms
  <2>4. \A x \in Range(ms) : x.type # "CommReq"
    BY <2>2
  <2> QED BY <1>1, <2>1, <2>2, <2>3, <2>4
<1>4. ASSUME RtrServerConnect(c)
      PROVE  Tallied'
  <2>1. /\ \A s \in Server : \E p \in Seq(Answers) : Queue(s)' = p \o Queue(s)
        /\ UNCHANGED <<srvChan, work, info>>
    BY <1>4, ConnectQueue
  <2>2. PICK s \in Server : /\ Back(s) # <<>> /\ Back(s)[1] = Head(inq[c]) /\ Back(s)' = Tail(Back(s))
                            /\ \A t \in Server : t # s => Back(t)' = Back(t)
    BY <1>4, <2>1, ServerRead DEF RtrServerConnect
  <2>3. ASSUME NEW t \in Server
        PROVE  /\ Neat(Queue(t)', work'[t], Back(t)')
               /\ All(Queue(t)', work'[t], Back(t)') \subseteq All(Queue(t), work[t], Back(t))
    <3>1. PICK q \in Seq(ForServers \cup Answers) : q = Queue(t)
      BY QueueTypes
    <3>2. PICK p \in Seq(ForServers \cup Answers) : /\ Queue(t)' = p \o q
                                                    /\ \A n \in DOMAIN p : p[n].type # "CommReq"
      <4>1. PICK p \in Seq(Answers) : Queue(t)' = p \o q
        BY <2>1, <3>1
      <4>2. \A n \in DOMAIN p : p[n] \in Answers
        OBVIOUS
      <4>3. \A a \in Answers : a.type # "CommReq"
        BY DEF Answers
      <4>4. p \in Seq(ForServers \cup Answers)
        OBVIOUS
      <4> QED BY <4>1, <4>2, <4>3, <4>4
    <3>3. PICK b \in Seq(ForRouter) : b = Back(t)
      BY BackTypes
    <3>4. Neat(q, work[t], b)
      BY <3>1, <3>3, TalliedIs
    <3>5. Tokens(p, "CommReq") = {} /\ Once(p, "CommReq")
      BY <3>2, NoTokens
    <3>6. PICK r : r = p \o q
      OBVIOUS
    <3>7. Tokens(r, "CommReq") = Tokens(q, "CommReq") /\ Once(r, "CommReq")
      <4>1. /\ Tokens(p \o q, "CommReq") = Tokens(p, "CommReq") \cup Tokens(q, "CommReq")
            /\ Once(p, "CommReq") /\ Once(q, "CommReq") /\ Tokens(p, "CommReq") \cap Tokens(q, "CommReq") = {}
               => Once(p \o q, "CommReq")
        BY JoinTokens
      <4>2. Once(q, "CommReq")
        BY <3>4 DEF Neat
      <4> QED BY <3>5, <3>6, <4>1, <4>2
    <3>8. Neat(r, work[t], b) /\ All(r, work[t], b) = All(q, work[t], b)
      BY <3>4, <3>7 DEF Neat, All
    <3>9. CASE t # s
      BY <2>1, <2>2, <3>1, <3>2, <3>3, <3>6, <3>8, <3>9
    <3>10. CASE t = s
      <4>1. b # <<>> /\ Back(t)' = Tail(b)
        BY <2>2, <3>3, <3>10
      <4>2. Neat(r, work[t], Tail(b)) /\ All(r, work[t], Tail(b)) \subseteq All(r, work[t], b)
        BY <3>8, <4>1, ReadTokens
      <4> QED BY <2>1, <3>1, <3>2, <3>3, <3>6, <3>8, <4>1, <4>2
    <3> QED BY <3>9, <3>10
  <2> QED BY <2>1, <2>3, TallyMoved
<1> QED BY <1>2, <1>3, <1>4

(* A server takes what is for it: a request is served on the object that   *)
(* it was sent to, so that its response is the one expected.               *)
LEMMA ServerTally ==
  ASSUME RtrTypeOK, RtrTypeOK', Plugged, Linked, InPlace, Tallied, NEW s \in Server,
         SrvCommCreate(s) \/ SrvCommDestroy(s) \/ SrvCommReq(s)
  PROVE  Tallied'
<1> USE DEF cliVars, srvVars, rtrVars
<1>1. PICK q \in Seq(ForServers \cup Answers) : q = Queue(s)
  BY QueueTypes
<1>2. PICK type : type = Head(outq[srvChan[s]]).type
  OBVIOUS
<1>3. SrvTakes(s, type) /\ type \in {"CommCreate", "CommDestroy", "CommReq"}
  BY <1>2 DEF SrvCommCreate, SrvCommDestroy, SrvCommReq, SrvTakes
<1>4. UNCHANGED <<localMap, srvChan, pending, inq, info>>
  BY DEF SrvCommCreate, SrvCommDestroy, SrvCommReq
<1>5. /\ Queue(s)' = Tail(q) /\ q # <<>> /\ q = outq[srvChan[s]]
      /\ \A t \in Server : t # s => Queue(t)' = Queue(t)
  BY <1>1, <1>3, <1>4, TakesTail
<1>6. Head(q) = q[1] /\ q[1] \in ForServers \cup Answers /\ q[1].type = type /\ 1 \in DOMAIN q
  BY <1>2, <1>5, TailAt
<1>7. \A t \in Server : Back(t)' = Back(t)
  BY <1>4 DEF Back
<1>8. \A t \in Server : Neat(Queue(t), work[t], Back(t))
  BY TalliedIs
<1>9. CASE SrvCommCreate(s) \/ SrvCommDestroy(s)
  <2>1. work' = work /\ type # "CommReq"
    BY <1>2, <1>9 DEF SrvCommCreate, SrvCommDestroy, SrvTakes
  <2>2. Once(q, "CommReq")
    BY <1>1, <1>8 DEF Neat
  <2>3. Tokens(Tail(q), "CommReq") = Tokens(q, "CommReq") /\ Once(Tail(q), "CommReq")
    BY <1>5, <1>6, <2>1, <2>2, TailTokens
  <2>4. ASSUME NEW t \in Server
        PROVE  /\ Neat(Queue(t)', work'[t], Back(t)')
               /\ All(Queue(t)', work'[t], Back(t)') \subseteq All(Queue(t), work[t], Back(t))
    <3>1. CASE t # s
      BY <1>5, <1>7, <1>8, <2>1, <3>1
    <3>2. CASE t = s
      <4>1. Neat(q, work[s], Back(s))
        BY <1>1, <1>8
      <4>2. Neat(Tail(q), work[s], Back(s)) /\ All(Tail(q), work[s], Back(s)) = All(q, work[s], Back(s))
        BY <2>3, <4>1 DEF Neat, All
      <4> QED BY <1>1, <1>5, <1>7, <2>1, <3>2, <4>2
    <3> QED BY <3>1, <3>2
  <2> QED BY <1>4, <2>4, TallyMoved
<1>10. CASE SrvCommReq(s)
  <2>1. PICK m : m = q[1]
    OBVIOUS
  <2>2. m.type = "CommReq" /\ m \in Copied
    BY <1>2, <1>6, <1>10, <2>1, MessageTypes DEF SrvCommReq, SrvTakes
  <2>3. Stands(q, objs[s][m.comm], m.comm, 1, m.dst)
    BY <1>1, <1>6, <2>1, <2>2 DEF InPlace
  <2>4. objs[s][m.comm] = m.dst
    <3>1. PICK b, k, o : b = objs[s][m.comm] /\ k = m.comm /\ o = m.dst
      OBVIOUS
    <3>2. Stands(q, b, k, 1, o)
      BY <2>3, <3>1
    <3>3. b = o
      BY <3>2 DEF Stands
    <3> QED BY <3>1, <3>3
  <2>5. /\ work' = [work EXCEPT ![s] = work[s] \cup
                      {[op |-> m.op, info |-> m.info, grp |-> m.grp, obj |-> objs[s][m.comm]]}]
    BY <1>5, <1>6, <1>10, <2>1 DEF SrvCommReq
  <2>6. Token(m) = [op |-> m.op, info |-> m.info, grp |-> m.grp, obj |-> objs[s][m.comm]]
    BY <2>2, <2>4 DEF Token
  <2>7. \A t \in Server : work'[t] = IF t = s THEN work[s] \cup {Token(m)} ELSE work[t]
    BY <2>5, <2>6 DEF RtrTypeOK
  <2>8. ASSUME NEW t \in Server
        PROVE  /\ Neat(Queue(t)', work'[t], Back(t)')
               /\ All(Queue(t)', work'[t], Back(t)') \subseteq All(Queue(t), work[t], Back(t))
    <3>1. CASE t # s
      BY <1>5, <1>7, <1>8, <2>7, <3>1
    <3>2. CASE t = s
      <4>1. Neat(q, work[s], Back(s))
        BY <1>1, <1>8
      <4>2. /\ Neat(Tail(q), work[s] \cup {Token(q[1])}, Back(s))
            /\ All(Tail(q), work[s] \cup {Token(q[1])}, Back(s)) \subseteq All(q, work[s], Back(s))
        BY <1>5, <2>1, <2>2, <4>1, TakenTokens
      <4> QED BY <1>1, <1>5, <1>7, <2>1, <2>7, <3>2, <4>2
    <3> QED BY <3>1, <3>2
  <2> QED BY <1>4, <2>8, TallyMoved
<1> QED BY <1>9, <1>10

LEMMA AllTypes ==
  ASSUME RtrTypeOK, Linked, NEW s \in Server
  PROVE  All(Queue(s), work[s], Back(s)) \subseteq Works
<1>1. PICK q \in Seq(ForServers \cup Answers) : q = Queue(s)
  BY QueueTypes
<1>2. PICK b \in Seq(ForRouter) : b = Back(s)
  BY BackTypes
<1>3. ASSUME NEW t \in Tokens(q, "CommReq")
      PROVE  t \in Works
  <2>1. PICK n \in DOMAIN q : q[n].type = "CommReq" /\ t = Token(q[n])
    BY TokenAt
  <2>2. q[n] \in Copied
    BY <2>1, MessageTypes
  <2>3. PICK m \in Copied : m = q[n]
    BY <2>2
  <2> QED BY <2>1, <2>3 DEF Copied, Token, Works
<1>4. ASSUME NEW t \in Tokens(b, "CommResp")
      PROVE  t \in Works
  <2>1. PICK n \in DOMAIN b : b[n].type = "CommResp" /\ t = Token(b[n])
    BY TokenAt
  <2>2. b[n] \in Responses
    BY <2>1, MessageTypes
  <2>3. PICK m \in Responses : m = b[n]
    BY <2>2
  <2> QED BY <2>1, <2>3 DEF Responses, Token, Works
<1>5. work[s] \subseteq Works
  BY DEF RtrTypeOK
<1> QED BY <1>1, <1>2, <1>3, <1>4, <1>5 DEF All

(* A new request: a token for each member of each group.                   *)
LEMMA RequestTally ==
  ASSUME RtrTypeOK, RtrTypeOK', Plugged, Linked, Tallied, NEW c \in Chan, NEW i \in InfoId, RtrCommReq(c, i)
  PROVE  Tallied'
<1> USE DEF cliVars, srvVars, rtrVars
<1> DEFINE m == Head(inq[c])
           ms == CopiesOf(m, i)
<1>1. m \in ForRouter /\ m.type = "CommReq" /\ info[i] = Free
  BY ReceiveFacts DEF RtrCommReq
<1>2. m \in AskedFor
  BY <1>1, MessageTypes
<1>3. (\A s \in Server : Back(s)' = Back(s)) /\ UNCHANGED <<work, srvChan, localMap>>
  <2>1. UNCHANGED <<work, srvChan, localMap>>
    BY DEF RtrCommReq, Abort
  <2> QED BY <2>1, ClientRead DEF RtrCommReq
<1>4. /\ \A s \in Server : Neat(Queue(s), work[s], Back(s))
      /\ \A s \in Server : \A t \in All(Queue(s), work[s], Back(s)) : Home[t.obj] = s /\ DueIn(info[t.info], t)
      /\ \A j \in InfoId : info[j] # Free => Ledger(AsInfo(info[j]))
  BY TalliedIs
<1>5. CASE m.comm \notin comms[c] \/ ~ Supported(m.op, m.comm)
  <2>1. UNCHANGED <<pending, outq, info>>
    BY <1>5 DEF RtrCommReq, Abort
  <2>2. \A s \in Server : Queue(s)' = Queue(s)
    BY <1>3, <2>1 DEF Queue
  <2>3. \A s \in Server : /\ Neat(Queue(s)', work'[s], Back(s)')
                          /\ All(Queue(s)', work'[s], Back(s)') \subseteq All(Queue(s), work[s], Back(s))
    BY <1>3, <1>4, <2>2
  <2> QED BY <2>1, <2>3, TallyMoved
<1>6. CASE ~ (m.comm \notin comms[c] \/ ~ Supported(m.op, m.comm))
  <2>1. /\ ms \in Seq(ForServers) /\ Send(ms) /\ IsInjective(ms)
        /\ \A x : x \in Range(ms) <=>
            \E g \in Groups(m.comm) : \E o \in Range(Members[m.comm][g]) : x = Copy(m.op, m.comm, i, g, o)
    BY <1>2, <1>6, CopiesFacts DEF RtrCommReq
  <2>2. info' = [info EXCEPT ![i] = NewInfo(c, m)] /\ Supported(m.op, m.comm)
    BY <1>6 DEF RtrCommReq
  <2>3. PICK k \in CommId, op \in ReqOp : k = m.comm /\ op = m.op
    BY <1>2 DEF AskedFor
  <2>4. PICK x : x = NewInfo(c, m)
    OBVIOUS
  <2>5. /\ Ledger(AsInfo(x)) /\ AsInfo(x).comm = k
        /\ \A g \in Groups(k) : Range(AsInfo(x).respQ[g]) = {}
    BY <1>2, <2>2, <2>3, <2>4, NewLedger
  <2>6. x # Free /\ x.op = op
    BY <1>2, <2>3, <2>4, NewInfoTypes, FreeAssumption DEF NewInfo
  <2>7. info'[i] = x /\ \A j \in InfoId : j # i => info'[j] = info[j]
    BY <2>2, <2>4 DEF RtrTypeOK
  <2>8. ms \in Seq(ForServers) /\ IsInjective(ms)
    BY <2>1
  <2>9. \A y : y \in Range(ms) <=>
          \E g \in Groups(k) : \E o \in Mem(k, g) : y = Copy(op, k, i, g, o)
    BY <2>1, <2>3 DEF Mem
  <2>10. \A s \in Server : Queue(s)' = Queue(s) \o Added(ms)[s]
    BY <1>3, <2>1, SendQueue
  <2> HIDE DEF m, ms
  <2>11. ASSUME NEW s \in Server
         PROVE  /\ Neat(Queue(s)', work'[s], Back(s)')
                /\ \A t \in All(Queue(s)', work'[s], Back(s)') : Home[t.obj] = s /\ DueIn(info'[t.info], t)
    <3>1. /\ Added(ms)[s] \in Seq(ForServers) /\ IsInjective(Added(ms)[s])
          /\ \A y : y \in Range(Added(ms)[s]) <=> \E n \in DOMAIN ms : Home[ms[n].dst] = s /\ y = ms[n]
      BY <2>8, AddedFacts, Zenon
    <3>2. PICK r \in Seq(ForServers \cup Answers) : r = Added(ms)[s]
      BY <3>1
    <3>3. ASSUME NEW n \in DOMAIN r
          PROVE  \E g \in Groups(k) : \E o \in Mem(k, g) : r[n] = Copy(op, k, i, g, o) /\ Home[o] = s
      <4>1. r[n] \in Range(Added(ms)[s])
        BY <3>2 DEF Range
      <4>2. PICK a \in DOMAIN ms : Home[ms[a].dst] = s /\ r[n] = ms[a]
        BY <3>1, <4>1, Zenon
      <4>3. r[n] \in Range(ms)
        BY <4>2 DEF Range
      <4>4. PICK g \in Groups(k) : \E o \in Mem(k, g) : r[n] = Copy(op, k, i, g, o)
        BY <2>9, <4>3
      <4>5. PICK o \in Mem(k, g) : r[n] = Copy(op, k, i, g, o)
        BY <4>4
      <4>6. r[n].dst = o
        BY <4>5 DEF Copy
      <4> QED BY <4>2, <4>5, <4>6
    <3>4. PICK q \in Seq(ForServers \cup Answers) : q = Queue(s)
      BY QueueTypes
    <3>5. PICK b, W : b = Back(s) /\ W = work[s]
      OBVIOUS
    <3>6. \A t \in All(q, W, b) : t \in Works /\ t.info # i /\ Home[t.obj] = s /\ DueIn(info[t.info], t)
      BY <1>1, <1>4, <3>4, <3>5, AllTypes DEF DueIn
    <3>7. ASSUME NEW n \in DOMAIN r
          PROVE  \E g \in Groups(k) : \E o \in Mem(k, g) :
                   /\ r[n] = Copy(op, k, i, g, o) /\ Home[o] = s
                   /\ Token(r[n]) = [op |-> op, info |-> i, grp |-> g, obj |-> o]
      <4>1. PICK g \in Groups(k) : \E o \in Mem(k, g) : r[n] = Copy(op, k, i, g, o) /\ Home[o] = s
        BY <3>3
      <4>2. PICK o \in Mem(k, g) : r[n] = Copy(op, k, i, g, o) /\ Home[o] = s
        BY <4>1
      <4>3. Token(r[n]) = [op |-> op, info |-> i, grp |-> g, obj |-> o]
        BY <4>2 DEF Token, Copy
      <4> QED BY <4>2, <4>3
    <3>8. Once(r, "CommReq")
      <4> SUFFICES ASSUME NEW a \in DOMAIN r, NEW d \in DOMAIN r, Token(r[a]) = Token(r[d])
                   PROVE  a = d
        BY OnceIs
      <4>1. \E g \in Groups(k) : \E o \in Mem(k, g) :
              /\ r[a] = Copy(op, k, i, g, o)
              /\ Token(r[a]) = [op |-> op, info |-> i, grp |-> g, obj |-> o]
        BY <3>7
      <4>2. \E g \in Groups(k) : \E o \in Mem(k, g) :
              /\ r[d] = Copy(op, k, i, g, o)
              /\ Token(r[d]) = [op |-> op, info |-> i, grp |-> g, obj |-> o]
        BY <3>7
      <4>3. PICK g, o : /\ r[a] = Copy(op, k, i, g, o)
                        /\ Token(r[a]) = [op |-> op, info |-> i, grp |-> g, obj |-> o]
        BY <4>1
      <4>4. PICK h, p : /\ r[d] = Copy(op, k, i, h, p)
                        /\ Token(r[d]) = [op |-> op, info |-> i, grp |-> h, obj |-> p]
        BY <4>2
      <4>5. g = h /\ o = p
        BY <4>3, <4>4
      <4>6. r[a] = r[d]
        BY <4>3, <4>4, <4>5
      <4> QED BY <3>1, <3>2, <4>6 DEF IsInjective
    <3>9. ASSUME NEW t \in Tokens(r, "CommReq")
          PROVE  t.info = i /\ Home[t.obj] = s /\ DueIn(x, t)
      <4>1. PICK n \in DOMAIN r : t = Token(r[n])
        BY TokenAt
      <4>2. PICK g \in Groups(k) : \E o \in Mem(k, g) :
              /\ Home[o] = s /\ Token(r[n]) = [op |-> op, info |-> i, grp |-> g, obj |-> o]
        BY <3>7
      <4>3. PICK o \in Mem(k, g) :
              /\ Home[o] = s /\ Token(r[n]) = [op |-> op, info |-> i, grp |-> g, obj |-> o]
        BY <4>2
      <4>4. t.op = op /\ t.info = i /\ t.grp = g /\ t.obj = o
        BY <4>1, <4>3
      <4>5. Due(AsInfo(x), g, o)
        BY <2>5 DEF Due
      <4> QED BY <2>6, <4>3, <4>4, <4>5 DEF DueIn
    <3>10. Neat(q, W, b) /\ All(q, W, b) \cap Tokens(r, "CommReq") = {}
      BY <1>4, <3>4, <3>5, <3>6, <3>9
    <3>11. PICK p : p = q \o r
      OBVIOUS
    <3>12. Tokens(p, "CommReq") = Tokens(q, "CommReq") \cup Tokens(r, "CommReq") /\ Once(p, "CommReq")
      <4>1. /\ Tokens(q \o r, "CommReq") = Tokens(q, "CommReq") \cup Tokens(r, "CommReq")
            /\ Once(q, "CommReq") /\ Once(r, "CommReq") /\ Tokens(q, "CommReq") \cap Tokens(r, "CommReq") = {}
               => Once(q \o r, "CommReq")
        BY JoinTokens
      <4>2. Once(q, "CommReq") /\ Tokens(q, "CommReq") \cap Tokens(r, "CommReq") = {}
        BY <3>10 DEF Neat, All
      <4> QED BY <3>8, <3>11, <4>1, <4>2
    <3>13. Neat(p, W, b) /\ All(p, W, b) = All(q, W, b) \cup Tokens(r, "CommReq")
      BY <3>10, <3>12 DEF Neat, All
    <3>14. \A t \in All(q, W, b) : Home[t.obj] = s /\ DueIn(info'[t.info], t)
      <4> SUFFICES ASSUME NEW t \in All(q, W, b) PROVE Home[t.obj] = s /\ DueIn(info'[t.info], t)
        OBVIOUS
      <4>1. t.info \in InfoId /\ t.info # i
        BY <3>6 DEF Works
      <4>2. info'[t.info] = info[t.info]
        BY <2>7, <4>1
      <4> QED BY <3>6, <4>2
    <3>15. \A t \in Tokens(r, "CommReq") : Home[t.obj] = s /\ DueIn(info'[t.info], t)
      BY <2>7, <3>9
    <3>16. Queue(s)' = p /\ work'[s] = W /\ Back(s)' = b
      BY <1>3, <2>10, <3>2, <3>4, <3>5, <3>11
    <3>17. \A t \in All(p, W, b) : Home[t.obj] = s /\ DueIn(info'[t.info], t)
      BY <3>13, <3>14, <3>15
    <3> QED BY <3>13, <3>16, <3>17
  <2>12. \A j \in InfoId : info'[j] # Free => Ledger(AsInfo(info'[j]))
    BY <1>4, <2>5, <2>7
  <2> QED BY <2>11, <2>12, TalliedNext
<1> QED BY <1>5, <1>6

(* A response is read: its token is gone, everything else is where it was. *)
LEMMA RespTokens ==
  ASSUME RtrTypeOK, Plugged, Linked, Tallied, NEW c \in Chan, RtrCommResp(c) \/ RtrOneResp(c),
         NEW u, u = Token(Head(inq[c]))
  PROVE  /\ \E s \in Server : u \in All(Queue(s), work[s], Back(s))
         /\ \A t \in Server :
              /\ Neat(Queue(t)', work'[t], Back(t)')
              /\ \A v \in All(Queue(t)', work'[t], Back(t)') :
                   v \in All(Queue(t), work[t], Back(t)) /\ v # u
<1> USE DEF cliVars, srvVars
<1>1. /\ Receive(c, "server", "CommResp") /\ Head(inq[c]).type = "CommResp"
      /\ UNCHANGED <<localMap, srvChan, pending, work>>
  BY DEF RtrCommResp, RtrOneResp, Receive
<1>2. PICK s \in Server :
        /\ srvChan[s] = c /\ Back(s) # <<>> /\ Back(s)[1] = Head(inq[c]) /\ Back(s)' = Tail(Back(s))
        /\ \A t \in Server : t # s => Back(t)' = Back(t)
  BY <1>1, ServerRead
<1>3. PICK b \in Seq(ForRouter) : b = Back(s)
  BY BackTypes
<1>4. /\ \A t \in Server : Neat(Queue(t), work[t], Back(t))
      /\ \A t \in Server : \A v \in All(Queue(t), work[t], Back(t)) : Home[v.obj] = t
  BY TalliedIs
<1>5. \A q, W : Neat(q, W, b) =>
        /\ Neat(q, W, Tail(b)) /\ All(q, W, Tail(b)) \subseteq All(q, W, b)
        /\ u \in All(q, W, b) /\ u \notin All(q, W, Tail(b))
  <2> SUFFICES ASSUME NEW q, NEW W, Neat(q, W, b)
               PROVE  /\ Neat(q, W, Tail(b)) /\ All(q, W, Tail(b)) \subseteq All(q, W, b)
                      /\ u \in All(q, W, b) /\ u \notin All(q, W, Tail(b))
    OBVIOUS
  <2>1. b # <<>> /\ b[1].type = "CommResp" /\ u = Token(b[1])
    BY <1>1, <1>2, <1>3
  <2>2. /\ Neat(q, W, Tail(b)) /\ All(q, W, Tail(b)) \subseteq All(q, W, b)
        /\ b[1].type = "CommResp" => /\ Token(b[1]) \in All(q, W, b)
                                     /\ Token(b[1]) \notin All(q, W, Tail(b))
    BY <2>1, ReadTokens
  <2> QED BY <2>1, <2>2
<1>6. u \in All(Queue(s), work[s], Back(s)) /\ Home[u.obj] = s
  BY <1>3, <1>4, <1>5
<1>7. \A d \in Chan : outq'[d] = outq[d] \/ \E a \in Answers : outq'[d] = Append(outq[d], a)
  BY RespOut
<1>8. \A t \in Server : Queue(t)' = Queue(t) \/ \E a \in Answers : Queue(t)' = Append(Queue(t), a)
  BY <1>1, <1>7, AnswerQueue
<1>9. ASSUME NEW t \in Server
      PROVE  /\ Neat(Queue(t)', work'[t], Back(t)')
             /\ \A v \in All(Queue(t)', work'[t], Back(t)') :
                  v \in All(Queue(t), work[t], Back(t)) /\ v # u
  <2>1. PICK q \in Seq(ForServers \cup Answers) : q = Queue(t)
    BY QueueTypes
  <2>2. PICK p : p = Queue(t)'
    OBVIOUS
  <2>3. PICK W : W = work[t]
    OBVIOUS
  <2>4. PICK d : d = Back(t)
    OBVIOUS
  <2>5. Neat(q, W, d) /\ \A v \in All(q, W, d) : Home[v.obj] = t
    BY <1>4, <2>1, <2>3, <2>4
  <2>6. Tokens(p, "CommReq") = Tokens(q, "CommReq") /\ Once(p, "CommReq")
    <3>1. Once(q, "CommReq")
      BY <2>5 DEF Neat
    <3>2. ASSUME NEW a \in Answers
          PROVE  Tokens(Append(q, a), "CommReq") = Tokens(q, "CommReq") /\ Once(Append(q, a), "CommReq")
      <4>1. a \in ForServers \cup Answers /\ a.type # "CommReq"
        BY DEF Answers
      <4> QED BY <3>1, <4>1, AppendTokens
    <3> QED BY <1>8, <2>1, <2>2, <3>1, <3>2
  <2>7. Neat(p, W, d) /\ All(p, W, d) = All(q, W, d)
    BY <2>5, <2>6 DEF Neat, All
  <2>8. CASE t # s
    <3>1. Back(t)' = d
      BY <1>2, <2>4, <2>8
    <3>2. \A v \in All(p, W, d) : v \in All(q, W, d) /\ v # u
      BY <1>6, <2>5, <2>7, <2>8
    <3> QED BY <1>1, <2>1, <2>2, <2>3, <2>4, <2>7, <3>1, <3>2
  <2>9. CASE t = s
    <3>1. Back(t)' = Tail(b) /\ d = b
      BY <1>2, <1>3, <2>4, <2>9
    <3>2. /\ Neat(p, W, Tail(b))
          /\ \A v \in All(p, W, Tail(b)) : v \in All(q, W, d) /\ v # u
      BY <1>5, <2>7, <3>1
    <3> QED BY <1>1, <2>1, <2>2, <2>3, <2>4, <3>1, <3>2
  <2> QED BY <2>8, <2>9
<1> QED BY <1>6, <1>9

(* What the handler does to the CommReqInfo is no one else's concern.      *)
LEMMA InfoStep ==
  ASSUME RtrTypeOK, RtrTypeOK', Linked, Tallied, NEW u, NEW i \in InfoId,
         \A t \in Server :
              /\ Neat(Queue(t)', work'[t], Back(t)')
              /\ \A v \in All(Queue(t)', work'[t], Back(t)') :
                   v \in All(Queue(t), work[t], Back(t)) /\ v # u,
         NEW y, info'[i] = y, \A j \in InfoId : j # i => info'[j] = info[j],
         y # Free => Ledger(AsInfo(y)),
         \A v \in Works : v.info = i /\ v # u /\ DueIn(info[i], v) => DueIn(y, v)
  PROVE  Tallied'
<1>1. /\ \A s \in Server : \A t \in All(Queue(s), work[s], Back(s)) : Home[t.obj] = s /\ DueIn(info[t.info], t)
      /\ \A j \in InfoId : info[j] # Free => Ledger(AsInfo(info[j]))
  BY TalliedIs
<1>2. ASSUME NEW s \in Server, NEW v \in All(Queue(s)', work'[s], Back(s)')
      PROVE  Home[v.obj] = s /\ DueIn(info'[v.info], v)
  <2>1. v \in All(Queue(s), work[s], Back(s)) /\ v # u
    BY <1>2
  <2>2. v \in Works /\ Home[v.obj] = s /\ DueIn(info[v.info], v)
    BY <1>1, <2>1, AllTypes
  <2>3. v.info \in InfoId
    BY <2>2 DEF Works
  <2>4. CASE v.info = i
    <3>1. DueIn(info[i], v)
      BY <2>2, <2>4
    <3>2. DueIn(info'[i], v)
      BY <2>1, <2>2, <2>4, <3>1
    <3> QED BY <2>2, <2>4, <3>2
  <2>5. CASE v.info # i
    <3>1. info'[v.info] = info[v.info]
      BY <2>3, <2>5
    <3> QED BY <2>2, <3>1
  <2> QED BY <2>4, <2>5
<1>3. \A j \in InfoId : info'[j] # Free => Ledger(AsInfo(info'[j]))
  BY <1>1
<1> QED BY <1>2, <1>3, TalliedNext

LEMMA AsInfoFields ==
  ASSUME NEW x \in Info
  PROVE  LET y == AsInfo(x)
         IN  /\ y.comm = x.comm /\ y.pending = x.pending
             /\ x.op \notin OneObj => y.grpInfo = x.grpInfo /\ y.respQ = x.respQ /\ y.value = x.value
             /\ x.op \in OneObj => y.grpInfo = <<1>> /\ y.respQ = <<<<>>>>
<1>1. x # Free
  BY FreeAssumption
<1>2. CASE x.op \in OneObj
  BY <1>1, <1>2 DEF AsInfo
<1>3. CASE x.op \notin OneObj
  BY <1>1, <1>3 DEF AsInfo
<1> QED BY <1>2, <1>3

LEMMA DueRange ==
  ASSUME NEW x, Ledger(x), NEW g, NEW o, Due(x, g, o)
  PROVE  Range(Append(x.respQ[g], o)) = Range(x.respQ[g]) \cup {o}
<1>1. PICK q : q = Append(x.respQ[g], o)
  OBVIOUS
<1>2. q \in Seq(Obj) /\ Range(q) = Range(x.respQ[g]) \cup {o}
  BY <1>1, DueFacts
<1> QED BY <1>1, <1>2

(* What else is due of a request stays due.                                *)
LEMMA StillDue ==
  ASSUME NEW x, Ledger(x), NEW g, NEW o, Due(x, g, o), NEW y,
         y.comm = x.comm, y.respQ = [x.respQ EXCEPT ![g] = Append(x.respQ[g], o)],
         NEW h, NEW p, Due(x, h, p), ~(h = g /\ p = o)
  PROVE  Due(y, h, p)
<1>1. PICK q : q = Append(x.respQ[g], o)
  OBVIOUS
<1>2. Range(q) = Range(x.respQ[g]) \cup {o}
  <2>1. Range(Append(x.respQ[g], o)) = Range(x.respQ[g]) \cup {o}
    BY DueRange
  <2> QED BY <1>1, <2>1
<1>3. /\ y.respQ[g] = q
      /\ \A j \in Groups(x.comm) : j # g => y.respQ[j] = x.respQ[j]
  BY <1>1 DEF Ledger, Due
<1>4. CASE h = g
  BY <1>2, <1>3, <1>4 DEF Due
<1>5. CASE h # g
  BY <1>3, <1>5 DEF Due
<1> QED BY <1>4, <1>5

(* A request of one object: its response is the last.                      *)
LEMMA OneDue ==
  ASSUME NEW x \in Info, x.op \in OneObj, Ledger(AsInfo(x)), NEW g, NEW o, Due(AsInfo(x), g, o)
  PROVE  \A h, p : Due(AsInfo(x), h, p) => h = g /\ p = o
<1>1. PICK y : y = AsInfo(x)
  OBVIOUS
<1>2. y.grpInfo = <<1>> /\ y.respQ = <<<<>>>> /\ Ledger(y) /\ Due(y, g, o)
  BY <1>1, AsInfoFields
<1>3. DOMAIN <<1>> = {1} /\ <<1>>[1] = 1 /\ <<<<>>>>[1] = <<>>
  OBVIOUS
<1>4. Groups(y.comm) = {1} /\ g = 1
  BY <1>2, <1>3 DEF Ledger, Due
<1>5. Open(y) = {1}
  BY <1>2, <1>4 DEF Ledger, Open
<1>6. y.pending = 1
  BY <1>2, <1>4, <1>5, OneGroupLess
<1>7. Len(Append(y.respQ[g], o)) = y.grpInfo[g]
  <2>1. y.respQ[g] = <<>> /\ y.grpInfo[g] = 1
    BY <1>2, <1>3, <1>4
  <2>2. o \in Obj
    BY <1>2, MemFacts DEF Due, Ledger
  <2>3. Len(Append(<<>>, o)) = 1
    BY <2>2
  <2> QED BY <2>1, <2>3
<1>8. \A h, p : Due(y, h, p) => h = g /\ p = o
  BY <1>2, <1>6, <1>7, LastDue
<1> QED BY <1>1, <1>8

LEMMA RespTally ==
  ASSUME RtrTypeOK, RtrTypeOK', Plugged, Linked, Tallied, NEW c \in Chan,
         RtrCommResp(c) \/ RtrOneResp(c)
  PROVE  Tallied'
<1> DEFINE m == Head(inq[c])
<1>1. m \in ForRouter /\ m.type = "CommResp"
  BY ReceiveFacts DEF RtrCommResp, RtrOneResp
<1>2. m \in Responses
  BY <1>1, MessageTypes
<1>3. PICK i \in InfoId : i = m.info
  BY <1>2 DEF Responses
<1>4. PICK g \in Nat : g = m.grp
  BY <1>2 DEF Responses
<1>5. PICK o \in Obj : o = m.obj
  BY <1>2 DEF Responses
<1>6. PICK op \in ReqOp : op = m.op
  BY <1>2 DEF Responses
<1>7. PICK u : u = Token(m)
  OBVIOUS
<1>8. u = [op |-> op, info |-> i, grp |-> g, obj |-> o]
  BY <1>2, <1>3, <1>4, <1>5, <1>6, <1>7 DEF Token, Responses
<1>9. /\ \E s \in Server : u \in All(Queue(s), work[s], Back(s))
      /\ \A t \in Server :
           /\ Neat(Queue(t)', work'[t], Back(t)')
           /\ \A v \in All(Queue(t)', work'[t], Back(t)') :
                v \in All(Queue(t), work[t], Back(t)) /\ v # u
  BY <1>7, RespTokens
<1>10. PICK x : x = info[i]
  OBVIOUS
<1>11. DueIn(x, u) /\ x \in Info /\ Ledger(AsInfo(x))
  <2>1. /\ \A s \in Server : \A t \in All(Queue(s), work[s], Back(s)) : DueIn(info[t.info], t)
        /\ \A j \in InfoId : info[j] # Free => Ledger(AsInfo(info[j]))
    BY TalliedIs
  <2>2. u.info = i
    BY <1>8
  <2>3. DueIn(x, u)
    BY <1>9, <1>10, <2>1, <2>2
  <2>4. x # Free
    BY <2>3 DEF DueIn
  <2> QED BY <1>10, <2>1, <2>3, <2>4 DEF RtrTypeOK
<1>12. x # Free /\ x.op = op /\ Due(AsInfo(x), g, o)
  BY <1>8, <1>11 DEF DueIn
<1>13. \A v \in Works : v.info = i /\ v # u /\ DueIn(x, v) =>
         v.op = op /\ Due(AsInfo(x), v.grp, v.obj) /\ ~(v.grp = g /\ v.obj = o)
  BY <1>8, <1>12 DEF DueIn, Works
<1>14. ASSUME UNCHANGED info
       PROVE  Tallied'
  <2>1. \A s \in Server : /\ Neat(Queue(s)', work'[s], Back(s)')
                          /\ All(Queue(s)', work'[s], Back(s)') \subseteq All(Queue(s), work[s], Back(s))
    BY <1>9
  <2> QED BY <1>14, <2>1, TallyMoved
<1>15. ASSUME info' = [info EXCEPT ![i] = Free], \A h, p : Due(AsInfo(x), h, p) => h = g /\ p = o
       PROVE  Tallied'
  <2>1. info'[i] = Free /\ \A j \in InfoId : j # i => info'[j] = info[j]
    BY <1>15 DEF RtrTypeOK
  <2>2. \A v \in Works : v.info = i /\ v # u /\ DueIn(info[i], v) => DueIn(Free, v)
    BY <1>10, <1>13, <1>15
  <2> QED BY <1>9, <2>1, <2>2, InfoStep
<1>16. ASSUME NEW y \in Info, info' = [info EXCEPT ![i] = y], y.op = op, Ledger(AsInfo(y)),
              AsInfo(y).comm = AsInfo(x).comm,
              AsInfo(y).respQ = [AsInfo(x).respQ EXCEPT ![g] = Append(AsInfo(x).respQ[g], o)]
       PROVE  Tallied'
  <2>1. info'[i] = y /\ \A j \in InfoId : j # i => info'[j] = info[j]
    BY <1>16 DEF RtrTypeOK
  <2>2. y # Free
    BY FreeAssumption
  <2>3. ASSUME NEW v \in Works, v.info = i, v # u, DueIn(info[i], v)
        PROVE  DueIn(y, v)
    <3>1. v.op = op /\ Due(AsInfo(x), v.grp, v.obj) /\ ~(v.grp = g /\ v.obj = o)
      BY <1>10, <1>13, <2>3
    <3>2. PICK z, a : z = AsInfo(x) /\ a = AsInfo(y)
      OBVIOUS
    <3>3. Ledger(z) /\ Due(z, g, o) /\ Due(z, v.grp, v.obj)
      BY <1>11, <1>12, <3>1, <3>2
    <3>4. a.comm = z.comm /\ a.respQ = [z.respQ EXCEPT ![g] = Append(z.respQ[g], o)]
      BY <1>16, <3>2
    <3>5. Due(a, v.grp, v.obj)
      <4>1. PICK h, p : h = v.grp /\ p = v.obj
        OBVIOUS
      <4>2. Due(z, h, p) /\ ~(h = g /\ p = o)
        BY <3>1, <3>3, <4>1
      <4>3. Due(a, h, p)
        BY <3>3, <3>4, <4>2, StillDue, Zenon
      <4> QED BY <4>1, <4>3
    <3> QED BY <1>16, <2>1, <2>2, <3>1, <3>2, <3>5 DEF DueIn
  <2>4. \A v \in Works : v.info = i /\ v # u /\ DueIn(info[i], v) => DueIn(y, v)
    BY <2>3
  <2>5. y # Free => Ledger(AsInfo(y))
    BY <1>16
  <2> QED BY <1>9, <2>1, <2>4, <2>5, InfoStep
<1>17. CASE RtrOneResp(c)
  <2>1. op \in OneObj /\ info' = [info EXCEPT ![i] = Free]
    BY <1>3, <1>6, <1>10, <1>12, <1>17 DEF RtrOneResp
  <2>2. \A h, p : Due(AsInfo(x), h, p) => h = g /\ p = o
    BY <1>11, <1>12, <2>1, OneDue
  <2> QED BY <1>15, <2>1, <2>2
<1>18. CASE RtrCommResp(c)
  <2>1. op \notin OneObj
    BY <1>6, <1>18 DEF RtrCommResp
  <2>2. \/ UNCHANGED info
        \/ Collect(m) \/ Complete(m) \/ Reply(m)
    BY <1>18 DEF RtrCommResp
  <2> HIDE DEF m
  <2>3. PICK z : z = AsInfo(x)
    OBVIOUS
  <2>4. /\ z.comm = x.comm /\ z.pending = x.pending /\ z.grpInfo = x.grpInfo
        /\ z.respQ = x.respQ /\ z.value = x.value
    BY <1>11, <1>12, <2>1, <2>3, AsInfoFields
  <2>5. Ledger(z) /\ Due(z, g, o)
    BY <1>11, <1>12, <2>3
  <2>6. PICK q : q = Append(x.respQ[g], o)
    OBVIOUS
  <2>7. Queued(m) = q
    BY <1>3, <1>4, <1>5, <1>10, <2>6 DEF Queued
  <2>8. PICK r, w : r = [x.respQ EXCEPT ![g] = q] /\ w = [x.value EXCEPT ![g] = q]
    OBVIOUS
  <2>9. r \in Seq(Seq(Obj)) /\ w \in Seq(Seq(Obj))
    <3>1. DOMAIN x.respQ = DOMAIN x.value
      BY <2>4, <2>5 DEF Ledger
    <3> QED BY <1>11, <2>6, <2>8, <3>1, QueuedTypes
  <2>10. CASE UNCHANGED info
    BY <1>14, <2>10
  <2>11. CASE Collect(m)
    <3>1. PICK y : y = [x EXCEPT !.respQ = r]
      OBVIOUS
    <3>2. info' = [info EXCEPT ![i] = y]
      BY <1>3, <1>4, <1>10, <2>7, <2>8, <2>11, <3>1 DEF Collect
    <3>3. y \in Info
      BY <1>11, <2>9, <3>1 DEF Info
    <3>4. /\ y.op = op /\ y.comm = x.comm /\ y.pending = x.pending /\ y.grpInfo = x.grpInfo
          /\ y.respQ = r /\ y.value = x.value
      BY <1>11, <1>12, <3>1 DEF Info
    <3>5. PICK a : a = AsInfo(y)
      OBVIOUS
    <3>6. /\ a.comm = z.comm /\ a.pending = z.pending /\ a.grpInfo = z.grpInfo
          /\ a.respQ = r /\ a.value = z.value
      BY <2>1, <2>4, <3>3, <3>4, <3>5, AsInfoFields
    <3>7. r = [z.respQ EXCEPT ![g] = Append(z.respQ[g], o)]
      BY <2>4, <2>6, <2>8
    <3>8. Len(Append(z.respQ[g], o)) # z.grpInfo[g]
      <4>1. Len(q) # x.grpInfo[g]
        BY <1>3, <1>4, <1>10, <2>7, <2>11 DEF Collect, GroupReady
      <4> QED BY <2>4, <2>6, <4>1
    <3>9. Ledger(a)
      <4>1. /\ a.comm = z.comm /\ a.grpInfo = z.grpInfo /\ a.value = z.value /\ a.pending = z.pending
            /\ a.respQ = [z.respQ EXCEPT ![g] = Append(z.respQ[g], o)]
        BY <3>6, <3>7
      <4> QED BY <2>5, <3>8, <4>1, CollectOK, Zenon
    <3> QED BY <1>16, <2>3, <3>2, <3>3, <3>4, <3>5, <3>6, <3>7, <3>9
  <2>12. CASE Complete(m)
    <3>1. PICK y : y = [x EXCEPT !.respQ = r, !.value = w, !.pending = x.pending - 1]
      OBVIOUS
    <3>2. /\ info' = [info EXCEPT ![i] = y] /\ x.pending > 1
          /\ Len(q) = x.grpInfo[g]
      BY <1>3, <1>4, <1>10, <2>7, <2>8, <2>12, <3>1 DEF Complete, GroupReady
    <3>3. y \in Info
      <4>1. x.pending - 1 \in Nat
        BY <1>11, <3>2 DEF Info
      <4> QED BY <1>11, <2>9, <3>1, <4>1 DEF Info
    <3>4. /\ y.op = op /\ y.comm = x.comm /\ y.pending = x.pending - 1 /\ y.grpInfo = x.grpInfo
          /\ y.respQ = r /\ y.value = w
      BY <1>11, <1>12, <3>1 DEF Info
    <3>5. PICK a : a = AsInfo(y)
      OBVIOUS
    <3>6. /\ a.comm = z.comm /\ a.pending = z.pending - 1 /\ a.grpInfo = z.grpInfo
          /\ a.respQ = r /\ a.value = w
      BY <2>1, <2>4, <3>3, <3>4, <3>5, AsInfoFields
    <3>7. /\ r = [z.respQ EXCEPT ![g] = Append(z.respQ[g], o)]
          /\ w = [z.value EXCEPT ![g] = Append(z.respQ[g], o)]
      BY <2>4, <2>6, <2>8
    <3>8. Len(Append(z.respQ[g], o)) = z.grpInfo[g] /\ z.pending > 1
      BY <2>4, <2>6, <3>2
    <3>9. Ledger(a)
      <4>1. /\ a.comm = z.comm /\ a.grpInfo = z.grpInfo /\ a.pending = z.pending - 1
            /\ a.respQ = [z.respQ EXCEPT ![g] = Append(z.respQ[g], o)]
            /\ a.value = [z.value EXCEPT ![g] = Append(z.respQ[g], o)]
        BY <3>6, <3>7
      <4> QED BY <2>5, <3>8, <4>1, CompleteOK, Zenon
    <3> QED BY <1>16, <2>3, <3>2, <3>3, <3>4, <3>5, <3>6, <3>7, <3>9
  <2>13. CASE Reply(m)
    <3>1. info' = [info EXCEPT ![i] = Free] /\ x.pending = 1 /\ Len(q) = x.grpInfo[g]
      BY <1>3, <1>4, <1>10, <2>7, <2>13 DEF Reply, GroupReady
    <3>2. Len(Append(z.respQ[g], o)) = z.grpInfo[g] /\ z.pending = 1
      BY <2>4, <2>6, <3>1
    <3>3. \A h, p : Due(z, h, p) => h = g /\ p = o
      BY <2>5, <3>2, LastDue
    <3> QED BY <1>15, <2>3, <3>1, <3>3
  <2> QED BY <2>2, <2>10, <2>11, <2>12, <2>13
<1> QED BY <1>17, <1>18

LEMMA TallyInit ==
  ASSUME Init
  PROVE  Tallied
<1>1. RtrTypeOK
  BY TypesInit
<1>2. /\ Tokens(<<>>, "CommReq") = {} /\ Once(<<>>, "CommReq")
      /\ Tokens(<<>>, "CommResp") = {} /\ Once(<<>>, "CommResp")
  <2>1. DOMAIN <<>> = {}
    OBVIOUS
  <2> QED BY <2>1, NoTokens
<1>3. \A s \in Server : Queue(s) = <<>> /\ Back(s) = <<>> /\ work[s] = {}
  BY DEF Init, Queue, Back
<1>4. \A s \in Server : Neat(Queue(s), work[s], Back(s)) /\ All(Queue(s), work[s], Back(s)) = {}
  BY <1>2, <1>3 DEF Neat, All
<1>5. \A i \in InfoId : info[i] = Free
  BY DEF Init
<1> QED BY <1>1, <1>4, <1>5, TalliedIs

LEMMA TallyKept ==
  ASSUME RtrTypeOK, RtrTypeOK', Plugged, Linked, InPlace, Tallied, NoneStopped', [Next]_vars
  PROVE  Tallied'
<1>1. CASE QuietStep
  BY <1>1, PeersTally
<1>2. ASSUME NEW c \in Chan, RtrCommCreate(c) \/ RtrClientClosed(c) \/ RtrServerConnect(c)
      PROVE  Tallied'
  BY <1>2, OtherSendsTally
<1>3. ASSUME NEW c \in Chan, NEW i \in InfoId, RtrCommReq(c, i)
      PROVE  Tallied'
  BY <1>3, RequestTally
<1>4. ASSUME NEW c \in Chan, RtrCommResp(c) \/ RtrOneResp(c)
      PROVE  Tallied'
  BY <1>4, RespTally
<1>5. ASSUME NEW c \in Chan, RtrServerClosed(c)
      PROVE  FALSE
  <2>1. kind[c] = "server" /\ conn[c] = "eof" /\ NoChan \notin Chan
    BY <1>5, RouteAssumption DEF RtrServerClosed, Closed
  <2> QED BY <2>1 DEF Linked, Plugged
<1>6. ASSUME NEW s \in Server, SrvCommCreate(s) \/ SrvCommDestroy(s) \/ SrvCommReq(s)
      PROVE  Tallied'
  BY <1>6, ServerTally
<1>7. ASSUME NEW s \in Server, NEW unread, srvChan[s] # NoChan, SrvStops(s, unread)
      PROVE  FALSE
  <2>1. srvChan'[s] = NoChan /\ starts'[s] = starts[s] /\ starts[s] > 0 /\ starts[s] \in Nat
    BY <1>7 DEF SrvStops, RtrTypeOK, Plugged
  <2>2. starts'[s] <= 1 /\ (starts'[s] = 1 => srvChan'[s] # NoChan)
    BY DEF NoneStopped
  <2> QED BY <2>1, <2>2
<1>8. ASSUME NEW s \in Server, SrvCrash(s) \/ SrvDie(s)
      PROVE  FALSE
  BY <1>7, <1>8 DEF SrvCrash, SrvDie
<1> QED BY <1>1, <1>2, <1>3, <1>4, <1>5, <1>6, <1>8 DEF Next, RtrStep, SrvStep, QuietStep

LEMMA IInvKept ==
  ASSUME IInv, [Next]_vars
  PROVE  IInv'
<1>1. RtrTypeOK' /\ Apart' /\ Plugged'
  BY TypesKept, ApartKept, PluggedKept DEF IInv
<1>2. ASSUME NoneStopped'
      PROVE  Linked' /\ InPlace' /\ Tallied'
  <2>1. NoneStopped
    BY <1>2, NoneStoppedBefore DEF IInv
  <2>2. Linked /\ InPlace /\ Tallied
    BY <2>1 DEF IInv
  <2>3. Linked'
    BY <1>1, <1>2, <2>2, LinkedKept DEF IInv
  <2>4. InPlace'
    BY <1>2, <2>2, InPlaceKept DEF IInv
  <2>5. Tallied'
    BY <1>1, <1>2, <2>2, TallyKept DEF IInv
  <2> QED BY <2>3, <2>4, <2>5
<1> QED BY <1>1, <1>2 DEF IInv

-----------------------------------------------------------------------------
(* CastIsSafe.  What Aggregation calls in flight are the tokens.           *)
LEMMA AsInfoTypes ==
  ASSUME NEW x \in Info
  PROVE  AsInfo(x) # Free
<1>1. x # Free
  BY FreeAssumption
<1>2. <<1>> \in Seq(Nat) /\ <<<<>>>> \in Seq(Seq(Obj))
  <2>1. <<>> \in Seq(Obj)
    OBVIOUS
  <2> QED BY <2>1
<1>3. AsInfo(x) \in Promise!Info
  <2>1. CASE x.op \in OneObj
    BY <1>1, <1>2, <2>1 DEF AsInfo, Info, Promise!Info
  <2>2. CASE x.op \notin OneObj
    BY <1>1, <2>2 DEF AsInfo, Info, Promise!Info
  <2> QED BY <2>1, <2>2
<1> QED BY <1>3, PromiseAssumption

LEMMA FlightTokens ==
  ASSUME RtrTypeOK, Plugged, Linked, NEW t \in Promise!InFlight
  PROVE  \E s \in Server : \E u \in All(Queue(s), work[s], Back(s)) :
           t = [info |-> u.info, grp |-> u.grp, obj |-> u.obj]
<1>1. ASSUME NEW s \in Server, NEW n \in DOMAIN pending[s], pending[s][n].type = "CommReq",
             t = [info |-> pending[s][n].info, grp |-> pending[s][n].grp, obj |-> pending[s][n].dst]
      PROVE  \E u \in All(Queue(s), work[s], Back(s)) : t = [info |-> u.info, grp |-> u.grp, obj |-> u.obj]
  <2>1. localMap[s] = NoChan
    BY <1>1 DEF Linked
  <2>2. Queue(s) = pending[s]
    BY <2>1 DEF Queue
  <2>3. Token(pending[s][n]) \in All(Queue(s), work[s], Back(s))
    BY <1>1, <2>2, TokenAt DEF All
  <2> QED BY <1>1, <2>3 DEF Token
<1>2. ASSUME NEW c \in Chan, NEW n \in DOMAIN outq[c], outq[c][n].type = "CommReq",
             t = [info |-> outq[c][n].info, grp |-> outq[c][n].grp, obj |-> outq[c][n].dst]
      PROVE  \E s \in Server : \E u \in All(Queue(s), work[s], Back(s)) :
               t = [info |-> u.info, grp |-> u.grp, obj |-> u.obj]
  <2>1. PICK s \in Server : localMap[s] = c
    BY <1>2 DEF Linked
  <2>2. c # NoChan
    BY RouteAssumption
  <2>3. Queue(s) = outq[c]
    BY <2>1, <2>2 DEF Linked, Queue
  <2>4. Token(outq[c][n]) \in All(Queue(s), work[s], Back(s))
    BY <1>2, <2>3, TokenAt DEF All
  <2> QED BY <1>2, <2>4 DEF Token
<1>3. ASSUME NEW c \in Chan, NEW n \in DOMAIN inq[c], inq[c][n].type = "CommResp",
             t = [info |-> inq[c][n].info, grp |-> inq[c][n].grp, obj |-> inq[c][n].obj]
      PROVE  \E s \in Server : \E u \in All(Queue(s), work[s], Back(s)) :
               t = [info |-> u.info, grp |-> u.grp, obj |-> u.obj]
  <2>1. PICK s \in Server : srvChan[s] = c
    BY <1>3 DEF Linked
  <2>2. c # NoChan
    BY RouteAssumption
  <2>3. Back(s) = inq[c]
    BY <2>1, <2>2 DEF Back
  <2>4. Token(inq[c][n]) \in All(Queue(s), work[s], Back(s))
    BY <1>3, <2>3, TokenAt DEF All
  <2> QED BY <1>3, <2>4 DEF Token
<1>4. ASSUME NEW s \in Server, NEW w \in work[s], t = [info |-> w.info, grp |-> w.grp, obj |-> w.obj]
      PROVE  \E u \in All(Queue(s), work[s], Back(s)) : t = [info |-> u.info, grp |-> u.grp, obj |-> u.obj]
  BY <1>4 DEF All
<1>5. DOMAIN pending = Server /\ DOMAIN outq = Chan /\ DOMAIN inq = Chan
  BY DEF RtrTypeOK
<1>6. \A f : \A m \in Queues(f) : \E y \in DOMAIN f : \E n \in DOMAIN f[y] : m = f[y][n]
  BY DEF Queues, Range
<1>7. \/ \E m \in Queues(pending) \cup Queues(outq) :
           m.type = "CommReq" /\ t = [info |-> m.info, grp |-> m.grp, obj |-> m.dst]
      \/ \E s \in Server : \E w \in work[s] : t = [info |-> w.info, grp |-> w.grp, obj |-> w.obj]
      \/ \E m \in Queues(inq) :
           m.type = "CommResp" /\ t = [info |-> m.info, grp |-> m.grp, obj |-> m.obj]
  BY DEF Promise!InFlight, Outward, Inward
<1>8. CASE \E m \in Queues(pending) :
             m.type = "CommReq" /\ t = [info |-> m.info, grp |-> m.grp, obj |-> m.dst]
  <2>1. PICK m \in Queues(pending) :
          m.type = "CommReq" /\ t = [info |-> m.info, grp |-> m.grp, obj |-> m.dst]
    BY <1>8
  <2>2. PICK s \in Server : \E n \in DOMAIN pending[s] : m = pending[s][n]
    BY <1>5, <1>6, <2>1
  <2> QED BY <1>1, <2>1, <2>2
<1>9. CASE \E m \in Queues(outq) :
             m.type = "CommReq" /\ t = [info |-> m.info, grp |-> m.grp, obj |-> m.dst]
  <2>1. PICK m \in Queues(outq) :
          m.type = "CommReq" /\ t = [info |-> m.info, grp |-> m.grp, obj |-> m.dst]
    BY <1>9
  <2>2. PICK c \in Chan : \E n \in DOMAIN outq[c] : m = outq[c][n]
    BY <1>5, <1>6, <2>1
  <2> QED BY <1>2, <2>1, <2>2
<1>10. CASE \E m \in Queues(inq) :
              m.type = "CommResp" /\ t = [info |-> m.info, grp |-> m.grp, obj |-> m.obj]
  <2>1. PICK m \in Queues(inq) :
          m.type = "CommResp" /\ t = [info |-> m.info, grp |-> m.grp, obj |-> m.obj]
    BY <1>10
  <2>2. PICK c \in Chan : \E n \in DOMAIN inq[c] : m = inq[c][n]
    BY <1>5, <1>6, <2>1
  <2> QED BY <1>3, <2>1, <2>2
<1> QED BY <1>4, <1>7, <1>8, <1>9, <1>10

LEMMA SafeByTally ==
  ASSUME RtrTypeOK, Plugged, Linked, Tallied
  PROVE  Promise!ResponsesExpected
<1>1. ASSUME NEW t \in Promise!InFlight
      PROVE  /\ Heap[t.info] # Free
             /\ t.grp \in Promise!Groups(Heap[t.info].comm)
             /\ t.obj \in MemberSets[Heap[t.info].comm][t.grp]
             /\ t.obj \notin Promise!Range(Heap[t.info].respQ[t.grp])
  <2>1. PICK s \in Server : \E u \in All(Queue(s), work[s], Back(s)) :
              t = [info |-> u.info, grp |-> u.grp, obj |-> u.obj]
    BY FlightTokens
  <2>2. PICK u \in All(Queue(s), work[s], Back(s)) : t = [info |-> u.info, grp |-> u.grp, obj |-> u.obj]
    BY <2>1
  <2>3. u \in Works /\ DueIn(info[u.info], u)
    <3>1. \A v \in All(Queue(s), work[s], Back(s)) : DueIn(info[v.info], v)
      BY TalliedIs
    <3> QED BY <3>1, AllTypes
  <2>4. t.info = u.info /\ t.grp = u.grp /\ t.obj = u.obj /\ u.info \in InfoId
    BY <2>2, <2>3 DEF Works
  <2>5. PICK x : x = info[u.info]
    OBVIOUS
  <2>6. x \in Info /\ Due(AsInfo(x), t.grp, t.obj)
    BY <2>3, <2>4, <2>5 DEF DueIn, RtrTypeOK
  <2>7. PICK y : y = AsInfo(x)
    OBVIOUS
  <2>8. Heap[t.info] = y
    BY <2>4, <2>5, <2>7 DEF Heap
  <2>9. y # Free /\ y.comm \in CommId
    BY <2>6, <2>7, AsInfoTypes, AsInfoFields DEF Info
  <2>10. PICK k \in CommId : k = y.comm
    BY <2>9
  <2>11. Promise!Groups(k) = Groups(k) /\ \A g \in Groups(k) : MemberSets[k][g] = Mem(k, g)
    BY DEF Promise!Groups, Groups, Mem, MemberSets
  <2>12. t.grp \in Groups(k) /\ t.obj \in Mem(k, t.grp) /\ t.obj \notin Range(y.respQ[t.grp])
    BY <2>6, <2>7, <2>10 DEF Due
  <2>13. Promise!Range(y.respQ[t.grp]) = Range(y.respQ[t.grp])
    BY DEF Promise!Range, Range
  <2>14. t.obj \in MemberSets[k][t.grp]
    BY <2>11, <2>12
  <2> QED BY <2>8, <2>9, <2>10, <2>11, <2>12, <2>13, <2>14
<1> QED BY <1>1 DEF Promise!ResponsesExpected

-----------------------------------------------------------------------------
(* What every reachable state keeps: the types, who owns which             *)
(* communicator and channel, and, until a server stops, where every event  *)
(* is and which contributions a CommReqInfo still waits for.               *)
THEOREM RouterInductive == Spec => []IInv
<1>1. Init => IInv
  BY TypesInit, PlacesInit, TallyInit DEF IInv
<1>2. IInv /\ [Next]_vars => IInv'
  BY IInvKept
<1> QED BY <1>1, <1>2, PTL DEF Spec

(* Until a server stops, what a server finds under the communicator id of  *)
(* a request it comes to serve is the object the request was sent to: the  *)
(* CommCreate is ahead of it, through m_pendingEvents of a server that is  *)
(* yet to connect as well, and no CommDestroy comes between.               *)
THEOREM RightObjectHolds == Spec => []RightObject
<1>1. IInv => RightObject
  <2>1. ASSUME IInv, NoneStopped
        PROVE  \A s \in Server : \A n \in DOMAIN Stream(s) :
                 Stream(s)[n].type = "CommReq" => Found(s, Stream(s)[n].comm, n) = Stream(s)[n].dst
    BY <2>1, RightByPlace DEF IInv
  <2> QED BY <2>1 DEF RightObject
<1> QED BY <1>1, RouterInductive, PTL

(* Until a server stops, the id of a request or of a response on its way   *)
(* is the address of the CommReqInfo it was taken from, not freed and not  *)
(* another request's, and that one still waits for this member in this     *)
(* group: the cast in RtrCommRespEvent::process is safe whatever clients   *)
(* leave in the meantime.                                                  *)
THEOREM CastIsSafeHolds == Spec => []CastIsSafe
<1>1. IInv => CastIsSafe
  <2>1. ASSUME IInv, NoneStopped
        PROVE  Promise!ResponsesExpected
    BY <2>1, SafeByTally DEF IInv
  <2> QED BY <2>1 DEF CastIsSafe
<1> QED BY <1>1, RouterInductive, PTL
=============================================================================
