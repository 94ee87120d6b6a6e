------------------------- MODULE Aggregation_proofs -------------------------
(***************************************************************************)
(* Proofs, for any number of clients, requests, objects, groups and        *)
(* CommReqInfos, that the properties of Aggregation follow from its        *)
(* specification.  TypeOK is not inductive by itself, because a response   *)
(* is cast to a CommReqInfo by its id: that the object is still there is   *)
(* ResponsesExpected, which in turn needs the accounting of InfosOK.       *)
(***************************************************************************)
EXTENDS Aggregation, SequenceTheorems, FiniteSetTheorems, TLAPS

(* What CommAssumption says of one communicator: its groups are numbered   *)
(* from 1, and each has at least one and finitely many members.            *)
LEMMA GroupFacts ==
  ASSUME NEW k \in CommId
  PROVE  /\ Len(Members[k]) \in Nat \ {0}
         /\ Groups(k) = 1 .. Len(Members[k])
         /\ \A g \in Groups(k) : /\ g \in Nat \ {0}
                                 /\ Members[k][g] \subseteq Obj
                                 /\ Members[k][g] # {}
                                 /\ IsFiniteSet(Members[k][g])
                                 /\ Cardinality(Members[k][g]) \in Nat
<1>1. Members[k] \in Seq(SUBSET Obj) /\ Members[k] # <<>>
  BY CommAssumption
<1>2. Len(Members[k]) \in Nat \ {0} /\ Groups(k) = 1 .. Len(Members[k])
  BY <1>1, EmptySeq, LenProperties DEF Groups
<1>3. ASSUME NEW g \in Groups(k)
      PROVE  /\ g \in Nat \ {0}
             /\ Members[k][g] \subseteq Obj
             /\ Members[k][g] # {}
             /\ IsFiniteSet(Members[k][g])
  <2>1. g \in 1 .. Len(Members[k])
    BY <1>2
  <2>2. Members[k][g] \in SUBSET Obj
    BY <1>1, <2>1, ElementOfSeq
  <2> QED
    BY <1>2, <2>1, <2>2, CommAssumption DEF Groups
<1>4. \A g \in Groups(k) : Cardinality(Members[k][g]) \in Nat
  BY <1>3, FS_CardinalityType
<1> QED
  BY <1>2, <1>3, <1>4

(* Appending a new element to a sequence without repetitions keeps it so.  *)
LEMMA AppendNew ==
  ASSUME NEW S, NEW q \in Seq(S), NEW e \in S
  PROVE  /\ Append(q, e) \in Seq(S)
         /\ Range(Append(q, e)) = Range(q) \cup {e}
         /\ IsInjective(q) /\ e \notin Range(q) => IsInjective(Append(q, e))
<1> DEFINE a == Append(q, e)
<1>1. /\ a \in Seq(S)
      /\ Len(a) = Len(q) + 1
      /\ \A i \in 1 .. Len(q) : a[i] = q[i]
      /\ a[Len(q) + 1] = e
  BY AppendProperties
<1>2. Len(q) \in Nat /\ DOMAIN q = 1 .. Len(q) /\ DOMAIN a = 1 .. Len(q) + 1
  BY <1>1, LenProperties
<1> HIDE DEF a
<1>3. Range(a) = Range(q) \cup {e}
  <2>1. Range(a) \subseteq Range(q) \cup {e}
    BY <1>1, <1>2 DEF Range
  <2>2. Range(q) \subseteq Range(a)
    <3>1. \A i \in DOMAIN q : i \in DOMAIN a /\ a[i] = q[i]
      BY <1>1, <1>2
    <3> QED
      BY <3>1 DEF Range
  <2>3. e \in Range(a)
    <3>1. Len(q) + 1 \in DOMAIN a
      BY <1>2
    <3> QED
      BY <1>1, <3>1 DEF Range
  <2> QED
    BY <2>1, <2>2, <2>3
<1>4. ASSUME IsInjective(q), e \notin Range(q)
      PROVE  IsInjective(a)
  <2>1. SUFFICES ASSUME NEW m \in DOMAIN a, NEW n \in DOMAIN a, a[m] = a[n]
                 PROVE  m = n
    BY DEF IsInjective
  <2>2. \A i \in DOMAIN q : a[i] = q[i] /\ q[i] # e
    BY <1>1, <1>2, <1>4 DEF Range
  <2>3. m \in DOMAIN q \/ m = Len(q) + 1
    BY <1>2
  <2>4. n \in DOMAIN q \/ n = Len(q) + 1
    BY <1>2
  <2> QED
    BY <1>1, <1>4, <2>1, <2>2, <2>3, <2>4 DEF IsInjective
<1> QED
  BY <1>1, <1>3, <1>4 DEF a

(* A queue of distinct members of a finite group has as many elements as   *)
(* the group exactly when every member is in it: why the comparison of     *)
(* respQ's size with grpInfo in RtrCommRespEvent::process is enough.       *)
LEMMA FullByLength ==
  ASSUME NEW S, NEW q \in Seq(S), IsInjective(q),
         NEW T, IsFiniteSet(T), Range(q) \subseteq T
  PROVE  Len(q) = Cardinality(T) <=> Range(q) = T
<1>1. Len(q) \in Nat /\ DOMAIN q = 1 .. Len(q) /\ q \in [1 .. Len(q) -> S]
  BY LenProperties
<1>2. q \in [1 .. Len(q) -> T]
  BY <1>1 DEF Range
<1>3. q \in Injection(1 .. Len(q), T)
  BY <1>1, <1>2 DEF Injection, IsInjective
<1>4. Cardinality(1 .. Len(q)) = Len(q)
  BY <1>1, FS_Interval
<1>5. Len(q) = Cardinality(T) <=> q \in Surjection(1 .. Len(q), T)
  BY <1>3, <1>4, FS_Injection
<1>6. q \in Surjection(1 .. Len(q), T) <=> Range(q) = T
  BY <1>1, <1>2 DEF Surjection, Range
<1> QED
  BY <1>5, <1>6

(* The open groups of a CommReqInfo are finitely many.                     *)
LEMMA OpenFinite ==
  ASSUME NEW x, x.comm \in CommId
  PROVE  /\ IsFiniteSet(OpenGroups(x))
         /\ OpenGroups(x) \subseteq Groups(x.comm)
<1>1. IsFiniteSet(Groups(x.comm))
  BY GroupFacts, FS_Interval
<1>2. OpenGroups(x) \subseteq Groups(x.comm)
  BY DEF OpenGroups
<1> QED
  BY <1>1, <1>2, FS_Subset

(* The fields of a CommReqInfo, and its queues and values per group.       *)
LEMMA InfoFields ==
  ASSUME NEW x \in Info, InfoOK(x)
  PROVE  /\ x.src \in Client /\ x.id \in ReqId /\ x.comm \in CommId
         /\ x.grpInfo \in Seq(Nat) /\ x.pending \in Nat
         /\ x.respQ \in Seq(Seq(Obj)) /\ x.value \in Seq(Seq(Obj))
         /\ \A g \in Groups(x.comm) : /\ x.respQ[g] \in Seq(Obj)
                                      /\ x.value[g] \in Seq(Obj)
         /\ Len(x.respQ) = Len(Members[x.comm])
         /\ Len(x.value) = Len(Members[x.comm])
         /\ Groups(x.comm) = 1 .. Len(Members[x.comm])
<1>1. /\ x.src \in Client /\ x.id \in ReqId /\ x.comm \in CommId
      /\ x.grpInfo \in Seq(Nat) /\ x.pending \in Nat
      /\ x.respQ \in Seq(Seq(Obj)) /\ x.value \in Seq(Seq(Obj))
  BY DEF Info
<1>2. /\ Groups(x.comm) = 1 .. Len(Members[x.comm])
      /\ Len(Members[x.comm]) \in Nat
  BY <1>1, GroupFacts
<1>3. DOMAIN x.respQ = Groups(x.comm) /\ DOMAIN x.value = Groups(x.comm)
  BY DEF InfoOK
<1>4. /\ DOMAIN x.respQ = 1 .. Len(x.respQ) /\ Len(x.respQ) \in Nat
      /\ DOMAIN x.value = 1 .. Len(x.value) /\ Len(x.value) \in Nat
  BY <1>1, LenProperties
<1>5. /\ Len(x.respQ) = Len(Members[x.comm])
      /\ Len(x.value) = Len(Members[x.comm])
  BY <1>2, <1>3, <1>4
<1>6. \A g \in Groups(x.comm) : x.respQ[g] \in Seq(Obj) /\ x.value[g] \in Seq(Obj)
  BY <1>1, <1>3, <1>4, ElementOfSeq
<1> QED
  BY <1>1, <1>2, <1>5, <1>6

(* The CommReqInfo that RtrCommReqEvent::process makes: nothing received,  *)
(* every group open.                                                       *)
LEMMA NewInfoOK ==
  ASSUME NEW r \in Request
  PROVE  /\ NewInfo(r) \in Info
         /\ InfoOK(NewInfo(r))
         /\ \A g \in Groups(r.comm) : Range(NewInfo(r).respQ[g]) = {}
<1> DEFINE k == r.comm
           n == Len(Members[k])
           x == NewInfo(r)
<1>1. r.src \in Client /\ r.id \in ReqId /\ k \in CommId
  BY DEF Request
<1>2. /\ n \in Nat \ {0}
      /\ Groups(k) = 1 .. n
      /\ \A g \in Groups(k) : /\ Members[k][g] # {}
                              /\ Cardinality(Members[k][g]) \in Nat
  BY <1>1, GroupFacts
<1>3. /\ [g \in Groups(k) |-> Cardinality(Members[k][g])] \in Seq(Nat)
      /\ [g \in Groups(k) |-> <<>>] \in Seq(Seq(Obj))
  <2>1. <<>> \in Seq(Obj)
    BY EmptySeq
  <2>2. [g \in 1 .. n |-> Cardinality(Members[k][g])] \in [1 .. n -> Nat]
    BY <1>2
  <2>3. [g \in 1 .. n |-> <<>>] \in [1 .. n -> Seq(Obj)]
    BY <2>1
  <2> QED
    BY <1>2, <2>2, <2>3, SeqDef
<1>4. x \in Info
  BY <1>1, <1>2, <1>3 DEF NewInfo, Info
<1>5. \A g \in Groups(k) : /\ x.respQ[g] = <<>>
                           /\ Range(x.respQ[g]) = {}
                           /\ IsInjective(x.respQ[g])
  <2>1. Range(<<>>) = {} /\ IsInjective(<<>>)
    BY DEF Range, IsInjective
  <2> QED
    BY <2>1 DEF NewInfo
<1>6. x.comm = k
  BY DEF NewInfo
<1>7. OpenGroups(x) = 1 .. n
  BY <1>2, <1>5, <1>6 DEF OpenGroups
<1>8. x.pending = Cardinality(OpenGroups(x)) /\ OpenGroups(x) # {}
  <2>1. Cardinality(1 .. n) = n
    BY <1>2, FS_Interval
  <2>2. 1 \in 1 .. n
    BY <1>2
  <2>3. x.pending = n
    BY DEF NewInfo
  <2> QED
    BY <1>7, <2>1, <2>2, <2>3
<1>9. InfoOK(x)
  BY <1>2, <1>5, <1>6, <1>8 DEF InfoOK, NewInfo
<1> QED
  BY <1>4, <1>5, <1>6, <1>9

(* The queue of a group after an expected response.                        *)
LEMMA QueueFacts ==
  ASSUME NEW x \in Info, InfoOK(x), NEW g \in Groups(x.comm),
         NEW o \in Members[x.comm][g], o \notin Range(x.respQ[g])
  PROVE  LET q == Append(x.respQ[g], o)
         IN  /\ q \in Seq(Obj)
             /\ IsInjective(q)
             /\ Range(q) = Range(x.respQ[g]) \cup {o}
             /\ Range(q) \subseteq Members[x.comm][g]
             /\ Len(q) = x.grpInfo[g] <=> Range(q) = Members[x.comm][g]
             /\ g \in OpenGroups(x)
<1> DEFINE q == Append(x.respQ[g], o)
           T == Members[x.comm][g]
<1>1. /\ x.respQ[g] \in Seq(Obj) /\ IsInjective(x.respQ[g])
      /\ Range(x.respQ[g]) \subseteq T
      /\ x.grpInfo[g] = Cardinality(T)
  BY InfoFields DEF InfoOK
<1>2. T \subseteq Obj /\ IsFiniteSet(T)
  BY InfoFields, GroupFacts
<1>3. /\ q \in Seq(Obj) /\ IsInjective(q)
      /\ Range(q) = Range(x.respQ[g]) \cup {o}
  BY <1>1, <1>2, AppendNew
<1>4. Range(q) \subseteq T
  BY <1>1, <1>3
<1>5. Len(q) = Cardinality(T) <=> Range(q) = T
  BY <1>2, <1>3, <1>4, FullByLength
<1>6. g \in OpenGroups(x)
  BY DEF OpenGroups
<1> QED
  BY <1>1, <1>3, <1>4, <1>5, <1>6

(* A response that leaves its group incomplete.                            *)
LEMMA CollectOK ==
  ASSUME NEW x \in Info, InfoOK(x), NEW g \in Groups(x.comm),
         NEW o \in Members[x.comm][g], o \notin Range(x.respQ[g]),
         Len(Append(x.respQ[g], o)) # x.grpInfo[g]
  PROVE  LET y == [x EXCEPT !.respQ[g] = Append(x.respQ[g], o)]
         IN  y \in Info /\ InfoOK(y)
<1> DEFINE q == Append(x.respQ[g], o)
           y == [x EXCEPT !.respQ[g] = q]
<1>1. /\ q \in Seq(Obj) /\ IsInjective(q)
      /\ Range(q) \subseteq Members[x.comm][g]
      /\ Range(q) # Members[x.comm][g]
      /\ g \in OpenGroups(x)
  BY QueueFacts
<1>2. /\ x.respQ \in Seq(Seq(Obj)) /\ g \in 1 .. Len(x.respQ)
      /\ DOMAIN x.respQ = Groups(x.comm)
  BY InfoFields DEF InfoOK
<1> HIDE DEF q
<1>3. [x.respQ EXCEPT ![g] = q] \in Seq(Seq(Obj))
  BY <1>1, <1>2, ExceptSeq
<1>4. /\ y = [x EXCEPT !.respQ = [x.respQ EXCEPT ![g] = q]]
      /\ y.comm = x.comm /\ y.grpInfo = x.grpInfo /\ y.value = x.value
      /\ y.pending = x.pending
      /\ y.respQ = [x.respQ EXCEPT ![g] = q]
  BY DEF Info
<1>5. y \in Info
  BY <1>3, <1>4 DEF Info
<1>6. /\ DOMAIN y.respQ = Groups(x.comm)
      /\ y.respQ[g] = q
      /\ \A h \in Groups(x.comm) : h # g => y.respQ[h] = x.respQ[h]
  BY <1>2, <1>4
<1> HIDE DEF y
<1>7. OpenGroups(y) = OpenGroups(x)
  BY <1>1, <1>4, <1>6 DEF OpenGroups
<1>8. InfoOK(y)
  BY <1>1, <1>4, <1>6, <1>7 DEF InfoOK
<1> QED
  BY <1>5, <1>8 DEF y, q

(* A response that completes its group closes that group and no other.     *)
LEMMA OneGroupLess ==
  ASSUME NEW x \in Info, InfoOK(x), NEW g \in OpenGroups(x)
  PROVE  /\ Cardinality(OpenGroups(x) \ {g}) = x.pending - 1
         /\ x.pending = 1 <=> OpenGroups(x) = {g}
<1>1. /\ x.comm \in CommId /\ x.pending \in Nat
      /\ x.pending = Cardinality(OpenGroups(x))
  BY InfoFields DEF InfoOK
<1>2. IsFiniteSet(OpenGroups(x))
  BY <1>1, OpenFinite
<1>3. Cardinality(OpenGroups(x) \ {g}) = x.pending - 1
  BY <1>1, <1>2, FS_RemoveElement
<1>4. OpenGroups(x) = {g} <=> OpenGroups(x) \ {g} = {}
  OBVIOUS
<1>5. OpenGroups(x) \ {g} = {} <=> Cardinality(OpenGroups(x) \ {g}) = 0
  BY <1>2, FS_RemoveElement, FS_EmptySet
<1> QED
  BY <1>1, <1>3, <1>4, <1>5

LEMMA CompleteOK ==
  ASSUME NEW x \in Info, InfoOK(x), NEW g \in Groups(x.comm),
         NEW o \in Members[x.comm][g], o \notin Range(x.respQ[g]),
         Len(Append(x.respQ[g], o)) = x.grpInfo[g], x.pending > 1
  PROVE  LET q == Append(x.respQ[g], o)
             y == [x EXCEPT !.respQ[g] = q,
                            !.value = [x.value EXCEPT ![g] = q],
                            !.pending = @ - 1]
         IN  y \in Info /\ InfoOK(y)
<1> DEFINE q == Append(x.respQ[g], o)
           y == [x EXCEPT !.respQ[g] = q,
                          !.value = [x.value EXCEPT ![g] = q],
                          !.pending = @ - 1]
<1>1. /\ q \in Seq(Obj) /\ IsInjective(q)
      /\ Range(q) = Members[x.comm][g]
      /\ g \in OpenGroups(x)
  BY QueueFacts
<1>2. /\ x.respQ \in Seq(Seq(Obj)) /\ g \in 1 .. Len(x.respQ)
      /\ x.value \in Seq(Seq(Obj)) /\ g \in 1 .. Len(x.value)
      /\ DOMAIN x.respQ = Groups(x.comm) /\ DOMAIN x.value = Groups(x.comm)
      /\ x.pending \in Nat
  BY InfoFields DEF InfoOK
<1> HIDE DEF q
<1>3. /\ [x.respQ EXCEPT ![g] = q] \in Seq(Seq(Obj))
      /\ [x.value EXCEPT ![g] = q] \in Seq(Seq(Obj))
  BY <1>1, <1>2, ExceptSeq
<1>4. /\ y.src = x.src /\ y.id = x.id
      /\ y.comm = x.comm /\ y.grpInfo = x.grpInfo
      /\ y.pending = x.pending - 1
      /\ y.respQ = [x.respQ EXCEPT ![g] = q]
      /\ y.value = [x.value EXCEPT ![g] = q]
  BY DEF Info
<1>5. y \in Info
  <2>1. x.pending - 1 \in Nat
    BY <1>2
  <2> QED
    BY <1>3, <2>1 DEF Info
<1>6. /\ DOMAIN y.respQ = Groups(x.comm) /\ DOMAIN y.value = Groups(x.comm)
      /\ y.respQ[g] = q /\ y.value[g] = q
      /\ \A h \in Groups(x.comm) : h # g => /\ y.respQ[h] = x.respQ[h]
                                            /\ y.value[h] = x.value[h]
  BY <1>2, <1>4
<1> HIDE DEF y
<1>7. OpenGroups(y) = OpenGroups(x) \ {g}
  BY <1>1, <1>4, <1>6 DEF OpenGroups
<1>8. OpenGroups(y) # {} /\ y.pending = Cardinality(OpenGroups(y))
  <2>1. OpenGroups(x) # {g}
    <3>1. x.pending = 1 <=> OpenGroups(x) = {g}
      BY <1>1, OneGroupLess
    <3>2. x.pending # 1
      BY <1>2
    <3> QED
      BY <3>1, <3>2
  <2>2. Cardinality(OpenGroups(x) \ {g}) = x.pending - 1
    BY <1>1, OneGroupLess
  <2> QED
    BY <1>1, <1>4, <1>7, <2>1, <2>2
<1>9. InfoOK(y)
  BY <1>1, <1>4, <1>6, <1>8 DEF InfoOK
<1> QED
  BY <1>5, <1>9 DEF y, q

(* The last response of the last group: the value sent is complete.        *)
LEMMA ReplyOK ==
  ASSUME NEW x \in Info, InfoOK(x), NEW g \in Groups(x.comm),
         NEW o \in Members[x.comm][g], o \notin Range(x.respQ[g]),
         Len(Append(x.respQ[g], o)) = x.grpInfo[g], x.pending = 1
  PROVE  LET v == [x.value EXCEPT ![g] = Append(x.respQ[g], o)]
         IN  /\ v \in Seq(Seq(Obj))
             /\ DOMAIN v = Groups(x.comm)
             /\ \A h \in Groups(x.comm) : /\ Range(v[h]) = Members[x.comm][h]
                                          /\ IsInjective(v[h])
<1> DEFINE q == Append(x.respQ[g], o)
           v == [x.value EXCEPT ![g] = q]
<1>1. /\ q \in Seq(Obj) /\ IsInjective(q)
      /\ Range(q) = Members[x.comm][g]
      /\ g \in OpenGroups(x)
  BY QueueFacts
<1>2. /\ x.value \in Seq(Seq(Obj)) /\ g \in 1 .. Len(x.value)
      /\ DOMAIN x.value = Groups(x.comm)
  BY InfoFields DEF InfoOK
<1>3. OpenGroups(x) = {g}
  BY <1>1, OneGroupLess
<1> HIDE DEF q
<1>4. v \in Seq(Seq(Obj))
  BY <1>1, <1>2, ExceptSeq
<1>5. ASSUME NEW h \in Groups(x.comm), h # g
      PROVE  Range(v[h]) = Members[x.comm][h] /\ IsInjective(v[h])
  <2>1. Range(x.respQ[h]) = Members[x.comm][h]
    BY <1>3, <1>5 DEF OpenGroups
  <2>2. x.value[h] = x.respQ[h] /\ IsInjective(x.respQ[h])
    BY <2>1 DEF InfoOK
  <2>3. v[h] = x.value[h]
    BY <1>2, <1>5
  <2> QED
    BY <2>1, <2>2, <2>3
<1>6. v[g] = q /\ DOMAIN v = Groups(x.comm)
  BY <1>2
<1> HIDE DEF v
<1>7. \A h \in Groups(x.comm) : /\ Range(v[h]) = Members[x.comm][h]
                               /\ IsInjective(v[h])
  BY <1>1, <1>5, <1>6
<1> QED
  BY <1>4, <1>6, <1>7 DEF v, q

-----------------------------------------------------------------------------
(* The invariant says of a live CommReqInfo that it is well formed and     *)
(* that its request is the one its requester waits for.                    *)
LEMMA LiveFacts ==
  ASSUME IInv, NEW i \in Live
  PROVE  /\ i \in InfoId /\ info[i] \in Info /\ InfoOK(info[i])
         /\ info[i].src \in Client /\ info[i].id \in ReqId
         /\ info[i].comm \in CommId
         /\ waiting[info[i].src][info[i].id] = info[i].comm
<1>1. i \in InfoId /\ info[i] \in Info
  BY DEF IInv, TypeOK, Live
<1>2. InfoOK(info[i]) /\ waiting[info[i].src][info[i].id] = info[i].comm
  BY DEF IInv, InfosOK
<1> QED
  BY <1>1, <1>2, InfoFields

(* An answer is typed, and its requester waits for it.                     *)
LEMMA AnswerFacts ==
  ASSUME IInv, NEW d \in Client, NEW n \in DOMAIN answers[d]
  PROVE  /\ answers[d] \in Seq(Answer) /\ answers[d][n] \in Answer
         /\ answers[d][n].id \in ReqId
         /\ waiting[d][answers[d][n].id] # NoComm
<1>1. answers[d] \in Seq(Answer)
  BY DEF IInv, TypeOK
<1>2. answers[d][n] \in Answer
  BY <1>1, LenProperties, ElementOfSeq
<1>3. answers[d][n].id \in ReqId
  BY <1>2 DEF Answer
<1>4. waiting[d][answers[d][n].id] # NoComm
  BY DEF IInv, AnswersComplete
<1> QED
  BY <1>1, <1>2, <1>3, <1>4

LEMMA InitHolds == Init => IInv
<1> SUFFICES ASSUME Init PROVE IInv
  OBVIOUS
<1>1. Live = {} /\ InFlight = {}
  BY DEF Init, Live, InFlight
<1>2. TypeOK
  BY EmptySeq DEF Init, TypeOK
<1>3. \A c \in Client : DOMAIN answers[c] = {}
  BY DEF Init
<1> QED
  BY <1>1, <1>2, <1>3 DEF Init, IInv, InfosOK, ResponsesExpected, MissingInFlight,
     Disjoint, AskedOnce, AnsweredOnce, AnswersComplete

(* A new request: its CommReq is not in use, so no request, CommReqInfo    *)
(* or answer carries its address.                                          *)
LEMMA AskStep ==
  ASSUME IInv, NEW c \in Client, NEW q \in ReqId, NEW k \in CommId, Ask(c, q, k)
  PROVE  IInv'
<1> DEFINE r == [src |-> c, id |-> q, comm |-> k]
<1> USE DEF Ask
<1>1. /\ waiting \in [Client -> [ReqId -> CommId \cup {NoComm}]]
      /\ asked \in SUBSET Request
  BY DEF IInv, TypeOK
<1>2. \A d \in Client, p \in ReqId :
         waiting[d][p] # NoComm => waiting'[d][p] = waiting[d][p]
  BY <1>1
<1>3. waiting'[c][q] = k
  BY <1>1
<1>4. r \in Request
  BY DEF Request
<1>5. TypeOK'
  <2>1. waiting' \in [Client -> [ReqId -> CommId \cup {NoComm}]]
    BY <1>1
  <2>2. asked' \in SUBSET Request
    BY <1>1, <1>4
  <2> QED
    BY <2>1, <2>2 DEF IInv, TypeOK
<1>6. Live' = Live /\ InFlight' = InFlight
  BY DEF Live, InFlight
<1>7. \A i \in Live : /\ waiting[info[i].src][info[i].id] # NoComm
                     /\ waiting'[info[i].src][info[i].id] = info[i].comm
  BY <1>2, LiveFacts, NullAssumption
<1>8. \A d \in Client : \A n \in DOMAIN answers[d] :
         /\ answers[d][n].id \in ReqId
         /\ waiting[d][answers[d][n].id] # NoComm
         /\ waiting'[d][answers[d][n].id] = waiting[d][answers[d][n].id]
  BY <1>2, AnswerFacts
<1>9. InfosOK'
  BY <1>6, <1>7 DEF IInv, InfosOK
<1>10. ResponsesExpected' /\ MissingInFlight' /\ Disjoint'
  BY <1>6 DEF IInv, ResponsesExpected, MissingInFlight, Disjoint
<1>11. AskedOnce'
  <2>1. \A i \in Live : ~ (info[i].src = c /\ info[i].id = q)
    BY <1>7
  <2>2. \A n \in DOMAIN answers[c] : answers[c][n].id # q
    BY <1>8
  <2>3. ASSUME NEW p \in asked
        PROVE  waiting'[p.src][p.id] = p.comm
    <3>1. p.src \in Client /\ p.id \in ReqId /\ p.comm \in CommId
      BY <1>1 DEF Request
    <3>2. waiting[p.src][p.id] = p.comm
      BY DEF IInv, AskedOnce
    <3> QED
      BY <1>2, <3>1, <3>2, NullAssumption
  <2>4. ASSUME NEW p \in asked'
        PROVE  /\ waiting'[p.src][p.id] = p.comm
               /\ \A i \in Live : ~ (info[i].src = p.src /\ info[i].id = p.id)
               /\ \A n \in DOMAIN answers[p.src] : answers[p.src][n].id # p.id
    <3>1. CASE p \in asked
      BY <2>3, <3>1 DEF IInv, AskedOnce
    <3>2. CASE p = r
      BY <1>3, <2>1, <2>2, <3>2
    <3> QED
      BY <3>1, <3>2
  <2> QED
    BY <1>6, <2>4 DEF AskedOnce
<1>12. AnsweredOnce'
  BY <1>6 DEF IInv, AnsweredOnce
<1>13. AnswersComplete'
  BY <1>8 DEF IInv, AnswersComplete
<1> QED
  BY <1>5, <1>9, <1>10, <1>11, <1>12, <1>13 DEF IInv

(* Reading an answer frees its CommReq, and nothing else carries that      *)
(* CommReq's address.                                                      *)
LEMMA ReadStep ==
  ASSUME IInv, NEW c \in Client, Read(c)
  PROVE  IInv'
<1> DEFINE q == answers[c][1].id
<1> USE DEF Read
<1>1. /\ waiting \in [Client -> [ReqId -> CommId \cup {NoComm}]]
      /\ answers \in [Client -> Seq(Answer)]
  BY DEF IInv, TypeOK
<1>2. /\ answers[c] \in Seq(Answer) /\ answers[c] # <<>>
      /\ Head(answers[c]) = answers[c][1]
      /\ 1 \in DOMAIN answers[c] /\ q \in ReqId
  <2>1. answers[c] \in Seq(Answer) /\ answers[c] # <<>>
    BY <1>1
  <2>2. Head(answers[c]) = answers[c][1] /\ 1 \in DOMAIN answers[c]
    BY <2>1, EmptySeq, LenProperties
  <2> QED
    BY <2>1, <2>2, AnswerFacts
<1>3. /\ answers' = [answers EXCEPT ![c] = Tail(answers[c])]
      /\ waiting' = [waiting EXCEPT ![c][q] = NoComm]
  BY <1>2
<1>4. /\ Tail(answers[c]) \in Seq(Answer)
      /\ \A n \in DOMAIN Tail(answers[c]) :
           /\ n + 1 \in DOMAIN answers[c]
           /\ n + 1 # 1
           /\ Tail(answers[c])[n] = answers[c][n + 1]
  <2>1. /\ Tail(answers[c]) \in Seq(Answer)
        /\ Len(Tail(answers[c])) = Len(answers[c]) - 1
        /\ \A n \in 1 .. Len(Tail(answers[c])) :
             Tail(answers[c])[n] = answers[c][n + 1]
    BY <1>2, HeadTailProperties
  <2>2. /\ Len(answers[c]) \in Nat
        /\ DOMAIN answers[c] = 1 .. Len(answers[c])
        /\ DOMAIN Tail(answers[c]) = 1 .. Len(Tail(answers[c]))
    BY <1>2, <2>1, LenProperties
  <2> QED
    BY <2>1, <2>2
<1>5. \A d \in Client, p \in ReqId :
         d # c \/ p # q => waiting'[d][p] = waiting[d][p]
  BY <1>1, <1>3
<1>6. answers'[c] = Tail(answers[c])
  BY <1>1, <1>3
<1>7. \A d \in Client \ {c} : answers'[d] = answers[d]
  BY <1>1, <1>3
<1>8. TypeOK'
  <2>1. waiting' \in [Client -> [ReqId -> CommId \cup {NoComm}]]
    BY <1>1, <1>2, <1>3
  <2>2. answers' \in [Client -> Seq(Answer)]
    BY <1>1, <1>3, <1>4
  <2> QED
    BY <2>1, <2>2 DEF IInv, TypeOK
<1>9. Live' = Live /\ InFlight' = InFlight
  BY DEF Live, InFlight
<1>10. InfosOK'
  <2>1. \A i \in Live : ~ (info[i].src = c /\ info[i].id = q)
    BY <1>2 DEF IInv, AnsweredOnce
  <2>2. \A i \in Live : waiting'[info[i].src][info[i].id] = info[i].comm
    BY <1>5, <2>1, LiveFacts
  <2> QED
    BY <1>9, <2>2 DEF IInv, InfosOK
<1>11. ResponsesExpected' /\ MissingInFlight' /\ Disjoint'
  BY <1>9 DEF IInv, ResponsesExpected, MissingInFlight, Disjoint
<1>12. AskedOnce'
  <2> SUFFICES ASSUME NEW r \in asked
               PROVE  /\ waiting'[r.src][r.id] = r.comm
                      /\ \A i \in Live : ~ (info[i].src = r.src /\ info[i].id = r.id)
                      /\ \A n \in DOMAIN answers'[r.src] : answers'[r.src][n].id # r.id
    BY <1>9 DEF AskedOnce
  <2>1. r.src \in Client /\ r.id \in ReqId
    BY DEF IInv, TypeOK, Request
  <2>2. /\ waiting[r.src][r.id] = r.comm
        /\ \A i \in Live : ~ (info[i].src = r.src /\ info[i].id = r.id)
        /\ \A n \in DOMAIN answers[r.src] : answers[r.src][n].id # r.id
    BY DEF IInv, AskedOnce
  <2>3. r.src # c \/ r.id # q
    BY <1>2, <2>2
  <2>4. \A n \in DOMAIN answers'[r.src] : answers'[r.src][n].id # r.id
    BY <1>4, <1>6, <1>7, <2>1, <2>2
  <2> QED
    BY <1>5, <2>1, <2>2, <2>3, <2>4
<1>13. AnsweredOnce'
  <2>1. ASSUME NEW d \in Client, NEW m \in DOMAIN answers'[d],
               NEW n \in DOMAIN answers'[d], answers'[d][m].id = answers'[d][n].id
        PROVE  m = n
    <3>1. CASE d = c
      <4>1. m + 1 = n + 1
        BY <1>4, <1>6, <2>1, <3>1 DEF IInv, AnsweredOnce
      <4>2. m \in Int /\ n \in Int
        BY <1>4, <1>6, <2>1, <3>1, LenProperties
      <4> QED
        BY <4>1, <4>2
    <3>2. CASE d # c
      BY <1>7, <2>1, <3>2 DEF IInv, AnsweredOnce
    <3> QED
      BY <3>1, <3>2
  <2>2. ASSUME NEW d \in Client, NEW n \in DOMAIN answers'[d], NEW i \in Live
        PROVE  ~ (info[i].src = d /\ info[i].id = answers'[d][n].id)
    <3>1. CASE d = c
      BY <1>4, <1>6, <2>2, <3>1 DEF IInv, AnsweredOnce
    <3>2. CASE d # c
      BY <1>7, <2>2, <3>2 DEF IInv, AnsweredOnce
    <3> QED
      BY <3>1, <3>2
  <2>3. \A i, j \in Live : info[i].src = info[j].src /\ info[i].id = info[j].id => i = j
    BY DEF IInv, AnsweredOnce
  <2> QED
    BY <1>9, <2>1, <2>2, <2>3 DEF AnsweredOnce
<1>14. AnswersComplete'
  <2> SUFFICES ASSUME NEW d \in Client, NEW n \in DOMAIN answers'[d]
               PROVE  LET a == answers'[d][n]
                          k == waiting'[d][a.id]
                      IN  /\ k # NoComm
                          /\ DOMAIN a.value = Groups(k)
                          /\ \A g \in Groups(k) : /\ Range(a.value[g]) = Members[k][g]
                                                  /\ IsInjective(a.value[g])
    BY DEF AnswersComplete, Groups
  <2>1. PICK m \in DOMAIN answers[d] : /\ answers'[d][n] = answers[d][m]
                                       /\ d = c => m # 1
    <3>1. CASE d = c
      BY <1>4, <1>6, <3>1
    <3>2. CASE d # c
      BY <1>7, <3>2
    <3> QED
      BY <3>1, <3>2
  <2>2. d # c \/ answers[d][m].id # q
    BY <1>2, <2>1 DEF IInv, AnsweredOnce
  <2>3. waiting'[d][answers[d][m].id] = waiting[d][answers[d][m].id]
    BY <1>5, <2>2, AnswerFacts
  <2> DEFINE b == answers[d][m]
             h == waiting[d][b.id]
  <2>4. /\ h # NoComm
        /\ DOMAIN b.value = Groups(h)
        /\ \A g \in Groups(h) : Range(b.value[g]) = Members[h][g] /\ IsInjective(b.value[g])
    BY DEF IInv, AnswersComplete
  <2>5. answers'[d][n] = b /\ waiting'[d][b.id] = h
    BY <2>1, <2>3
  <2> HIDE DEF b, h
  <2> QED
    BY <2>4, <2>5
<1> QED
  BY <1>8, <1>10, <1>11, <1>12, <1>13, <1>14 DEF IInv

(* Serving or losing a copy moves it from one set to another.              *)
LEMMA ServeStep ==
  ASSUME IInv, NEW t \in toSrvr, Serve(t)
  PROVE  IInv'
<1> USE DEF Serve
<1>1. toSrvr \in SUBSET Copy /\ toRtr \in SUBSET Copy
  BY DEF IInv, TypeOK
<1>2. TypeOK'
  BY <1>1 DEF IInv, TypeOK
<1>3. Live' = Live /\ InFlight' = InFlight
  BY DEF Live, InFlight
<1>4. Disjoint'
  BY DEF IInv, Disjoint
<1>5. InfosOK' /\ ResponsesExpected' /\ MissingInFlight'
  BY <1>3 DEF IInv, InfosOK, ResponsesExpected, MissingInFlight
<1>6. AskedOnce' /\ AnsweredOnce' /\ AnswersComplete'
  BY <1>3 DEF IInv, AskedOnce, AnsweredOnce, AnswersComplete
<1> QED
  BY <1>2, <1>4, <1>5, <1>6 DEF IInv

LEMMA LoseStep ==
  ASSUME IInv, NEW t \in toSrvr \cup toRtr, Lose(t)
  PROVE  IInv'
<1> USE DEF Lose
<1>1. toSrvr \in SUBSET Copy /\ toRtr \in SUBSET Copy /\ lost \in SUBSET Copy
  BY DEF IInv, TypeOK
<1>2. TypeOK'
  BY <1>1 DEF IInv, TypeOK
<1>3. Live' = Live /\ InFlight' = InFlight
  BY DEF Live, InFlight
<1>4. Disjoint'
  BY DEF IInv, Disjoint
<1>5. InfosOK' /\ ResponsesExpected' /\ MissingInFlight'
  BY <1>3 DEF IInv, InfosOK, ResponsesExpected, MissingInFlight
<1>6. AskedOnce' /\ AnsweredOnce' /\ AnswersComplete'
  BY <1>3 DEF IInv, AskedOnce, AnsweredOnce, AnswersComplete
<1> QED
  BY <1>2, <1>4, <1>5, <1>6 DEF IInv

(* A request becomes a CommReqInfo at an unused address, and copies that   *)
(* carry this address and no other copy does.                              *)
LEMMA FanStep ==
  ASSUME IInv, NEW r \in asked, NEW i \in InfoId, Fan(r, i)
  PROVE  IInv'
<1> DEFINE x == NewInfo(r)
           new == Copies(i, r.comm)
<1> USE DEF Fan
<1>1. /\ info \in [InfoId -> Info \cup {Free}] /\ asked \in SUBSET Request
      /\ toSrvr \in SUBSET Copy /\ toRtr \in SUBSET Copy /\ lost \in SUBSET Copy
  BY DEF IInv, TypeOK
<1>2. /\ r \in Request /\ r.src \in Client /\ r.id \in ReqId /\ r.comm \in CommId
      /\ waiting[r.src][r.id] = r.comm
  BY <1>1 DEF Request, IInv, AskedOnce
<1>3. /\ x \in Info /\ InfoOK(x) /\ x # Free
      /\ \A g \in Groups(r.comm) : Range(x.respQ[g]) = {}
  BY <1>2, NewInfoOK, FreeAssumption
<1>4. x.src = r.src /\ x.id = r.id /\ x.comm = r.comm
  BY DEF NewInfo
<1> HIDE DEF x
<1>5. /\ info'[i] = x
      /\ \A j \in InfoId \ {i} : info'[j] = info[j]
  BY <1>1 DEF x
<1>6. Live' = Live \cup {i} /\ i \notin Live
  BY <1>3, <1>5 DEF Live
<1>7. \A t : t \in new <=> /\ t \in [info : {i}, grp : Groups(r.comm), obj : Obj]
                           /\ t.obj \in Members[r.comm][t.grp]
  BY DEF Copies
<1>8. \A t \in new : /\ t \in Copy /\ t.info = i /\ t.grp \in Groups(r.comm)
                     /\ t.obj \in Members[r.comm][t.grp]
  BY <1>2, <1>7, GroupFacts DEF Copy
<1>9. toSrvr' = toSrvr \cup new /\ InFlight' = InFlight \cup new
  BY DEF InFlight
<1> HIDE DEF new
<1>10. \A t \in InFlight : t.info \in InfoId /\ info[t.info] # Free /\ t.info # i
  BY <1>1 DEF IInv, ResponsesExpected, InFlight, Copy
<1>11. TypeOK'
  <2>1. info' \in [InfoId -> Info \cup {Free}]
    BY <1>1, <1>3 DEF x
  <2>2. toSrvr' \in SUBSET Copy
    BY <1>1, <1>8, <1>9
  <2> QED
    BY <1>1, <2>1, <2>2 DEF IInv, TypeOK
<1>12. InfosOK'
  BY <1>2, <1>3, <1>4, <1>5, <1>6 DEF IInv, InfosOK, Live
<1>13. ResponsesExpected'
  <2> SUFFICES ASSUME NEW t \in InFlight'
               PROVE  /\ info'[t.info] # Free
                      /\ t.grp \in Groups(info'[t.info].comm)
                      /\ t.obj \in Members[info'[t.info].comm][t.grp]
                      /\ t.obj \notin Range(info'[t.info].respQ[t.grp])
    BY DEF ResponsesExpected
  <2>1. CASE t \in InFlight
    BY <1>5, <1>10, <2>1 DEF IInv, ResponsesExpected
  <2>2. CASE t \in new
    BY <1>3, <1>4, <1>5, <1>8, <2>2
  <2> QED
    BY <1>9, <2>1, <2>2
<1>14. MissingInFlight'
  <2> SUFFICES ASSUME NEW j \in Live', NEW g \in Groups(info'[j].comm),
                      NEW o \in Members[info'[j].comm][g], o \notin Range(info'[j].respQ[g])
               PROVE  [info |-> j, grp |-> g, obj |-> o] \in InFlight'
    BY DEF MissingInFlight
  <2>1. CASE j \in Live
    <3>1. info'[j] = info[j]
      BY <1>5, <1>6, <2>1 DEF Live
    <3> QED
      BY <1>9, <2>1, <3>1 DEF IInv, MissingInFlight
  <2>2. CASE j = i
    <3>1. g \in Groups(r.comm) /\ o \in Members[r.comm][g] /\ o \in Obj
      BY <1>2, <1>4, <1>5, <2>2, GroupFacts
    <3> QED
      BY <1>7, <1>9, <2>2, <3>1
  <2> QED
    BY <1>6, <2>1, <2>2
<1>15. Disjoint'
  BY <1>8, <1>9, <1>10 DEF IInv, Disjoint, InFlight
<1>16. \A j \in Live' : (j = i /\ info'[j] = x) \/ (j \in Live /\ info'[j] = info[j])
  <2>1. \A j \in Live : j \in InfoId \ {i}
    BY <1>6 DEF Live
  <2> QED
    BY <1>5, <1>6, <2>1
<1>17. AskedOnce'
  <2> SUFFICES ASSUME NEW p \in asked, p # r
               PROVE  /\ waiting[p.src][p.id] = p.comm
                      /\ \A j \in Live' : ~ (info'[j].src = p.src /\ info'[j].id = p.id)
                      /\ \A n \in DOMAIN answers[p.src] : answers[p.src][n].id # p.id
    BY DEF AskedOnce
  <2>1. /\ waiting[p.src][p.id] = p.comm
        /\ \A j \in Live : ~ (info[j].src = p.src /\ info[j].id = p.id)
        /\ \A n \in DOMAIN answers[p.src] : answers[p.src][n].id # p.id
    BY DEF IInv, AskedOnce
  <2>2. ~ (p.src = r.src /\ p.id = r.id)
    BY <1>1, <1>2, <2>1 DEF Request
  <2>3. \A j \in Live' : ~ (info'[j].src = p.src /\ info'[j].id = p.id)
    <3> SUFFICES ASSUME NEW j \in Live'
                 PROVE  ~ (info'[j].src = p.src /\ info'[j].id = p.id)
      OBVIOUS
    <3>1. CASE j = i /\ info'[j] = x
      BY <1>4, <2>2, <3>1
    <3>2. CASE j \in Live /\ info'[j] = info[j]
      BY <2>1, <3>2
    <3> QED
      BY <1>16, <3>1, <3>2
  <2> QED
    BY <2>1, <2>3
<1>18. AnsweredOnce'
  <2>1. /\ \A j \in Live : ~ (info[j].src = r.src /\ info[j].id = r.id)
        /\ \A n \in DOMAIN answers[r.src] : answers[r.src][n].id # r.id
    BY DEF IInv, AskedOnce
  <2>2. \A j, l \in Live' :
          info'[j].src = info'[l].src /\ info'[j].id = info'[l].id => j = l
    BY <1>4, <1>16, <2>1 DEF IInv, AnsweredOnce
  <2>3. \A c \in Client : \A n \in DOMAIN answers[c] : \A j \in Live' :
          ~ (info'[j].src = c /\ info'[j].id = answers[c][n].id)
    BY <1>4, <1>16, <2>1 DEF IInv, AnsweredOnce
  <2>4. \A c \in Client : \A m, n \in DOMAIN answers[c] :
          answers[c][m].id = answers[c][n].id => m = n
    BY DEF IInv, AnsweredOnce
  <2> QED
    BY <2>2, <2>3, <2>4 DEF AnsweredOnce
<1>19. AnswersComplete'
  BY DEF IInv, AnswersComplete
<1> QED
  BY <1>11, <1>12, <1>13, <1>14, <1>15, <1>17, <1>18, <1>19 DEF IInv

(* What RtrCommRespEvent::process relies on when it casts the id of a      *)
(* response to a CommReqInfo.                                              *)
LEMMA RespFacts ==
  ASSUME IInv, NEW t \in InFlight
  PROVE  /\ t \in Copy /\ t.info \in Live
         /\ t.grp \in Groups(info[t.info].comm)
         /\ t.obj \in Members[info[t.info].comm][t.grp]
         /\ t.obj \notin Range(info[t.info].respQ[t.grp])
<1>1. t \in Copy /\ t.info \in InfoId
  BY DEF IInv, TypeOK, InFlight, Copy
<1>2. /\ info[t.info] # Free
      /\ t.grp \in Groups(info[t.info].comm)
      /\ t.obj \in Members[info[t.info].comm][t.grp]
      /\ t.obj \notin Range(info[t.info].respQ[t.grp])
  BY DEF IInv, ResponsesExpected
<1> QED
  BY <1>1, <1>2 DEF Live

(* A response that does not finish its request: the CommReqInfo takes a    *)
(* new value y that differs from the old one by this response.             *)
LEMMA ReceiveStep ==
  ASSUME IInv, NEW t \in toRtr, NEW y \in Info, InfoOK(y),
         y.src = info[t.info].src, y.id = info[t.info].id, y.comm = info[t.info].comm,
         Range(y.respQ[t.grp]) = Range(info[t.info].respQ[t.grp]) \cup {t.obj},
         \A g \in Groups(y.comm) : g # t.grp => y.respQ[g] = info[t.info].respQ[g],
         info' = [info EXCEPT ![t.info] = y],
         toRtr' = toRtr \ {t},
         UNCHANGED <<waiting, asked, toSrvr, lost, answers>>
  PROVE  IInv'
<1> DEFINE i == t.info
           x == info[i]
<1>1. info \in [InfoId -> Info \cup {Free}] /\ toRtr \in SUBSET Copy
  BY DEF IInv, TypeOK
<1>2. t \in InFlight
  BY DEF InFlight
<1>3. i \in Live /\ i \in InfoId /\ t \in Copy /\ y # Free
  BY <1>2, RespFacts, FreeAssumption DEF Live
<1>4. info'[i] = y /\ \A j \in InfoId \ {i} : info'[j] = info[j]
  BY <1>1, <1>3
<1>5. Live' = Live /\ \A j \in Live : j \in InfoId
  BY <1>3, <1>4 DEF Live
<1>6. InFlight' = InFlight \ {t}
  BY DEF InFlight, IInv, Disjoint
<1>7. \A j \in Live : info'[j].src = info[j].src /\ info'[j].id = info[j].id
                     /\ info'[j].comm = info[j].comm
  BY <1>4, <1>5
<1>8. TypeOK'
  <2>1. info' \in [InfoId -> Info \cup {Free}]
    BY <1>1
  <2> QED
    BY <1>1, <2>1 DEF IInv, TypeOK
<1>9. InfosOK'
  BY <1>4, <1>5, <1>7 DEF IInv, InfosOK
<1>10. ResponsesExpected'
  <2> SUFFICES ASSUME NEW u \in InFlight, u # t
               PROVE  /\ info'[u.info] # Free
                      /\ u.grp \in Groups(info'[u.info].comm)
                      /\ u.obj \in Members[info'[u.info].comm][u.grp]
                      /\ u.obj \notin Range(info'[u.info].respQ[u.grp])
    BY <1>6 DEF ResponsesExpected
  <2>1. /\ u \in Copy /\ u.info \in Live
        /\ u.grp \in Groups(info[u.info].comm)
        /\ u.obj \in Members[info[u.info].comm][u.grp]
        /\ u.obj \notin Range(info[u.info].respQ[u.grp])
    BY RespFacts
  <2>2. CASE u.info # i
    BY <1>4, <1>5, <2>1, <2>2 DEF Live
  <2>3. CASE u.info = i
    <3>1. info'[u.info] = y /\ y # Free /\ y.comm = info[u.info].comm
      BY <1>3, <1>4, <2>3
    <3>2. u.obj \notin Range(y.respQ[u.grp])
      <4>1. CASE u.grp = t.grp
        <5>1. u.obj # t.obj
          BY <1>3, <2>1, <2>3, <4>1 DEF Copy
        <5> QED
          BY <2>1, <2>3, <4>1, <5>1
      <4>2. CASE u.grp # t.grp
        BY <2>1, <2>3, <4>2
      <4> QED
        BY <4>1, <4>2
    <3> QED
      BY <2>1, <3>1, <3>2
  <2> QED
    BY <2>2, <2>3
<1>11. MissingInFlight'
  <2> SUFFICES ASSUME NEW j \in Live, NEW g \in Groups(info[j].comm),
                      NEW o \in Members[info[j].comm][g], o \notin Range(info'[j].respQ[g])
               PROVE  [info |-> j, grp |-> g, obj |-> o] \in InFlight'
    BY <1>5, <1>7 DEF MissingInFlight
  <2>1. CASE j # i
    <3>1. o \notin Range(info[j].respQ[g])
      BY <1>4, <1>5, <2>1
    <3>2. [info |-> j, grp |-> g, obj |-> o] \in InFlight
      BY <3>1 DEF IInv, MissingInFlight
    <3> QED
      BY <1>6, <2>1, <3>2
  <2>2. CASE j = i
    <3>1. o \notin Range(y.respQ[g])
      BY <1>4, <2>2
    <3>2. o \notin Range(x.respQ[g]) /\ ~ (g = t.grp /\ o = t.obj)
      BY <2>2, <3>1
    <3>3. [info |-> j, grp |-> g, obj |-> o] \in InFlight
      BY <2>2, <3>2 DEF IInv, MissingInFlight
    <3> QED
      BY <1>6, <3>2, <3>3
  <2> QED
    BY <2>1, <2>2
<1>12. Disjoint'
  BY DEF IInv, Disjoint
<1>13. AskedOnce' /\ AnsweredOnce'
  <2>1. AskedOnce'
    BY <1>5, <1>7 DEF IInv, AskedOnce
  <2>2. \A j, l \in Live' :
          info'[j].src = info'[l].src /\ info'[j].id = info'[l].id => j = l
    BY <1>5, <1>7 DEF IInv, AnsweredOnce
  <2>3. \A c \in Client : \A n \in DOMAIN answers[c] : \A j \in Live' :
          ~ (info'[j].src = c /\ info'[j].id = answers[c][n].id)
    BY <1>5, <1>7 DEF IInv, AnsweredOnce
  <2>4. \A c \in Client : \A m, n \in DOMAIN answers[c] :
          answers[c][m].id = answers[c][n].id => m = n
    BY DEF IInv, AnsweredOnce
  <2> QED
    BY <2>1, <2>2, <2>3, <2>4 DEF AnsweredOnce
<1>14. AnswersComplete'
  BY DEF IInv, AnswersComplete
<1> QED
  BY <1>8, <1>9, <1>10, <1>11, <1>12, <1>13, <1>14 DEF IInv

LEMMA CollectStep ==
  ASSUME IInv, NEW t \in toRtr, Collect(t)
  PROVE  IInv'
<1> DEFINE x == info[t.info]
           q == Append(x.respQ[t.grp], t.obj)
           y == [x EXCEPT !.respQ[t.grp] = q]
<1>1. t \in InFlight
  BY DEF InFlight
<1>2. /\ x \in Info /\ InfoOK(x)
      /\ t.grp \in Groups(x.comm) /\ t.obj \in Members[x.comm][t.grp]
      /\ t.obj \notin Range(x.respQ[t.grp])
  BY <1>1, RespFacts, LiveFacts
<1>3. Len(q) # x.grpInfo[t.grp]
  BY DEF Collect, GroupReady, Queued
<1> HIDE DEF x
<1>4. y \in Info /\ InfoOK(y)
  BY <1>2, <1>3, CollectOK
<1>5. Range(q) = Range(x.respQ[t.grp]) \cup {t.obj}
  <2>1. x.respQ[t.grp] \in Seq(Obj) /\ t.obj \in Obj
    BY <1>2, InfoFields, GroupFacts
  <2> QED
    BY <2>1, AppendNew
<1>6. /\ y.src = x.src /\ y.id = x.id /\ y.comm = x.comm
      /\ y.respQ[t.grp] = q
      /\ \A g \in Groups(y.comm) : g # t.grp => y.respQ[g] = x.respQ[g]
  <2>1. /\ y.src = x.src /\ y.id = x.id /\ y.comm = x.comm
        /\ y.respQ = [x.respQ EXCEPT ![t.grp] = q]
    BY <1>2 DEF Info
  <2>2. t.grp \in DOMAIN x.respQ
    BY <1>2 DEF InfoOK
  <2> QED
    BY <2>1, <2>2
<1> USE DEF x
<1>7. info' = [info EXCEPT ![t.info] = y]
  BY DEF Collect, Queued
<1>8. toRtr' = toRtr \ {t} /\ UNCHANGED <<waiting, asked, toSrvr, lost, answers>>
  BY DEF Collect
<1> HIDE DEF y, q
<1> QED
  BY <1>4, <1>5, <1>6, <1>7, <1>8, ReceiveStep

LEMMA CompleteStep ==
  ASSUME IInv, NEW t \in toRtr, Complete(t)
  PROVE  IInv'
<1> DEFINE x == info[t.info]
           q == Append(x.respQ[t.grp], t.obj)
           y == [x EXCEPT !.respQ[t.grp] = q,
                          !.value = [x.value EXCEPT ![t.grp] = q],
                          !.pending = @ - 1]
<1>1. t \in InFlight
  BY DEF InFlight
<1>2. /\ x \in Info /\ InfoOK(x)
      /\ t.grp \in Groups(x.comm) /\ t.obj \in Members[x.comm][t.grp]
      /\ t.obj \notin Range(x.respQ[t.grp])
  BY <1>1, RespFacts, LiveFacts
<1>3. Len(q) = x.grpInfo[t.grp] /\ x.pending > 1
  BY DEF Complete, GroupReady, Queued
<1> HIDE DEF x
<1>4. y \in Info /\ InfoOK(y)
  BY <1>2, <1>3, CompleteOK
<1>5. Range(q) = Range(x.respQ[t.grp]) \cup {t.obj}
  <2>1. x.respQ[t.grp] \in Seq(Obj) /\ t.obj \in Obj
    BY <1>2, InfoFields, GroupFacts
  <2> QED
    BY <2>1, AppendNew
<1>6. /\ y.src = x.src /\ y.id = x.id /\ y.comm = x.comm
      /\ y.respQ[t.grp] = q
      /\ \A g \in Groups(y.comm) : g # t.grp => y.respQ[g] = x.respQ[g]
  <2>1. /\ y.src = x.src /\ y.id = x.id /\ y.comm = x.comm
        /\ y.respQ = [x.respQ EXCEPT ![t.grp] = q]
    BY <1>2 DEF Info
  <2>2. t.grp \in DOMAIN x.respQ
    BY <1>2 DEF InfoOK
  <2> QED
    BY <2>1, <2>2
<1> USE DEF x
<1>7. info' = [info EXCEPT ![t.info] = y]
  BY DEF Complete, Queued, Summed
<1>8. toRtr' = toRtr \ {t} /\ UNCHANGED <<waiting, asked, toSrvr, lost, answers>>
  BY DEF Complete
<1> HIDE DEF y, q
<1> QED
  BY <1>4, <1>5, <1>6, <1>7, <1>8, ReceiveStep

(* The last response: no other copy refers to the CommReqInfo it frees,    *)
(* and the answer takes its place.                                         *)
LEMMA ReplyStep ==
  ASSUME IInv, NEW t \in toRtr, Reply(t)
  PROVE  IInv'
<1> DEFINE i == t.info
           x == info[i]
           c == x.src
           a == [id |-> x.id, value |-> Summed(t)]
<1>1. /\ info \in [InfoId -> Info \cup {Free}]
      /\ waiting \in [Client -> [ReqId -> CommId \cup {NoComm}]]
      /\ answers \in [Client -> Seq(Answer)]
      /\ toRtr \in SUBSET Copy
  BY DEF IInv, TypeOK
<1>2. t \in InFlight
  BY DEF InFlight
<1>3. /\ i \in Live /\ i \in InfoId /\ t \in Copy
      /\ x \in Info /\ InfoOK(x)
      /\ t.grp \in Groups(x.comm) /\ t.obj \in Members[x.comm][t.grp]
      /\ t.obj \notin Range(x.respQ[t.grp])
      /\ c \in Client /\ x.id \in ReqId /\ x.comm \in CommId
      /\ waiting[c][x.id] = x.comm
  BY <1>2, RespFacts, LiveFacts
<1>4. /\ Len(Queued(t)) = x.grpInfo[t.grp] /\ x.pending = 1
      /\ Queued(t) = Append(x.respQ[t.grp], t.obj)
      /\ Summed(t) = [x.value EXCEPT ![t.grp] = Append(x.respQ[t.grp], t.obj)]
      /\ toRtr' = toRtr \ {t}
      /\ answers' = [answers EXCEPT ![c] = Append(answers[c], a)]
      /\ info' = [info EXCEPT ![i] = Free]
      /\ UNCHANGED <<waiting, asked, toSrvr, lost>>
  BY DEF Reply, GroupReady, Queued, Summed
<1> HIDE DEF x
<1>5. /\ Summed(t) \in Seq(Seq(Obj))
      /\ DOMAIN Summed(t) = Groups(x.comm)
      /\ \A h \in Groups(x.comm) : /\ Range(Summed(t)[h]) = Members[x.comm][h]
                                   /\ IsInjective(Summed(t)[h])
  <2> DEFINE v == [x.value EXCEPT ![t.grp] = Append(x.respQ[t.grp], t.obj)]
  <2>1. Len(Append(x.respQ[t.grp], t.obj)) = x.grpInfo[t.grp] /\ x.pending = 1
    BY <1>4
  <2>2. /\ v \in Seq(Seq(Obj)) /\ DOMAIN v = Groups(x.comm)
        /\ \A h \in Groups(x.comm) : /\ Range(v[h]) = Members[x.comm][h]
                                     /\ IsInjective(v[h])
    BY <1>3, <2>1, ReplyOK
  <2>3. Summed(t) = v
    BY <1>4
  <2> HIDE DEF v
  <2> QED
    BY <2>2, <2>3
<1>6. a \in Answer /\ a.id = x.id /\ a.value = Summed(t)
  BY <1>3, <1>5 DEF Answer
<1> HIDE DEF c, a
<1>7. /\ answers'[c] = Append(answers[c], a)
      /\ Append(answers[c], a) \in Seq(Answer)
      /\ \A d \in Client \ {c} : answers'[d] = answers[d]
  <2>1. answers[c] \in Seq(Answer)
    BY <1>1, <1>3
  <2> QED
    BY <1>1, <1>3, <1>4, <1>6, <2>1, AppendProperties
<1>8. \A n \in DOMAIN answers'[c] :
         \/ n \in DOMAIN answers[c] /\ answers'[c][n] = answers[c][n]
         \/ n = Len(answers[c]) + 1 /\ answers'[c][n] = a
  <2>1. answers[c] \in Seq(Answer)
    BY <1>1, <1>3
  <2>2. /\ Len(answers[c]) \in Nat /\ DOMAIN answers[c] = 1 .. Len(answers[c])
        /\ DOMAIN answers'[c] = 1 .. Len(answers[c]) + 1
        /\ \A n \in 1 .. Len(answers[c]) : answers'[c][n] = answers[c][n]
        /\ answers'[c][Len(answers[c]) + 1] = a
    BY <1>6, <1>7, <2>1, AppendProperties, LenProperties
  <2> QED
    BY <2>2
<1>9. /\ Live' = Live \ {i} /\ \A j \in Live : j \in InfoId
      /\ \A j \in InfoId \ {i} : info'[j] = info[j]
  <2>1. info'[i] = Free /\ \A j \in InfoId \ {i} : info'[j] = info[j]
    BY <1>1, <1>3, <1>4
  <2> QED
    BY <2>1 DEF Live
<1>10. InFlight' = InFlight \ {t}
  BY <1>4 DEF InFlight, IInv, Disjoint
<1>11. \A j \in Live' : j \in Live /\ info'[j] = info[j]
  BY <1>9
<1>12. \A j \in Live' : ~ (info[j].src = c /\ info[j].id = x.id)
  BY <1>3, <1>9 DEF IInv, AnsweredOnce, x, c
<1>13. \A n \in DOMAIN answers[c] : answers[c][n].id # x.id
  BY <1>3 DEF IInv, AnsweredOnce, x, c
<1>14. TypeOK'
  <2>1. info' \in [InfoId -> Info \cup {Free}]
    BY <1>1, <1>4
  <2>2. answers' \in [Client -> Seq(Answer)]
    BY <1>1, <1>4, <1>7
  <2> QED
    BY <1>1, <1>4, <2>1, <2>2 DEF IInv, TypeOK
<1>15. InfosOK'
  BY <1>4, <1>11 DEF IInv, InfosOK
<1>16. \A u \in InFlight \ {t} : u.info # i
  <2> SUFFICES ASSUME NEW u \in InFlight, u.info = i
               PROVE  u = t
    OBVIOUS
  <2>1. /\ u \in Copy
        /\ u.grp \in Groups(x.comm) /\ u.obj \in Members[x.comm][u.grp]
        /\ u.obj \notin Range(x.respQ[u.grp])
    BY RespFacts DEF x
  <2>2. OpenGroups(x) = {t.grp}
    <3>1. t.grp \in OpenGroups(x)
      BY <1>3 DEF OpenGroups
    <3> QED
      BY <1>3, <1>4, <3>1, OneGroupLess
  <2>3. u.grp = t.grp
    BY <2>1, <2>2 DEF OpenGroups
  <2>4. Range(Queued(t)) = Range(x.respQ[t.grp]) \cup {t.obj}
    <3>1. x.respQ[t.grp] \in Seq(Obj) /\ t.obj \in Obj
      BY <1>3, InfoFields, GroupFacts
    <3> QED
      BY <1>4, <3>1, AppendNew
  <2>5. Range(Queued(t)) = Members[x.comm][t.grp]
    <3>1. Len(Append(x.respQ[t.grp], t.obj)) = x.grpInfo[t.grp]
      BY <1>4
    <3>2. Range(Append(x.respQ[t.grp], t.obj)) = Members[x.comm][t.grp]
      BY <1>3, <3>1, QueueFacts
    <3> QED
      BY <1>4, <3>2
  <2>6. u.obj = t.obj
    BY <2>1, <2>3, <2>4, <2>5
  <2> QED
    BY <1>3, <2>1, <2>3, <2>6 DEF Copy
<1>17. ResponsesExpected'
  <2> SUFFICES ASSUME NEW u \in InFlight, u # t
               PROVE  /\ info'[u.info] # Free
                      /\ u.grp \in Groups(info'[u.info].comm)
                      /\ u.obj \in Members[info'[u.info].comm][u.grp]
                      /\ u.obj \notin Range(info'[u.info].respQ[u.grp])
    BY <1>10 DEF ResponsesExpected
  <2>1. u.info \in InfoId /\ info'[u.info] = info[u.info]
    BY <1>9, <1>16, RespFacts
  <2> QED
    BY <2>1 DEF IInv, ResponsesExpected
<1>18. MissingInFlight'
  <2> SUFFICES ASSUME NEW j \in Live', NEW g \in Groups(info[j].comm),
                      NEW o \in Members[info[j].comm][g], o \notin Range(info[j].respQ[g])
               PROVE  [info |-> j, grp |-> g, obj |-> o] \in InFlight'
    BY <1>11 DEF MissingInFlight
  <2>1. [info |-> j, grp |-> g, obj |-> o] \in InFlight
    BY <1>11 DEF IInv, MissingInFlight
  <2>2. [info |-> j, grp |-> g, obj |-> o].info # t.info
    BY <1>9
  <2> QED
    BY <1>10, <2>1, <2>2
<1>19. Disjoint'
  BY <1>4 DEF IInv, Disjoint
<1>20. AskedOnce'
  <2> SUFFICES ASSUME NEW r \in asked
               PROVE  /\ waiting[r.src][r.id] = r.comm
                      /\ \A j \in Live' : ~ (info'[j].src = r.src /\ info'[j].id = r.id)
                      /\ \A n \in DOMAIN answers'[r.src] : answers'[r.src][n].id # r.id
    BY <1>4 DEF AskedOnce
  <2>1. r.src \in Client
    BY DEF IInv, TypeOK, Request
  <2>2. /\ waiting[r.src][r.id] = r.comm
        /\ \A j \in Live : ~ (info[j].src = r.src /\ info[j].id = r.id)
        /\ \A n \in DOMAIN answers[r.src] : answers[r.src][n].id # r.id
    BY DEF IInv, AskedOnce
  <2>3. ~ (r.src = c /\ r.id = x.id)
    BY <1>3, <2>2 DEF x, c
  <2>4. \A n \in DOMAIN answers'[r.src] : answers'[r.src][n].id # r.id
    <3>1. CASE r.src = c
      BY <1>6, <1>8, <2>2, <2>3, <3>1
    <3>2. CASE r.src # c
      BY <1>7, <2>1, <2>2, <3>2
    <3> QED
      BY <3>1, <3>2
  <2> QED
    BY <1>11, <2>2, <2>4
<1>21. AnsweredOnce'
  <2>1. \A j, l \in Live' :
          info'[j].src = info'[l].src /\ info'[j].id = info'[l].id => j = l
    BY <1>11 DEF IInv, AnsweredOnce
  <2>2. ASSUME NEW d \in Client, NEW n \in DOMAIN answers'[d], NEW j \in Live'
        PROVE  ~ (info'[j].src = d /\ info'[j].id = answers'[d][n].id)
    <3>1. CASE d = c
      BY <1>6, <1>8, <1>11, <1>12, <3>1 DEF IInv, AnsweredOnce
    <3>2. CASE d # c
      BY <1>7, <1>11, <3>2 DEF IInv, AnsweredOnce
    <3> QED
      BY <3>1, <3>2
  <2>3. ASSUME NEW d \in Client, NEW m \in DOMAIN answers'[d],
               NEW n \in DOMAIN answers'[d], answers'[d][m].id = answers'[d][n].id
        PROVE  m = n
    <3>1. CASE d = c
      BY <1>6, <1>8, <1>13, <2>3, <3>1 DEF IInv, AnsweredOnce
    <3>2. CASE d # c
      BY <1>7, <2>3, <3>2 DEF IInv, AnsweredOnce
    <3> QED
      BY <3>1, <3>2
  <2> QED
    BY <2>1, <2>2, <2>3 DEF AnsweredOnce
<1>22. AnswersComplete'
  <2> SUFFICES ASSUME NEW d \in Client, NEW n \in DOMAIN answers'[d]
               PROVE  LET b == answers'[d][n]
                          k == waiting'[d][b.id]
                      IN  /\ k # NoComm
                          /\ DOMAIN b.value = Groups(k)
                          /\ \A g \in Groups(k) : /\ Range(b.value[g]) = Members[k][g]
                                                  /\ IsInjective(b.value[g])
    BY DEF AnswersComplete, Groups
  <2>1. CASE d = c /\ n \notin DOMAIN answers[d]
    <3>1. answers'[d][n] = a /\ waiting'[d][a.id] = x.comm /\ x.comm # NoComm
      BY <1>3, <1>4, <1>6, <1>8, <2>1, NullAssumption DEF c
    <3> QED
      BY <1>5, <1>6, <3>1
  <2>2. CASE n \in DOMAIN answers[d] /\ answers'[d][n] = answers[d][n]
    <3> DEFINE b == answers[d][n]
               h == waiting[d][b.id]
    <3>1. /\ h # NoComm
          /\ DOMAIN b.value = Groups(h)
          /\ \A g \in Groups(h) : Range(b.value[g]) = Members[h][g] /\ IsInjective(b.value[g])
      BY <2>2 DEF IInv, AnswersComplete
    <3>2. answers'[d][n] = b /\ waiting'[d][b.id] = h
      BY <1>4, <2>2
    <3> HIDE DEF b, h
    <3> QED
      BY <3>1, <3>2
  <2> QED
    BY <1>7, <1>8, <2>1, <2>2
<1> QED
  BY <1>14, <1>15, <1>17, <1>18, <1>19, <1>20, <1>21, <1>22 DEF IInv

-----------------------------------------------------------------------------
(* The inductive invariant holds in every reachable state.                 *)
THEOREM Inductive == Spec => []IInv
<1>1. IInv /\ [Next]_vars => IInv'
  <2> SUFFICES ASSUME IInv, [Next]_vars PROVE IInv'
    OBVIOUS
  <2>1. CASE \E c \in Client, q \in ReqId, k \in CommId : Ask(c, q, k)
    BY <2>1, AskStep
  <2>2. CASE \E c \in Client : Read(c)
    BY <2>2, ReadStep
  <2>3. CASE \E r \in asked, i \in InfoId : Fan(r, i)
    BY <2>3, FanStep
  <2>4. CASE \E t \in toSrvr : Serve(t)
    BY <2>4, ServeStep
  <2>5. CASE \E t \in toSrvr \cup toRtr : Lose(t)
    BY <2>5, LoseStep
  <2>6. CASE \E t \in toRtr : Collect(t)
    BY <2>6, CollectStep
  <2>7. CASE \E t \in toRtr : Complete(t)
    BY <2>7, CompleteStep
  <2>8. CASE \E t \in toRtr : Reply(t)
    BY <2>8, ReplyStep
  <2>9. CASE UNCHANGED vars
    BY <2>9 DEF vars, IInv, TypeOK, InfosOK, ResponsesExpected, MissingInFlight,
       Disjoint, AskedOnce, AnsweredOnce, AnswersComplete, Live, InFlight
  <2> QED
    BY <2>1, <2>2, <2>3, <2>4, <2>5, <2>6, <2>7, <2>8, <2>9 DEF Next
<1> QED
  BY <1>1, InitHolds, PTL DEF Spec

(* Every variable keeps its type: a CommReqInfo, once its address is       *)
(* reused, is a well-formed one again.                                     *)
THEOREM TypeCorrect == Spec => []TypeOK
<1>1. IInv => TypeOK
  BY DEF IInv
<1> QED
  BY <1>1, Inductive, PTL

(* The cast of an event id to a CommReqInfo in RtrCommRespEvent::process   *)
(* always reaches a live object that still expects this response.          *)
THEOREM CastIsSafe == Spec => []ResponsesExpected
<1>1. IInv => ResponsesExpected
  BY DEF IInv
<1> QED
  BY <1>1, Inductive, PTL

(* No answer is sent before every member of every group has contributed,   *)
(* and none contributes twice.                                             *)
THEOREM AnswersAreComplete == Spec => []AnswersComplete
<1>1. IInv => AnswersComplete
  BY DEF IInv
<1> QED
  BY <1>1, Inductive, PTL

(* A request has at most one CommReqInfo or answer at a time.              *)
THEOREM AnswersAreUnique == Spec => []AnsweredOnce
<1>1. IInv => AnsweredOnce
  BY DEF IInv
<1> QED
  BY <1>1, Inductive, PTL

(* The router never forgets a response it still needs: it is under way, or *)
(* its server died.                                                        *)
THEOREM NothingForgotten == Spec => []MissingInFlight
<1>1. IInv => MissingInFlight
  BY DEF IInv
<1> QED
  BY <1>1, Inductive, PTL
=============================================================================
