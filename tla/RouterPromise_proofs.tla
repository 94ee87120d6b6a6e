------------------------ MODULE RouterPromise_proofs ------------------------
(***************************************************************************)
(* While no client leaves, no server stops and clients ask for what the    *)
(* router supports (Calm), each step of Router is a step of Aggregation or *)
(* none, no assert fails, and every answer is whole.                       *)
(***************************************************************************)
EXTENDS Router_proofs

-----------------------------------------------------------------------------
(* Sequences: places after a Tail.                                         *)
LEMMA PlaceIs ==
  ASSUME NEW q, NEW type
  PROVE  \A n : n \in Places(q, type) <=> n \in DOMAIN q /\ q[n].type = type
BY DEF Places

LEMMA PlaceTail ==
  ASSUME NEW T, NEW q \in Seq(T), q # <<>>, NEW type
  PROVE  /\ \A n \in Places(Tail(q), type) : n + 1 \in Places(q, type) /\ Tail(q)[n] = q[n + 1] /\ n \in Nat \ {0}
         /\ \A n \in Places(q, type) : n \in Nat /\ (n = 1 \/ (n - 1 \in Places(Tail(q), type) /\ Tail(q)[n - 1] = q[n]))
         /\ q[1].type = type => 1 \in Places(q, type)
         /\ Head(q) = q[1]
<1>1. /\ Head(q) = q[1] /\ 1 \in DOMAIN q /\ DOMAIN q \subseteq Nat /\ DOMAIN Tail(q) \subseteq Nat \ {0}
      /\ \A n \in DOMAIN Tail(q) : n + 1 \in DOMAIN q /\ Tail(q)[n] = q[n + 1]
      /\ \A n \in DOMAIN q : n = 1 \/ n - 1 \in DOMAIN Tail(q)
  <2>1. DOMAIN q \subseteq Nat /\ DOMAIN Tail(q) \subseteq Nat \ {0}
    OBVIOUS
  <2> QED BY <2>1, TailAt
<1>2. ASSUME NEW n \in Places(Tail(q), type)
      PROVE  n + 1 \in Places(q, type) /\ Tail(q)[n] = q[n + 1] /\ n \in Nat \ {0}
  BY <1>1, <1>2 DEF Places
<1>3. ASSUME NEW n \in Places(q, type), n # 1
      PROVE  n \in Nat /\ n - 1 \in Places(Tail(q), type) /\ Tail(q)[n - 1] = q[n]
  <2>1. n \in DOMAIN q /\ q[n].type = type /\ n \in Nat /\ n - 1 \in DOMAIN Tail(q)
    BY <1>1, <1>3 DEF Places
  <2>2. Tail(q)[n - 1] = q[n - 1 + 1]
    BY <1>1, <2>1
  <2>3. n - 1 + 1 = n
    BY <2>1
  <2> QED BY <2>1, <2>2, <2>3 DEF Places
<1>4. q[1].type = type => 1 \in Places(q, type)
  BY <1>1 DEF Places
<1>5. \A n \in Places(q, type) : n \in Nat
  BY <1>1 DEF Places
<1> QED BY <1>1, <1>2, <1>3, <1>4, <1>5

(* What is asked once is asked once when a message is taken; the request   *)
(* that is taken is not asked again.                                       *)
LEMMA AsksTail ==
  ASSUME NEW T, NEW q \in Seq(T), q # <<>>, NEW w, NEW I, AsksOnce(q, w, I)
  PROVE  /\ AsksOnce(Tail(q), w, I)
         /\ q[1].type = "CommReq" => /\ AsksOnce(Tail(q), w, I \cup {q[1].id})
                                     /\ w[q[1].id] = q[1].comm /\ q[1].id \notin I
<1>1. /\ \A n \in Places(Tail(q), "CommReq") :
           n + 1 \in Places(q, "CommReq") /\ Tail(q)[n] = q[n + 1] /\ n \in Nat \ {0}
      /\ q[1].type = "CommReq" => 1 \in Places(q, "CommReq")
  BY PlaceTail
<1>2. ASSUME NEW n \in Places(Tail(q), "CommReq")
      PROVE  /\ w[Tail(q)[n].id] = Tail(q)[n].comm /\ Tail(q)[n].id \notin I
             /\ q[1].type = "CommReq" => Tail(q)[n].id # q[1].id
             /\ \A l \in Places(Tail(q), "CommReq") : Tail(q)[l].id = Tail(q)[n].id => l = n
  <2>1. n + 1 \in Places(q, "CommReq") /\ Tail(q)[n] = q[n + 1] /\ n \in Nat \ {0}
    BY <1>1
  <2>2. ASSUME NEW l \in Places(Tail(q), "CommReq"), Tail(q)[l].id = Tail(q)[n].id
        PROVE  l = n
    <3>1. l + 1 \in Places(q, "CommReq") /\ Tail(q)[l] = q[l + 1] /\ l \in Nat
      BY <1>1
    <3>2. l + 1 = n + 1
      BY <2>1, <2>2, <3>1 DEF AsksOnce
    <3> QED BY <2>1, <3>1, <3>2
  <2>3. ASSUME q[1].type = "CommReq", Tail(q)[n].id = q[1].id
        PROVE  FALSE
    <3>1. n + 1 = 1
      BY <1>1, <2>1, <2>3 DEF AsksOnce
    <3> QED BY <2>1, <3>1
  <2> QED BY <2>1, <2>2, <2>3 DEF AsksOnce
<1>3. q[1].type = "CommReq" => w[q[1].id] = q[1].comm /\ q[1].id \notin I
  BY <1>1 DEF AsksOnce
<1>4. AsksOnce(Tail(q), w, I)
  BY <1>2 DEF AsksOnce
<1>5. q[1].type = "CommReq" => AsksOnce(Tail(q), w, I \cup {q[1].id})
  BY <1>2 DEF AsksOnce
<1> QED BY <1>3, <1>4, <1>5

LEMMA IntroducedTail ==
  ASSUME NEW T, NEW q \in Seq(T), q # <<>>, NEW K, NEW M, Introduced(q, K, M)
  PROVE  /\ q[1].type = "CommCreate" => q[1].comm \notin K /\ Introduced(Tail(q), K \cup {q[1].comm}, M)
         /\ q[1].type = "CommReq" => /\ q[1].comm \in K /\ q[1].op \in Ops[q[1].comm]
                                     /\ Introduced(Tail(q), K, M)
<1>1. \A type :
        /\ \A n \in Places(Tail(q), type) :
             n + 1 \in Places(q, type) /\ Tail(q)[n] = q[n + 1] /\ n \in Nat \ {0}
        /\ \A n \in Places(q, type) :
             n \in Nat /\ (n = 1 \/ (n - 1 \in Places(Tail(q), type) /\ Tail(q)[n - 1] = q[n]))
        /\ q[1].type = type => 1 \in Places(q, type)
  BY PlaceTail
<1>7. \A n \in Places(q, "CommCreate") :
        q[n].comm \notin K /\ \A l \in Places(q, "CommCreate") : q[l].comm = q[n].comm => l = n
  BY DEF Introduced
<1>2. ASSUME NEW n \in Places(Tail(q), "CommCreate")
      PROVE  /\ Tail(q)[n].comm \notin K
             /\ q[1].type = "CommCreate" => Tail(q)[n].comm # q[1].comm
             /\ \A l \in Places(Tail(q), "CommCreate") : Tail(q)[l].comm = Tail(q)[n].comm => l = n
  <2>1. n + 1 \in Places(q, "CommCreate") /\ Tail(q)[n] = q[n + 1] /\ n \in Nat \ {0}
    BY <1>1
  <2>2. ASSUME NEW l \in Places(Tail(q), "CommCreate"), Tail(q)[l].comm = Tail(q)[n].comm
        PROVE  l = n
    <3>1. l + 1 \in Places(q, "CommCreate") /\ Tail(q)[l] = q[l + 1] /\ l \in Nat
      BY <1>1
    <3>2. l + 1 = n + 1
      BY <1>7, <2>1, <2>2, <3>1
    <3> QED BY <2>1, <3>1, <3>2
  <2>3. ASSUME q[1].type = "CommCreate", Tail(q)[n].comm = q[1].comm
        PROVE  FALSE
    <3>1. 1 \in Places(q, "CommCreate")
      BY <1>1, <2>3
    <3>2. n + 1 = 1
      BY <1>7, <2>1, <2>3, <3>1
    <3> QED BY <2>1, <3>2
  <2> QED BY <1>7, <2>1, <2>2, <2>3
(* A communicator whose CommCreate was at a place of q.                    *)
<1>3. ASSUME NEW n \in Places(q, "CommCreate")
      PROVE  \/ q[1].type = "CommCreate" /\ q[n].comm = q[1].comm
             \/ n - 1 \in Places(Tail(q), "CommCreate") /\ Tail(q)[n - 1] = q[n]
  <2>1. n = 1 => q[1].type = "CommCreate"
    BY DEF Places
  <2> QED BY <1>1, <2>1
<1>4. ASSUME NEW J, K \subseteq J, q[1].type = "CommCreate" => q[1].comm \in J
      PROVE  /\ \A k \in M : k \in J \/ \E n \in Places(Tail(q), "CommCreate") : Tail(q)[n].comm = k
             /\ \A n \in Places(Tail(q), "CommReq") :
                  /\ Tail(q)[n].op \in Ops[Tail(q)[n].comm]
                  /\ Tail(q)[n].comm \in J \/ \E l \in Places(Tail(q), "CommCreate") :
                                                 l < n /\ Tail(q)[l].comm = Tail(q)[n].comm
  <2>1. ASSUME NEW k \in M, k \notin J
        PROVE  \E n \in Places(Tail(q), "CommCreate") : Tail(q)[n].comm = k
    <3>1. PICK n \in Places(q, "CommCreate") : q[n].comm = k
      BY <1>4, <2>1 DEF Introduced
    <3>2. n - 1 \in Places(Tail(q), "CommCreate") /\ Tail(q)[n - 1] = q[n]
      BY <1>3, <1>4, <2>1, <3>1
    <3> QED BY <3>1, <3>2
  <2>2. ASSUME NEW n \in Places(Tail(q), "CommReq")
        PROVE  /\ Tail(q)[n].op \in Ops[Tail(q)[n].comm]
               /\ Tail(q)[n].comm \in J \/ \E l \in Places(Tail(q), "CommCreate") :
                                              l < n /\ Tail(q)[l].comm = Tail(q)[n].comm
    <3>1. n + 1 \in Places(q, "CommReq") /\ Tail(q)[n] = q[n + 1] /\ n \in Nat \ {0}
      BY <1>1
    <3>2. /\ q[n + 1].op \in Ops[q[n + 1].comm]
          /\ q[n + 1].comm \in K \/ \E l \in Places(q, "CommCreate") : l < n + 1 /\ q[l].comm = q[n + 1].comm
      BY <3>1 DEF Introduced
    <3>3. CASE q[n + 1].comm \in K
      BY <1>4, <3>1, <3>2, <3>3
    <3>4. CASE \E l \in Places(q, "CommCreate") : l < n + 1 /\ q[l].comm = q[n + 1].comm
      <4>1. PICK l \in Places(q, "CommCreate") : l < n + 1 /\ q[l].comm = q[n + 1].comm
        BY <3>4
      <4>2. l \in Nat
        BY <1>1
      <4>3. CASE q[1].type = "CommCreate" /\ q[l].comm = q[1].comm
        BY <1>4, <3>1, <3>2, <4>1, <4>3
      <4>4. CASE l - 1 \in Places(Tail(q), "CommCreate") /\ Tail(q)[l - 1] = q[l]
        <5>1. l - 1 < n
          BY <3>1, <4>1, <4>2
        <5>2. Tail(q)[l - 1].comm = Tail(q)[n].comm
          BY <3>1, <4>1, <4>4
        <5> QED BY <3>1, <3>2, <4>4, <5>1, <5>2
      <4> QED BY <1>3, <4>3, <4>4
    <3> QED BY <3>2, <3>3, <3>4
  <2> QED BY <2>1, <2>2
<1>5. CASE q[1].type = "CommCreate"
  <2>1. q[1].comm \notin K
    <3>1. 1 \in Places(q, "CommCreate")
      BY <1>1, <1>5
    <3> QED BY <3>1 DEF Introduced
  <2>2. Introduced(Tail(q), K \cup {q[1].comm}, M)
    <3> DEFINE J == K \cup {q[1].comm}
    <3>1. K \subseteq J /\ q[1].comm \in J
      OBVIOUS
    <3>2. \A n \in Places(Tail(q), "CommCreate") : Tail(q)[n].comm \notin J
      BY <1>2, <1>5
    <3> HIDE DEF J
    <3>3. /\ \A k \in M : k \in J \/ \E n \in Places(Tail(q), "CommCreate") : Tail(q)[n].comm = k
          /\ \A n \in Places(Tail(q), "CommReq") :
                  /\ Tail(q)[n].op \in Ops[Tail(q)[n].comm]
                  /\ Tail(q)[n].comm \in J \/ \E l \in Places(Tail(q), "CommCreate") :
                                                 l < n /\ Tail(q)[l].comm = Tail(q)[n].comm
      BY <1>4, <3>1
    <3>4. \A n \in Places(Tail(q), "CommCreate") :
            \A l \in Places(Tail(q), "CommCreate") : Tail(q)[l].comm = Tail(q)[n].comm => l = n
      BY <1>2
    <3>5. Introduced(Tail(q), J, M)
      BY <3>2, <3>3, <3>4, Zenon DEF Introduced
    <3> QED BY <3>5 DEF J
  <2> QED BY <1>5, <2>1, <2>2
<1>6. CASE q[1].type = "CommReq"
  <2>1. 1 \in Places(q, "CommReq")
    BY <1>1, <1>6
  <2>2. q[1].op \in Ops[q[1].comm] /\ (q[1].comm \in K \/ \E l \in Places(q, "CommCreate") : l < 1 /\ q[l].comm = q[1].comm)
    BY <2>1 DEF Introduced
  <2>3. \A l \in Places(q, "CommCreate") : ~(l < 1)
    <3>1. \A l \in DOMAIN q : l \in Nat /\ l >= 1
      OBVIOUS
    <3> QED BY <3>1 DEF Places
  <2>4. Introduced(Tail(q), K, M)
    BY <1>2, <1>4, <1>6 DEF Introduced
  <2> QED BY <1>6, <2>2, <2>3, <2>4
<1> QED BY <1>5, <1>6

(* A message is added.                                                     *)
Lengthened(q, e, r) ==
  /\ \A type : \A n \in Places(r, type) :
       \/ n \in Places(q, type) /\ r[n] = q[n]
       \/ n = Len(q) + 1 /\ r[n] = e /\ e.type = type
  /\ \A type : \A n \in Places(q, type) :
       n \in Places(r, type) /\ r[n] = q[n] /\ n \in Nat /\ n < Len(q) + 1
  /\ Len(q) + 1 \in Places(r, e.type) /\ r[Len(q) + 1] = e

LEMMA PlaceAdded ==
  ASSUME NEW T, NEW q \in Seq(T), NEW e \in T, NEW r, r = q \o <<e>>
  PROVE  r \in Seq(T) /\ Lengthened(q, e, r)
<1>1. /\ r \in Seq(T) /\ Len(q) \in Nat /\ DOMAIN q = 1..Len(q)
      /\ DOMAIN r = 1..(Len(q) + 1) /\ r[Len(q) + 1] = e
      /\ \A n \in DOMAIN q : r[n] = q[n]
  OBVIOUS
<1>2. ASSUME NEW type, NEW n \in Places(r, type)
      PROVE  \/ n \in Places(q, type) /\ r[n] = q[n]
             \/ n = Len(q) + 1 /\ r[n] = e /\ e.type = type
  <2>1. n \in DOMAIN q \/ n = Len(q) + 1
    BY <1>1 DEF Places
  <2> QED BY <1>1, <2>1 DEF Places
<1>3. ASSUME NEW type, NEW n \in Places(q, type)
      PROVE  n \in Places(r, type) /\ r[n] = q[n] /\ n \in Nat /\ n < Len(q) + 1
  BY <1>1 DEF Places
<1>4. Len(q) + 1 \in Places(r, e.type)
  BY <1>1 DEF Places
<1>6. Lengthened(q, e, r)
  BY <1>1, <1>2, <1>3, <1>4, Zenon DEF Lengthened
<1> QED BY <1>1, <1>6

LEMMA AskCreates ==
  ASSUME NEW T, NEW q \in Seq(T), NEW e \in T, e.type = "CommCreate", NEW w, NEW I, AsksOnce(q, w, I),
         NEW K, NEW M, Introduced(q, K, M), e.comm \notin K,
         \A n \in Places(q, "CommCreate") : q[n].comm # e.comm
  PROVE  AsksOnce(q \o <<e>>, w, I) /\ Introduced(q \o <<e>>, K, M \cup {e.comm})
<1>1. PICK r : r = q \o <<e>>
  OBVIOUS
<1>2. /\ \A type : \A n \in Places(r, type) :
           \/ n \in Places(q, type) /\ r[n] = q[n]
           \/ n = Len(q) + 1 /\ r[n] = e /\ e.type = type
      /\ \A type : \A n \in Places(q, type) :
           n \in Places(r, type) /\ r[n] = q[n] /\ n \in Nat /\ n < Len(q) + 1
      /\ Len(q) + 1 \in Places(r, e.type) /\ r[Len(q) + 1] = e
  <2>1. Lengthened(q, e, r)
    BY <1>1, PlaceAdded
  <2> QED BY <2>1 DEF Lengthened
<1>3. Places(r, "CommReq") = Places(q, "CommReq") /\ \A n \in Places(q, "CommReq") : r[n] = q[n]
  <2>1. \A n \in Places(r, "CommReq") : n \in Places(q, "CommReq")
    BY <1>2
  <2>2. \A n \in Places(q, "CommReq") : n \in Places(r, "CommReq") /\ r[n] = q[n]
    BY <1>2
  <2> QED BY <2>1, <2>2
<1>4. AsksOnce(r, w, I)
  BY <1>3 DEF AsksOnce
<1>5. \A n \in Places(q, "CommCreate") :
        q[n].comm \notin K /\ \A l \in Places(q, "CommCreate") : q[l].comm = q[n].comm => l = n
  BY DEF Introduced
<1>6. \A n \in Places(r, "CommCreate") :
        (n \in Places(q, "CommCreate") /\ r[n] = q[n]) \/ (n = Len(q) + 1 /\ r[n] = e)
  BY <1>2
<1>7. \A n \in Places(r, "CommCreate") :
        r[n].comm \notin K /\ \A l \in Places(r, "CommCreate") : r[l].comm = r[n].comm => l = n
  BY <1>5, <1>6
<1>8. ASSUME NEW k \in M \cup {e.comm}, k \notin K
      PROVE  \E n \in Places(r, "CommCreate") : r[n].comm = k
  <2>1. CASE k = e.comm
    BY <1>2, <2>1
  <2>2. CASE k \in M
    <3>1. PICK n \in Places(q, "CommCreate") : q[n].comm = k
      BY <1>8, <2>2 DEF Introduced
    <3> QED BY <1>2, <3>1
  <2> QED BY <2>1, <2>2
<1>9. \A n \in Places(q, "CommReq") :
       /\ q[n].op \in Ops[q[n].comm]
       /\ q[n].comm \in K \/ \E l \in Places(q, "CommCreate") : l < n /\ q[l].comm = q[n].comm
  BY DEF Introduced
<1>10. \A l \in Places(q, "CommCreate") : l \in Places(r, "CommCreate") /\ r[l] = q[l]
  BY <1>2
<1>11. ASSUME NEW n \in Places(r, "CommReq")
       PROVE  /\ r[n].op \in Ops[r[n].comm]
              /\ r[n].comm \in K \/ \E l \in Places(r, "CommCreate") : l < n /\ r[l].comm = r[n].comm
  <2>1. n \in Places(q, "CommReq") /\ r[n] = q[n]
    BY <1>3
  <2> QED BY <1>9, <1>10, <2>1
<1>12. Introduced(r, K, M \cup {e.comm})
  BY <1>7, <1>8, <1>11 DEF Introduced
<1> QED BY <1>1, <1>4, <1>12

LEMMA AskRequests ==
  ASSUME NEW T, NEW q \in Seq(T), NEW e \in T, e.type = "CommReq", NEW w, NEW I, AsksOnce(q, w, I),
         e.id \in DOMAIN w, e.id \notin I, NEW N, w[e.id] = N, \A n \in Places(q, "CommReq") : q[n].comm # N,
         NEW K, NEW M, Introduced(q, K, M), e.comm \in M, e.op \in Ops[e.comm]
  PROVE  AsksOnce(q \o <<e>>, [w EXCEPT ![e.id] = e.comm], I) /\ Introduced(q \o <<e>>, K, M)
<1>1. PICK r : r = q \o <<e>>
  OBVIOUS
<1>2. /\ \A type : \A n \in Places(r, type) :
           \/ n \in Places(q, type) /\ r[n] = q[n]
           \/ n = Len(q) + 1 /\ r[n] = e /\ e.type = type
      /\ \A type : \A n \in Places(q, type) :
           n \in Places(r, type) /\ r[n] = q[n] /\ n \in Nat /\ n < Len(q) + 1
      /\ Len(q) + 1 \in Places(r, e.type) /\ r[Len(q) + 1] = e
  <2>1. Lengthened(q, e, r)
    BY <1>1, PlaceAdded
  <2> QED BY <2>1 DEF Lengthened
<1>3. Places(r, "CommCreate") = Places(q, "CommCreate") /\ \A n \in Places(q, "CommCreate") : r[n] = q[n]
  <2>1. \A n \in Places(r, "CommCreate") : n \in Places(q, "CommCreate")
    BY <1>2
  <2>2. \A n \in Places(q, "CommCreate") : n \in Places(r, "CommCreate") /\ r[n] = q[n]
    BY <1>2
  <2> QED BY <2>1, <2>2
<1>4. \A n \in Places(q, "CommReq") : q[n].id # e.id
  BY DEF AsksOnce
<1>5. PICK v : v = [w EXCEPT ![e.id] = e.comm]
  OBVIOUS
<1>6. v[e.id] = e.comm /\ \A x : x # e.id => v[x] = w[x]
  BY <1>5
<1>7. \A n \in Places(r, "CommReq") :
        (n \in Places(q, "CommReq") /\ r[n] = q[n]) \/ (n = Len(q) + 1 /\ r[n] = e)
  BY <1>2
<1>8. AsksOnce(r, v, I)
  BY <1>4, <1>6, <1>7 DEF AsksOnce
<1>9. /\ \A n \in Places(q, "CommReq") :
           /\ q[n].op \in Ops[q[n].comm]
           /\ q[n].comm \in K \/ \E l \in Places(q, "CommCreate") : l < n /\ q[l].comm = q[n].comm
      /\ e.comm \in K \/ \E l \in Places(q, "CommCreate") : q[l].comm = e.comm
  BY DEF Introduced
<1>10. \A l \in Places(q, "CommCreate") : l < Len(q) + 1
  BY <1>2
<1>11. ASSUME NEW n \in Places(r, "CommReq")
       PROVE  /\ r[n].op \in Ops[r[n].comm]
              /\ r[n].comm \in K \/ \E l \in Places(q, "CommCreate") : l < n /\ q[l].comm = r[n].comm
  BY <1>7, <1>9, <1>10
<1>12. Introduced(r, K, M)
  BY <1>3, <1>11 DEF Introduced
<1> QED BY <1>1, <1>5, <1>8, <1>12

(* An answer is read, or added.                                            *)
IdsIn(q) == {q[n].id : n \in Places(q, "Answer")}

LEMMA ToldTail ==
  ASSUME NEW T, NEW q \in Seq(T), q # <<>>, q[1].type = "Answer", NEW w, ToldOnce(q, w),
         q[1].id \in DOMAIN w, NEW N
  PROVE  /\ ToldOnce(Tail(q), [w EXCEPT ![q[1].id] = N])
         /\ IdsIn(Tail(q)) = IdsIn(q) \ {q[1].id} /\ q[1].id \in IdsIn(q)
<1>1. /\ \A n \in Places(Tail(q), "Answer") :
           n + 1 \in Places(q, "Answer") /\ Tail(q)[n] = q[n + 1] /\ n \in Nat \ {0}
      /\ \A n \in Places(q, "Answer") :
           n \in Nat /\ (n = 1 \/ (n - 1 \in Places(Tail(q), "Answer") /\ Tail(q)[n - 1] = q[n]))
      /\ 1 \in Places(q, "Answer")
  BY PlaceTail
<1>2. \A n \in Places(q, "Answer") :
        /\ Whole(q[n].value, w[q[n].id])
        /\ \A l \in Places(q, "Answer") : q[l].id = q[n].id => l = n
  BY DEF ToldOnce
<1>3. PICK v : v = [w EXCEPT ![q[1].id] = N]
  OBVIOUS
<1>4. \A x : x # q[1].id => v[x] = w[x]
  BY <1>3
<1>5. ASSUME NEW n \in Places(Tail(q), "Answer")
      PROVE  /\ Tail(q)[n].id # q[1].id
             /\ Whole(Tail(q)[n].value, v[Tail(q)[n].id])
             /\ \A l \in Places(Tail(q), "Answer") : Tail(q)[l].id = Tail(q)[n].id => l = n
  <2>1. n + 1 \in Places(q, "Answer") /\ Tail(q)[n] = q[n + 1] /\ n \in Nat \ {0}
    BY <1>1
  <2>2. q[n + 1].id # q[1].id
    <3>1. q[n + 1].id = q[1].id => n + 1 = 1
      BY <1>1, <1>2, <2>1
    <3> QED BY <2>1, <3>1
  <2>3. ASSUME NEW l \in Places(Tail(q), "Answer"), Tail(q)[l].id = Tail(q)[n].id
        PROVE  l = n
    <3>1. l + 1 \in Places(q, "Answer") /\ Tail(q)[l] = q[l + 1] /\ l \in Nat
      BY <1>1
    <3>2. l + 1 = n + 1
      BY <1>2, <2>1, <2>3, <3>1
    <3> QED BY <2>1, <3>1, <3>2
  <2>4. Whole(Tail(q)[n].value, v[Tail(q)[n].id])
    BY <1>2, <1>4, <2>1, <2>2
  <2> QED BY <2>1, <2>2, <2>3, <2>4
<1>6. ToldOnce(Tail(q), v)
  BY <1>5 DEF ToldOnce
<1>7. IdsIn(Tail(q)) = IdsIn(q) \ {q[1].id}
  <2>1. ASSUME NEW x \in IdsIn(Tail(q))
        PROVE  x \in IdsIn(q) \ {q[1].id}
    <3>1. PICK n \in Places(Tail(q), "Answer") : x = Tail(q)[n].id
      BY <2>1 DEF IdsIn
    <3>2. n + 1 \in Places(q, "Answer") /\ x = q[n + 1].id /\ x # q[1].id
      BY <1>1, <1>5, <3>1
    <3> QED BY <3>2 DEF IdsIn
  <2>2. ASSUME NEW x \in IdsIn(q), x # q[1].id
        PROVE  x \in IdsIn(Tail(q))
    <3>1. PICK n \in Places(q, "Answer") : x = q[n].id
      BY <2>2 DEF IdsIn
    <3>2. n - 1 \in Places(Tail(q), "Answer") /\ Tail(q)[n - 1] = q[n]
      BY <1>1, <2>2, <3>1
    <3> QED BY <3>1, <3>2 DEF IdsIn
  <2> QED BY <2>1, <2>2
<1>8. q[1].id \in IdsIn(q)
  BY <1>1 DEF IdsIn
<1> QED BY <1>3, <1>6, <1>7, <1>8

LEMMA ToldMore ==
  ASSUME NEW T, NEW q \in Seq(T), NEW a \in T, a.type = "Answer", NEW w, ToldOnce(q, w),
         a.id \notin IdsIn(q), Whole(a.value, w[a.id])
  PROVE  ToldOnce(Append(q, a), w) /\ IdsIn(Append(q, a)) = IdsIn(q) \cup {a.id}
<1>1. PICK r : r = q \o <<a>>
  OBVIOUS
<1>2. Append(q, a) = r
  BY <1>1
<1>3. /\ \A type : \A n \in Places(r, type) :
           \/ n \in Places(q, type) /\ r[n] = q[n]
           \/ n = Len(q) + 1 /\ r[n] = a /\ a.type = type
      /\ \A type : \A n \in Places(q, type) :
           n \in Places(r, type) /\ r[n] = q[n] /\ n \in Nat /\ n < Len(q) + 1
      /\ Len(q) + 1 \in Places(r, a.type) /\ r[Len(q) + 1] = a
  <2>1. Lengthened(q, a, r)
    BY <1>1, PlaceAdded
  <2> QED BY <2>1 DEF Lengthened
<1>4. \A n \in Places(q, "Answer") :
        /\ q[n].id # a.id
        /\ Whole(q[n].value, w[q[n].id])
        /\ \A l \in Places(q, "Answer") : q[l].id = q[n].id => l = n
  BY DEF ToldOnce, IdsIn
<1>5. \A n \in Places(r, "Answer") :
        (n \in Places(q, "Answer") /\ r[n] = q[n]) \/ (n = Len(q) + 1 /\ r[n] = a)
  BY <1>3
<1>6. ToldOnce(r, w)
  BY <1>4, <1>5 DEF ToldOnce
<1>7. IdsIn(r) = IdsIn(q) \cup {a.id}
  <2>1. ASSUME NEW x \in IdsIn(r)
        PROVE  x \in IdsIn(q) \cup {a.id}
    BY <1>5, <2>1 DEF IdsIn
  <2>2. ASSUME NEW x \in IdsIn(q)
        PROVE  x \in IdsIn(r)
    <3>1. PICK n \in Places(q, "Answer") : x = q[n].id
      BY <2>2 DEF IdsIn
    <3>2. n \in Places(r, "Answer") /\ r[n] = q[n]
      BY <1>3
    <3> QED BY <3>1, <3>2 DEF IdsIn
  <2>3. a.id \in IdsIn(r)
    BY <1>3 DEF IdsIn
  <2> QED BY <2>1, <2>2, <2>3
<1> QED BY <1>2, <1>6, <1>7

LEMMA AsksForget ==
  ASSUME NEW q, NEW w, NEW I, NEW x \in I, AsksOnce(q, w, I), NEW N
  PROVE  AsksOnce(q, [w EXCEPT ![x] = N], I \ {x})
<1>1. PICK v : v = [w EXCEPT ![x] = N]
  OBVIOUS
<1>2. \A y : y # x => v[y] = w[y]
  BY <1>1
<1>3. AsksOnce(q, v, I \ {x})
  BY <1>2 DEF AsksOnce
<1> QED BY <1>1, <1>3

-----------------------------------------------------------------------------
(* HeldOnce in terms of what is on a client's connection (q, o), what it   *)
(* waits for (w) and the CommReqInfos (f).                                 *)
KeptIn(f, c) == {i \in InfoId : f[i] # Free /\ f[i].src = c}
KeptIdsIn(f, c) == {f[i].id : i \in KeptIn(f, c)}
KeptRight(f, c, w) ==
  \A i \in KeptIn(f, c) :
    /\ w[f[i].id] = f[i].comm /\ f[i].op \in Ops[f[i].comm]
    /\ \A j \in KeptIn(f, c) : f[j].id = f[i].id => i = j
HeldBy(c, q, o, w, f) ==
  /\ AsksOnce(q, w, KeptIdsIn(f, c) \cup IdsIn(o))
  /\ KeptRight(f, c, w) /\ KeptIdsIn(f, c) \cap IdsIn(o) = {}
  /\ ToldOnce(o, w)

LEMMA HeldIs ==
  ASSUME NEW c
  PROVE  /\ HeldOnce(c) <=> HeldBy(c, inq[c], outq[c], want[c], info)
         /\ HeldOnce(c)' <=> HeldBy(c, inq'[c], outq'[c], want'[c], info')
<1>1. /\ KeptFor(c) = KeptIn(info, c) /\ KeptFor(c)' = KeptIn(info', c)
      /\ KeptIds(c) = KeptIdsIn(info, c) /\ KeptIds(c)' = KeptIdsIn(info', c)
      /\ ToldIds(c) = IdsIn(outq[c]) /\ ToldIds(c)' = IdsIn(outq'[c])
  BY DEF KeptFor, KeptIn, KeptIds, KeptIdsIn, ToldIds, IdsIn
<1>2. /\ KeptOnce(c) <=> KeptRight(info, c, want[c])
      /\ KeptOnce(c)' <=> KeptRight(info', c, want'[c])
  BY <1>1 DEF KeptOnce, KeptRight
<1>3. HeldOnce(c) <=> HeldBy(c, inq[c], outq[c], want[c], info)
  BY <1>1, <1>2 DEF HeldOnce, HeldBy
<1>4. HeldOnce(c)' <=> HeldBy(c, inq'[c], outq'[c], want'[c], info')
  <2>1. HeldOnce(c)' <=>
          /\ AsksOnce(inq'[c], want'[c], KeptIds(c)' \cup ToldIds(c)')
          /\ KeptOnce(c)' /\ KeptIds(c)' \cap ToldIds(c)' = {}
          /\ ToldOnce(outq'[c], want'[c])
    BY DEF HeldOnce
  <2> QED BY <1>1, <1>2, <2>1 DEF HeldBy
<1> QED BY <1>3, <1>4

(* A message is taken that is no request.                                  *)
LEMMA HeldTaken ==
  ASSUME NEW c, NEW T, NEW q \in Seq(T), q # <<>>, NEW o, NEW w, NEW f, HeldBy(c, q, o, w, f)
  PROVE  HeldBy(c, Tail(q), o, w, f)
BY AsksTail DEF HeldBy

(* The CommReqInfos change, but not of whom they are.                      *)
LEMMA HeldAlike ==
  ASSUME NEW c, NEW q, NEW o, NEW w, NEW f, NEW g, HeldBy(c, q, o, w, f),
         \A i \in KeptIn(g, c) : /\ i \in KeptIn(f, c) /\ g[i].id = f[i].id
                                /\ g[i].comm = f[i].comm /\ g[i].op = f[i].op,
         \A i \in KeptIn(f, c) : i \in KeptIn(g, c)
  PROVE  HeldBy(c, q, o, w, g)
<1>1. KeptIdsIn(g, c) = KeptIdsIn(f, c)
  <2>1. \A x \in KeptIdsIn(g, c) : x \in KeptIdsIn(f, c)
    BY DEF KeptIdsIn
  <2>2. \A x \in KeptIdsIn(f, c) : x \in KeptIdsIn(g, c)
    BY DEF KeptIdsIn
  <2> QED BY <2>1, <2>2
<1>2. KeptRight(g, c, w)
  <2>1. KeptRight(f, c, w)
    BY DEF HeldBy
  <2> QED BY <2>1 DEF KeptRight
<1> QED BY <1>1, <1>2 DEF HeldBy

(* A request becomes a CommReqInfo.                                        *)
LEMMA HeldFan ==
  ASSUME NEW c, NEW T, NEW q \in Seq(T), q # <<>>, q[1].type = "CommReq", NEW o, NEW w, NEW f,
         HeldBy(c, q, o, w, f), NEW i \in InfoId, f[i] = Free, NEW g,
         g[i] # Free, g[i].src = c, g[i].id = q[1].id, g[i].comm = q[1].comm,
         g[i].op \in Ops[q[1].comm],
         \A j \in InfoId : j # i => g[j] = f[j]
  PROVE  HeldBy(c, Tail(q), o, w, g)
<1>1. KeptIn(g, c) = KeptIn(f, c) \cup {i} /\ i \notin KeptIn(f, c)
  BY DEF KeptIn
<1>2. \A j \in KeptIn(f, c) : g[j] = f[j] /\ j # i
  BY <1>1 DEF KeptIn
<1>3. KeptIdsIn(g, c) = KeptIdsIn(f, c) \cup {q[1].id}
  <2>1. ASSUME NEW x \in KeptIdsIn(g, c) PROVE x \in KeptIdsIn(f, c) \cup {q[1].id}
    <3>1. PICK j \in KeptIn(g, c) : x = g[j].id
      BY <2>1 DEF KeptIdsIn
    <3> QED BY <1>1, <1>2, <3>1 DEF KeptIdsIn
  <2>2. ASSUME NEW x \in KeptIdsIn(f, c) PROVE x \in KeptIdsIn(g, c)
    <3>1. PICK j \in KeptIn(f, c) : x = f[j].id
      BY <2>2 DEF KeptIdsIn
    <3> QED BY <1>1, <1>2, <3>1 DEF KeptIdsIn
  <2>3. q[1].id \in KeptIdsIn(g, c)
    BY <1>1 DEF KeptIdsIn
  <2> QED BY <2>1, <2>2, <2>3
<1> DEFINE I == KeptIdsIn(f, c) \cup IdsIn(o)
<1>4. AsksOnce(q, w, I) /\ KeptRight(f, c, w) /\ KeptIdsIn(f, c) \cap IdsIn(o) = {} /\ ToldOnce(o, w)
  BY DEF HeldBy
<1>5. AsksOnce(Tail(q), w, I \cup {q[1].id}) /\ w[q[1].id] = q[1].comm /\ q[1].id \notin I
  <2> HIDE DEF I
  <2> QED BY <1>4, AsksTail
<1>6. I \cup {q[1].id} = KeptIdsIn(g, c) \cup IdsIn(o) /\ KeptIdsIn(g, c) \cap IdsIn(o) = {}
  BY <1>3, <1>4, <1>5
<1>7. \A j \in KeptIn(f, c) : f[j].id # q[1].id
  BY <1>5 DEF KeptIdsIn
<1>8. KeptRight(g, c, w)
  <2>1. ASSUME NEW j \in KeptIn(g, c)
        PROVE  /\ w[g[j].id] = g[j].comm /\ g[j].op \in Ops[g[j].comm]
               /\ \A l \in KeptIn(g, c) : g[l].id = g[j].id => j = l
    <3>1. CASE j = i
      <4>1. ASSUME NEW l \in KeptIn(g, c), g[l].id = g[j].id PROVE j = l
        BY <1>1, <1>2, <1>7, <3>1, <4>1
      <4> QED BY <1>5, <3>1, <4>1
    <3>2. CASE j \in KeptIn(f, c)
      <4>1. ASSUME NEW l \in KeptIn(g, c), g[l].id = g[j].id PROVE j = l
        BY <1>1, <1>2, <1>4, <1>7, <3>2, <4>1 DEF KeptRight
      <4>2. w[g[j].id] = g[j].comm /\ g[j].op \in Ops[g[j].comm]
        BY <1>2, <1>4, <3>2 DEF KeptRight
      <4> QED BY <4>1, <4>2
    <3> QED BY <1>1, <3>1, <3>2
  <2> QED BY <2>1 DEF KeptRight
<1> HIDE DEF I
<1> QED BY <1>4, <1>5, <1>6, <1>8 DEF HeldBy

(* A CommReqInfo becomes an answer to its client, and nothing changes for  *)
(* another one.                                                            *)
LEMMA HeldReply ==
  ASSUME NEW c, NEW q, NEW T, NEW o \in Seq(T), NEW w, NEW f, HeldBy(c, q, o, w, f),
         NEW i \in KeptIn(f, c), NEW g, g[i] = Free,
         \A j \in InfoId : j # i => g[j] = f[j],
         NEW a \in T, a.type = "Answer", a.id = f[i].id, Whole(a.value, f[i].comm)
  PROVE  HeldBy(c, q, Append(o, a), w, g)
<1>1. AsksOnce(q, w, KeptIdsIn(f, c) \cup IdsIn(o)) /\ KeptRight(f, c, w)
      /\ KeptIdsIn(f, c) \cap IdsIn(o) = {} /\ ToldOnce(o, w)
  BY DEF HeldBy
<1>2. KeptIn(g, c) = KeptIn(f, c) \ {i} /\ \A j \in KeptIn(g, c) : g[j] = f[j]
  BY DEF KeptIn
<1>3. f[i].id \in KeptIdsIn(f, c)
  BY DEF KeptIdsIn
<1>4. KeptIdsIn(g, c) = KeptIdsIn(f, c) \ {f[i].id}
  <2>1. ASSUME NEW x \in KeptIdsIn(g, c) PROVE x \in KeptIdsIn(f, c) \ {f[i].id}
    <3>1. PICK j \in KeptIn(g, c) : x = g[j].id
      BY <2>1 DEF KeptIdsIn
    <3>2. j \in KeptIn(f, c) /\ j # i /\ x = f[j].id
      BY <1>2, <3>1
    <3>3. f[j].id # f[i].id
      BY <1>1, <3>2 DEF KeptRight
    <3> QED BY <3>2, <3>3 DEF KeptIdsIn
  <2>2. ASSUME NEW x \in KeptIdsIn(f, c), x # f[i].id PROVE x \in KeptIdsIn(g, c)
    <3>1. PICK j \in KeptIn(f, c) : x = f[j].id
      BY <2>2 DEF KeptIdsIn
    <3>2. j \in KeptIn(g, c) /\ g[j] = f[j]
      BY <1>2, <2>2, <3>1
    <3> QED BY <3>1, <3>2 DEF KeptIdsIn
  <2> QED BY <2>1, <2>2
<1>5. KeptRight(g, c, w)
  BY <1>1, <1>2 DEF KeptRight
<1>6. w[a.id] = f[i].comm /\ a.id \notin IdsIn(o)
  BY <1>1, <1>3 DEF KeptRight
<1>7. ToldOnce(Append(o, a), w) /\ IdsIn(Append(o, a)) = IdsIn(o) \cup {a.id}
  BY <1>1, <1>6, ToldMore
<1>8. /\ KeptIdsIn(g, c) \cup IdsIn(Append(o, a)) = KeptIdsIn(f, c) \cup IdsIn(o)
      /\ KeptIdsIn(g, c) \cap IdsIn(Append(o, a)) = {}
  BY <1>1, <1>3, <1>4, <1>7
<1> QED BY <1>1, <1>5, <1>7, <1>8 DEF HeldBy

LEMMA HeldElse ==
  ASSUME NEW c, NEW q, NEW o, NEW w, NEW f, HeldBy(c, q, o, w, f), NEW g,
         NEW i \in InfoId, i \notin KeptIn(f, c), i \notin KeptIn(g, c),
         \A j \in InfoId : j # i => g[j] = f[j]
  PROVE  HeldBy(c, q, o, w, g)
<1>1. \A j \in KeptIn(g, c) : j \in KeptIn(f, c) /\ g[j] = f[j]
  BY DEF KeptIn
<1>2. \A j \in KeptIn(f, c) : j \in KeptIn(g, c)
  BY DEF KeptIn
<1> QED BY <1>1, <1>2, HeldAlike

(* The client reads an answer.                                             *)
LEMMA HeldRead ==
  ASSUME NEW c, NEW q, NEW T, NEW o \in Seq(T), o # <<>>, o[1].type = "Answer", NEW w, NEW f,
         HeldBy(c, q, o, w, f), o[1].id \in DOMAIN w, NEW N
  PROVE  HeldBy(c, q, Tail(o), [w EXCEPT ![o[1].id] = N], f)
<1>1. AsksOnce(q, w, KeptIdsIn(f, c) \cup IdsIn(o)) /\ KeptRight(f, c, w)
      /\ KeptIdsIn(f, c) \cap IdsIn(o) = {} /\ ToldOnce(o, w)
  BY DEF HeldBy
<1>2. PICK v : v = [w EXCEPT ![o[1].id] = N]
  OBVIOUS
<1>3. /\ ToldOnce(Tail(o), v) /\ o[1].id \in IdsIn(o)
      /\ IdsIn(Tail(o)) = IdsIn(o) \ {o[1].id}
  BY <1>1, <1>2, ToldTail
<1>4. o[1].id \notin KeptIdsIn(f, c)
  BY <1>1, <1>3
<1>5. KeptRight(f, c, v)
  <2>1. \A i \in KeptIn(f, c) : f[i].id # o[1].id
    BY <1>4 DEF KeptIdsIn
  <2>2. \A x : x # o[1].id => v[x] = w[x]
    BY <1>2
  <2> QED BY <1>1, <2>1, <2>2 DEF KeptRight
<1>6. AsksOnce(q, v, (KeptIdsIn(f, c) \cup IdsIn(o)) \ {o[1].id})
  <2>1. o[1].id \in KeptIdsIn(f, c) \cup IdsIn(o)
    BY <1>3
  <2> QED BY <1>1, <1>2, <2>1, AsksForget
<1>7. /\ (KeptIdsIn(f, c) \cup IdsIn(o)) \ {o[1].id} = KeptIdsIn(f, c) \cup IdsIn(Tail(o))
      /\ KeptIdsIn(f, c) \cap IdsIn(Tail(o)) = {}
  BY <1>1, <1>3, <1>4
<1>8. HeldBy(c, q, Tail(o), v, f)
  BY <1>3, <1>5, <1>6, <1>7 DEF HeldBy
<1> QED BY <1>2, <1>8

(* The client asks, with a CommCreate ahead of the first request of a      *)
(* communicator.                                                           *)
AskReady(c, q, f, M) ==
  /\ \A n \in Places(q, "CommCreate") : q[n].comm \in M
  /\ \A n \in Places(q, "CommReq") : q[n].comm # NoComm
  /\ \A i \in KeptIn(f, c) : f[i].comm # NoComm

(* A request for k, with a CommCreate ahead of it where k is not in M.      *)
AskOf(e, x, k) == e.type = "CommReq" /\ e.id = x /\ e.comm = k /\ e.op \in Ops[k]
CreateOf(d, k) == d.type = "CommCreate" /\ d.comm = k
Ahead(p, q, d, k, M) == p = IF k \in M THEN q ELSE q \o <<d>>

LEMMA HeldAsk ==
  ASSUME NEW c, NEW T, NEW q \in Seq(T), NEW o, NEW w, NEW f, HeldBy(c, q, o, w, f),
         NEW K, NEW M, Introduced(q, K, M), K \subseteq M, AskReady(c, q, f, M),
         NEW k \in CommId, NEW x \in DOMAIN w, w[x] = NoComm,
         NEW e \in T, AskOf(e, x, k), NEW d \in T, CreateOf(d, k), NEW p, Ahead(p, q, d, k, M)
  PROVE  HeldBy(c, p \o <<e>>, o, [w EXCEPT ![x] = k], f) /\ Introduced(p \o <<e>>, K, M \cup {k})
<1> DEFINE I == KeptIdsIn(f, c) \cup IdsIn(o)
<1>0. /\ \A n \in Places(q, "CommCreate") : q[n].comm \in M
      /\ \A n \in Places(q, "CommReq") : q[n].comm # NoComm
      /\ \A i \in KeptIn(f, c) : f[i].comm # NoComm
  BY DEF AskReady
<1>a. /\ e.type = "CommReq" /\ e.id = x /\ e.comm = k /\ e.op \in Ops[k]
      /\ d.type = "CommCreate" /\ d.comm = k
  BY DEF AskOf, CreateOf
<1>b. p = IF k \in M THEN q ELSE q \o <<d>>
  BY DEF Ahead
<1>1. AsksOnce(q, w, I) /\ KeptRight(f, c, w) /\ KeptIdsIn(f, c) \cap IdsIn(o) = {} /\ ToldOnce(o, w)
  BY DEF HeldBy
<1>2. PICK v : v = [w EXCEPT ![x] = k]
  OBVIOUS
<1>3. \A y : y # x => v[y] = w[y]
  BY <1>2
<1>4. \A i \in KeptIn(f, c) : f[i].id # x
  BY <1>0, <1>1 DEF KeptRight
<1>5. KeptRight(f, c, v)
  BY <1>1, <1>3, <1>4 DEF KeptRight
<1>6. \A n \in Places(o, "Answer") : o[n].id # x
  <2>1. ASSUME NEW n \in Places(o, "Answer"), o[n].id = x PROVE FALSE
    <3>1. Whole(o[n].value, w[x])
      BY <1>1, <2>1 DEF ToldOnce
    <3>2. w[x] \in CommId
      BY <3>1 DEF Whole
    <3> QED BY <3>2, RouteAssumption
  <2> QED BY <2>1
<1>7. ToldOnce(o, v)
  BY <1>1, <1>3, <1>6 DEF ToldOnce
<1>8. x \notin I
  BY <1>4, <1>6 DEF KeptIdsIn, IdsIn
<1> HIDE DEF I
<1>9. AsksOnce(p \o <<e>>, v, I) /\ Introduced(p \o <<e>>, K, M \cup {k})
  <2>1. p \in Seq(T) /\ AsksOnce(p, w, I) /\ Introduced(p, K, M \cup {k})
        /\ \A n \in Places(p, "CommReq") : p[n].comm # NoComm
    <3>1. CASE k \in M
      <4>1. M \cup {k} = M /\ p = q
        BY <3>1, <1>b
      <4> QED BY <1>0, <1>1, <4>1
    <3>2. CASE k \notin M
      <4>1. k \notin K /\ \A n \in Places(q, "CommCreate") : q[n].comm # k
        BY <1>0, <3>2
      <4>2. AsksOnce(q \o <<d>>, w, I) /\ Introduced(q \o <<d>>, K, M \cup {k})
        BY <1>1, <4>1, <1>a, AskCreates
      <4>3. p = q \o <<d>>
        BY <3>2, <1>b
      <4>4. p \in Seq(T) /\ Lengthened(q, d, p)
        BY <4>3, PlaceAdded
      <4>5. \A n \in Places(p, "CommReq") : n \in Places(q, "CommReq") /\ p[n] = q[n]
        BY <4>4, <1>a DEF Lengthened
      <4> QED BY <1>0, <4>2, <4>3, <4>4, <4>5
    <3> QED BY <3>1, <3>2
  <2>2. PICK m : m = M \cup {k}
    OBVIOUS
  <2>3. k \in m /\ Introduced(p, K, m)
    BY <2>1, <2>2
  <2>4. AsksOnce(p \o <<e>>, [w EXCEPT ![e.id] = e.comm], I) /\ Introduced(p \o <<e>>, K, m)
    <3>1. e.id \in DOMAIN w /\ e.id \notin I /\ w[e.id] = NoComm /\ e.comm \in m /\ e.op \in Ops[e.comm]
      BY <1>8, <2>3, <1>a
    <3> QED BY <2>1, <2>3, <3>1, <1>a, AskRequests, Zenon
  <2> QED BY <1>2, <2>2, <2>4, <1>a
<1>10. HeldBy(c, p \o <<e>>, o, v, f)
  BY <1>1, <1>5, <1>7, <1>9 DEF HeldBy, I
<1> QED BY <1>2, <1>9, <1>10

-----------------------------------------------------------------------------
(* What is sent.                                                           *)
LEMMA PickedNone ==
  ASSUME NEW T, NEW ms \in Seq(T), NEW P, \A n \in DOMAIN ms : n \notin P
  PROVE  Picked(ms, P) = <<>>
<1>1. /\ Picked(ms, P) \in Seq(T)
      /\ \A x : x \in Range(Picked(ms, P)) <=> \E n \in DOMAIN ms : n \in P /\ x = ms[n]
  BY PickedFacts
<1>2. \A x : x \notin Range(Picked(ms, P))
  BY <1>1
<1>3. DOMAIN Picked(ms, P) = {}
  BY <1>2 DEF Range
<1> QED BY <1>1, <1>3

(* With a route to each, sending does not end the router; and clients get  *)
(* nothing of it.                                                          *)
LEMMA SendSafe ==
  ASSUME RtrTypeOK, Plugged, Linked, Settled, NEW ms \in Seq(ForServers), Send(ms),
         \A m \in Range(ms) : Home[m.dst] # NoRoute
  PROVE  /\ up' = TRUE
         /\ \A c \in Chan : \/ outq'[c] = outq[c]
                            \/ kind[c] = "server" /\ \E r \in Seq(ForServers) : outq'[c] = outq[c] \o r
<1>1. \A m \in Range(ms) : m.dst \in Obj /\ Home[m.dst] \in Server
  <2>1. ASSUME NEW m \in Range(ms)
        PROVE  m.dst \in Obj /\ Home[m.dst] \in Server
    <3>1. m \in ForServers
      BY DEF Range
    <3>2. m.dst \in Obj
      BY <3>1, ForServersFacts
    <3> QED BY <3>2, RouteAssumption
  <2> QED BY <2>1
<1>2. \A s \in Server : localMap[s] # NoChan =>
        localMap[s] \in Chan /\ kind[localMap[s]] = "server" /\ conn[localMap[s]] = "open"
  BY DEF RtrTypeOK, Linked, Plugged
<1>3. up' = TRUE
  <2> DEFINE D == {Route(m.dst) : m \in Range(ms)}
  <2>1. \A d \in D : d = NoChan \/ (d \in Chan /\ kind[d] = "server" /\ conn[d] = "open")
    <3>1. ASSUME NEW m \in Range(ms), NEW d, d = Route(m.dst)
          PROVE  d = NoChan \/ (d \in Chan /\ kind[d] = "server" /\ conn[d] = "open")
      <4>1. Home[m.dst] \in Server /\ Home[m.dst] # NoRoute
        BY <1>1
      <4>2. d = localMap[Home[m.dst]]
        BY <3>1, <4>1 DEF Route
      <4> QED BY <1>2, <4>1, <4>2
    <3> QED BY <3>1
  <2>2. up' \in Fate(D)
    BY DEF Send
  <2> HIDE DEF D
  <2>3. NoRoute # NoChan /\ NoRoute \notin Chan /\ NoChan \notin Chan
    BY RouteAssumption
  <2>4. Fate(D) = {TRUE}
    <3>1. ~\E d \in D : d = NoRoute \/ (d \in Chan /\ kind[d] = "free")
      BY <2>1, <2>3
    <3>2. ~\E d \in D : d \in Chan /\ conn[d] # "open"
      BY <2>1, <2>3
    <3> QED BY <3>1, <3>2 DEF Fate
  <2> QED BY <2>2, <2>4
<1>4. ASSUME NEW c \in Chan
      PROVE  \/ outq'[c] = outq[c]
             \/ kind[c] = "server" /\ \E r \in Seq(ForServers) : outq'[c] = outq[c] \o r
  <2>1. outq'[c] = IF conn[c] = "open" THEN outq[c] \o Picked(ms, Routed(ms, c)) ELSE outq[c]
    <3>1. outq' = [d \in Chan |-> IF conn[d] = "open" THEN outq[d] \o Picked(ms, Routed(ms, d)) ELSE outq[d]]
      BY SendPicks
    <3> QED BY <3>1
  <2>2. Picked(ms, Routed(ms, c)) \in Seq(ForServers) /\ outq[c] \in Seq(ForServers \cup Answers)
    BY PickedFacts DEF RtrTypeOK
  <2>3. CASE kind[c] = "server"
    BY <2>1, <2>2, <2>3
  <2>4. CASE kind[c] # "server"
    <3>1. ASSUME NEW n \in DOMAIN ms PROVE Route(ms[n].dst) # c
      <4>1. ms[n] \in Range(ms)
        BY DEF Range
      <4>2. PICK m \in Range(ms) : m = ms[n]
        BY <4>1
      <4>3. Home[m.dst] \in Server /\ Home[m.dst] # NoRoute
        BY <1>1
      <4>4. Route(m.dst) = localMap[Home[m.dst]]
        BY <4>3 DEF Route
      <4>5. c # NoChan
        BY RouteAssumption
      <4> QED BY <1>2, <2>4, <4>2, <4>3, <4>4, <4>5
    <3>2. Picked(ms, Routed(ms, c)) = <<>>
      BY <3>1, PickedNone DEF Routed
    <3>3. outq[c] \o <<>> = outq[c]
      BY <2>2
    <3> QED BY <2>1, <3>2, <3>3
  <2> QED BY <2>3, <2>4
<1> QED BY <1>3, <1>4

-----------------------------------------------------------------------------
(* The state between two steps.                                            *)
Sound == RtrTypeOK /\ Apart /\ Plugged /\ Linked /\ InPlace /\ Tallied /\ Steady

LEMMA SoundIs == CalmIInv <=> Sound
BY DEF CalmIInv, Sound, IInv, Steady, Settled

(* Where what goes to servers is not sent by the step itself.              *)
LEMMA SettledNext ==
  ASSUME Settled, UNCHANGED <<kind, conn, starts, srvChan>>, up' = TRUE,
         \A c \in Chan : kind[c] = "free" => inq'[c] = inq[c] /\ outq'[c] = outq[c] /\ want'[c] = want[c],
         \A c \in Chan : kind[c] # "client" => Places(outq'[c], "Answer") = {},
         \A i \in InfoId : info'[i] # Free => kind[info'[i].src] = "client"
  PROVE  Settled'
BY DEF Settled, NoneStopped

LEMMA SteadyNext ==
  ASSUME Settled',
         \A c \in Chan : kind'[c] = "client" =>
           Introduced(inq'[c], comms'[c], made'[c]) /\ HeldBy(c, inq'[c], outq'[c], want'[c], info')
  PROVE  Steady'
<1>1. \A c \in Chan : HeldOnce(c)' <=> HeldBy(c, inq'[c], outq'[c], want'[c], info')
  BY HeldIs
<1> QED BY <1>1 DEF Steady

LEMMA SteadyParts ==
  ASSUME Steady
  PROVE  /\ Settled
         /\ \A c \in Chan : kind[c] = "client" =>
              Introduced(inq[c], comms[c], made[c]) /\ HeldBy(c, inq[c], outq[c], want[c], info)
<1>1. \A c \in Chan : HeldOnce(c) <=> HeldBy(c, inq[c], outq[c], want[c], info)
  BY HeldIs
<1> QED BY <1>1 DEF Steady

(* The request at the head of a server's queue finds its object.           *)
LEMMA HeadServed ==
  ASSUME RtrTypeOK, Plugged, Linked, InPlace, NEW s \in Server, srvChan[s] # NoChan,
         outq[srvChan[s]] # <<>>, Head(outq[srvChan[s]]).type = "CommReq"
  PROVE  objs[s][Head(outq[srvChan[s]]).comm] = Head(outq[srvChan[s]]).dst /\ objs[s][Head(outq[srvChan[s]]).comm] # NoObj
<1>1. PICK c \in Chan : c = srvChan[s]
  BY DEF RtrTypeOK
<1>2. PICK q \in Seq(ForServers \cup Answers) : q = outq[c]
  BY DEF RtrTypeOK
<1>3. Head(q) = q[1] /\ 1 \in DOMAIN q /\ q[1].type = "CommReq" /\ q[1] \in ForServers \cup Answers
  BY <1>1, <1>2
<1>4. PICK t \in Server : localMap[t] = c
  BY <1>2, <1>3 DEF Linked
<1>5. c # NoChan /\ srvChan[t] = c
  BY <1>1, <1>4 DEF Linked
<1>6. t = s
  BY <1>1, <1>5 DEF Plugged
<1>7. Queue(s) = q
  BY <1>1, <1>2, <1>4, <1>5, <1>6 DEF Queue
<1>8. Stands(q, objs[s][q[1].comm], q[1].comm, 1, q[1].dst)
  BY <1>3, <1>7 DEF InPlace
<1>9. objs[s][q[1].comm] = q[1].dst
  BY <1>8 DEF Stands
<1>10. q[1].dst \in Obj
  BY <1>3, MessageTypes, ForServersFacts
<1> QED BY <1>1, <1>2, <1>3, <1>9, <1>10, RouteAssumption

(* What only happens when somebody leaves or stops.                        *)
LEMMA NoneEnds ==
  ASSUME Calm, Sound
  PROVE  /\ \A c \in Chan : ~RtrClientClosed(c) /\ ~RtrServerClosed(c) /\ ~RtrReset(c) /\ ~CliLeave(c)
         /\ \A s \in Server : ~SrvCrash(s) /\ ~SrvDie(s)
<1>1. \A c \in Chan : conn[c] # "eof" /\ conn[c] # "reset"
  BY DEF Sound, Steady, Settled
<1>2. ASSUME NEW c \in Chan, kind[c] = "client", NEW n \in DOMAIN outq[c] PROVE outq[c][n].type = "Answer"
  <2>1. SUFFICES ASSUME outq[c][n].type # "Answer" PROVE FALSE
    OBVIOUS
  <2>2. PICK s \in Server : localMap[s] = c
    BY <2>1 DEF Sound, Linked
  <2>3. srvChan[s] = c /\ c # NoChan
    BY <2>2, RouteAssumption DEF Sound, Linked
  <2> QED BY <1>2, <2>3 DEF Sound, Plugged
<1>3. ASSUME NEW c \in Chan, CliLeave(c) PROVE FALSE
  <2>1. kind[c] = "client"
    BY <1>3 DEF CliLeave, IsClient
  <2>2. outq[c] # <<>> /\ Head(outq[c]).type # "Answer"
    BY <1>3 DEF CliLeave, Calm
  <2>3. outq[c] \in Seq(ForServers \cup Answers)
    BY DEF Sound, RtrTypeOK
  <2>4. 1 \in DOMAIN outq[c] /\ Head(outq[c]) = outq[c][1]
    BY <2>2, <2>3, TailAt
  <2> QED BY <1>2, <2>1, <2>2, <2>4
<1>4. ASSUME NEW s \in Server, SrvCrash(s) PROVE FALSE
  <2>1. srvChan[s] # NoChan /\ outq[srvChan[s]] # <<>> /\ Unserved(s)
    BY <1>4 DEF SrvCrash
  <2>2. srvChan[s] \in Chan /\ kind[srvChan[s]] = "server" /\ outq[srvChan[s]] \in Seq(ForServers \cup Answers)
    BY <2>1 DEF Sound, RtrTypeOK, Plugged
  <2>3. 1 \in DOMAIN outq[srvChan[s]] /\ Head(outq[srvChan[s]]) = outq[srvChan[s]][1]
    BY <2>1, <2>2, TailAt
  <2>4. Head(outq[srvChan[s]]).type # "Answer"
    <3>1. Places(outq[srvChan[s]], "Answer") = {}
      BY <2>2 DEF Sound, Steady, Settled
    <3> QED BY <2>3, <3>1 DEF Places
  <2>5. Head(outq[srvChan[s]]).type = "CommReq" /\ objs[s][Head(outq[srvChan[s]]).comm] = NoObj
    BY <2>1, <2>4 DEF Unserved
  <2> QED BY <2>1, <2>5, HeadServed DEF Sound
<1>5. \A s \in Server : ~SrvDie(s)
  BY DEF Calm, SrvDie
<1> QED BY <1>1, <1>3, <1>4, <1>5 DEF RtrClientClosed, RtrServerClosed, RtrReset, Closed

-----------------------------------------------------------------------------
(* Steady is kept, action by action.                                       *)
ToServers ==
  \A c \in Chan : \/ outq'[c] = outq[c]
                  \/ kind[c] = "server" /\ \E r \in Seq(ForServers) : outq'[c] = outq[c] \o r

LEMMA NoAnswersAdded ==
  ASSUME RtrTypeOK, Settled, ToServers
  PROVE  /\ \A c \in Chan : kind[c] # "client" => Places(outq'[c], "Answer") = {}
         /\ \A c \in Chan : kind[c] # "server" => outq'[c] = outq[c]
<1>1. ASSUME NEW c \in Chan, kind[c] # "client" PROVE Places(outq'[c], "Answer") = {}
  <2>1. Places(outq[c], "Answer") = {}
    BY <1>1 DEF Settled
  <2>2. ASSUME NEW r \in Seq(ForServers), outq'[c] = outq[c] \o r
        PROVE  Places(outq'[c], "Answer") = {}
    <3>1. PICK q \in Seq(ForServers \cup Answers) : q = outq[c]
      BY DEF RtrTypeOK
    <3>2. r \in Seq(ForServers \cup Answers)
      OBVIOUS
    <3>3. PICK p : p = q \o r
      OBVIOUS
    <3>4. \A n \in DOMAIN p : \/ n \in DOMAIN q /\ p[n] = q[n]
                              \/ n - Len(q) \in DOMAIN r /\ p[n] = r[n - Len(q)]
      BY <3>2, <3>3, JoinAt
    <3>5. \A n \in DOMAIN r : r[n].type # "Answer"
      <4>1. \A n \in DOMAIN r : r[n] \in ForServers
        OBVIOUS
      <4> QED BY <4>1, MessageTypes
    <3>6. \A n \in DOMAIN q : q[n].type # "Answer"
      BY <2>1, <3>1 DEF Places
    <3>7. \A n \in DOMAIN p : p[n].type # "Answer"
      BY <3>4, <3>5, <3>6
    <3> QED BY <2>2, <3>1, <3>3, <3>7 DEF Places
  <2> QED BY <2>1, <2>2 DEF ToServers
<1> QED BY <1>1 DEF ToServers

LEMMA CreateGoes ==
  ASSUME Calm, Sound, NEW c \in Chan, RtrCommCreate(c)
  PROVE  /\ kind[c] = "client" /\ inq[c] # <<>> /\ inq[c][1].type = "CommCreate"
         /\ inq' = [inq EXCEPT ![c] = Tail(inq[c])]
         /\ comms' = [comms EXCEPT ![c] = @ \cup {inq[c][1].comm}]
         /\ Introduced(Tail(inq[c]), comms[c] \cup {inq[c][1].comm}, made[c])
         /\ up' = TRUE /\ ToServers
         /\ \E ms \in Seq(ForServers) : Send(ms) /\ \A n \in DOMAIN ms : ms[n].type = "CommCreate"
         /\ UNCHANGED <<kind, name, localMap, info, conn, cliVars, srvVars>>
<1> USE DEF Sound
<1> DEFINE m == Head(inq[c])
           k == m.comm
           ms == [n \in DOMAIN FlattenSeq(Members[k]) |-> Create(k, FlattenSeq(Members[k])[n])]
<1>1. /\ kind[c] = "client" /\ inq[c] # <<>> /\ m \in ForRouter /\ m.type = "CommCreate"
      /\ inq' = [inq EXCEPT ![c] = Tail(inq[c])] /\ inq[c] \in Seq(ForRouter) /\ m = inq[c][1]
  <2>1. Receive(c, "client", "CommCreate")
    BY DEF RtrCommCreate
  <2>2. /\ up /\ kind[c] = "client" /\ inq[c] # <<>>
        /\ m \in ForRouter /\ m.type = "CommCreate"
        /\ inq' = [inq EXCEPT ![c] = Tail(inq[c])]
    BY <2>1, ReceiveFacts
  <2>3. inq[c] \in Seq(ForRouter)
    BY DEF RtrTypeOK
  <2> QED BY <2>2, <2>3
<1>2. k \in CommId
  BY <1>1, MessageTypes DEF Opened
<1>3. k \notin comms[c] /\ Introduced(Tail(inq[c]), comms[c] \cup {k}, made[c])
  <2>1. Introduced(inq[c], comms[c], made[c])
    BY <1>1, SteadyParts
  <2> QED BY <1>1, <2>1, IntroducedTail
<1>4. /\ comms' = [comms EXCEPT ![c] = @ \cup {k}] /\ Send(ms)
      /\ UNCHANGED <<kind, name, localMap, info, conn, cliVars, srvVars>>
  BY <1>3 DEF RtrCommCreate
<1>5. ms \in Seq(ForServers) /\ \A x \in Range(ms) : \E o \in MembersOf(k) : x = Create(k, o)
  BY <1>2, CreatesFacts
<1> HIDE DEF ms
<1>6. \A x \in Range(ms) : Home[x.dst] # NoRoute /\ x.type = "CommCreate"
  BY <1>2, <1>5 DEF Create, Calm
<1>7. up' = TRUE /\ ToServers
  <2>1. Settled
    BY SteadyParts
  <2> QED BY <1>4, <1>5, <1>6, <2>1, SendSafe DEF ToServers
<1>8. \A n \in DOMAIN ms : ms[n].type = "CommCreate"
  BY <1>6 DEF Range
<1>9. \E e \in Seq(ForServers) : Send(e) /\ \A n \in DOMAIN e : e[n].type = "CommCreate"
  BY <1>4, <1>5, <1>8
<1> HIDE DEF Sound
<1> QED BY <1>1, <1>3, <1>4, <1>7, <1>9

LEMMA CreateSteady ==
  ASSUME Calm, Sound, NEW c \in Chan, RtrCommCreate(c)
  PROVE  Steady'
<1>1. /\ kind[c] = "client" /\ inq[c] # <<>>
      /\ inq' = [inq EXCEPT ![c] = Tail(inq[c])]
      /\ comms' = [comms EXCEPT ![c] = @ \cup {inq[c][1].comm}]
      /\ Introduced(Tail(inq[c]), comms[c] \cup {inq[c][1].comm}, made[c])
      /\ up' = TRUE /\ ToServers
      /\ UNCHANGED <<kind, info, conn, want, made, starts, srvChan>>
  BY CreateGoes DEF cliVars, srvVars
<1>2. RtrTypeOK /\ Settled
      /\ \A d \in Chan : kind[d] = "client" =>
           Introduced(inq[d], comms[d], made[d]) /\ HeldBy(d, inq[d], outq[d], want[d], info)
  BY SteadyParts DEF Sound
<1>3. /\ \A d \in Chan : kind[d] # "client" => Places(outq'[d], "Answer") = {}
      /\ \A d \in Chan : kind[d] # "server" => outq'[d] = outq[d]
  BY <1>1, <1>2, NoAnswersAdded
<1>4. /\ inq'[c] = Tail(inq[c]) /\ comms'[c] = comms[c] \cup {inq[c][1].comm}
      /\ \A d \in Chan : d # c => inq'[d] = inq[d] /\ comms'[d] = comms[d]
  BY <1>1, <1>2 DEF RtrTypeOK
<1>5. Settled'
  <2>1. \A d \in Chan : kind[d] = "free" => inq'[d] = inq[d] /\ outq'[d] = outq[d] /\ want'[d] = want[d]
    BY <1>1, <1>3, <1>4
  <2>2. \A i \in InfoId : info'[i] # Free => kind[info'[i].src] = "client"
    BY <1>1, <1>2 DEF Settled
  <2> QED BY <1>1, <1>2, <1>3, <2>1, <2>2, SettledNext
<1>6. ASSUME NEW d \in Chan, kind'[d] = "client"
      PROVE  Introduced(inq'[d], comms'[d], made'[d]) /\ HeldBy(d, inq'[d], outq'[d], want'[d], info')
  <2>1. kind[d] = "client" /\ outq'[d] = outq[d] /\ want'[d] = want[d] /\ info' = info /\ made'[d] = made[d]
    BY <1>1, <1>3, <1>6
  <2>2. CASE d = c
    <3>1. inq[c] \in Seq(ForRouter) /\ HeldBy(c, inq[c], outq[c], want[c], info)
      BY <1>2, <2>1, <2>2 DEF RtrTypeOK
    <3>2. HeldBy(c, Tail(inq[c]), outq[c], want[c], info)
      BY <1>1, <3>1, HeldTaken
    <3> QED BY <1>1, <1>4, <2>1, <2>2, <3>2
  <2>3. CASE d # c
    BY <1>2, <1>4, <2>1, <2>3
  <2> QED BY <2>2, <2>3
<1> QED BY <1>5, <1>6, SteadyNext

LEMMA RequestGoes ==
  ASSUME Calm, Sound, NEW c \in Chan, NEW i \in InfoId, RtrCommReq(c, i), NEW m, m = inq[c][1]
  PROVE  /\ kind[c] = "client" /\ inq[c] # <<>> /\ m.type = "CommReq" /\ m \in AskedFor
         /\ Head(inq[c]) = m /\ inq' = [inq EXCEPT ![c] = Tail(inq[c])]
         /\ info[i] = Free /\ info' = [info EXCEPT ![i] = NewInfo(c, m)]
         /\ m.op \in Ops[m.comm] /\ Supported(m.op, m.comm)
         /\ Introduced(Tail(inq[c]), comms[c], made[c])
         /\ up' = TRUE /\ ToServers /\ Send(CopiesOf(m, i))
         /\ UNCHANGED <<kind, comms, name, localMap, conn, cliVars, srvVars>>
<1> USE DEF Sound
<1>1. /\ kind[c] = "client" /\ inq[c] # <<>> /\ Head(inq[c]) \in ForRouter /\ m.type = "CommReq"
      /\ inq' = [inq EXCEPT ![c] = Tail(inq[c])] /\ inq[c] \in Seq(ForRouter) /\ Head(inq[c]) = m
  <2>1. Receive(c, "client", "CommReq")
    BY DEF RtrCommReq
  <2>2. /\ up /\ kind[c] = "client" /\ inq[c] # <<>>
        /\ Head(inq[c]) \in ForRouter /\ Head(inq[c]).type = "CommReq"
        /\ inq' = [inq EXCEPT ![c] = Tail(inq[c])]
    BY <2>1, ReceiveFacts
  <2>3. inq[c] \in Seq(ForRouter)
    BY DEF RtrTypeOK
  <2> QED BY <2>2, <2>3
<1>2. m \in AskedFor
  BY <1>1, MessageTypes
<1>3. m.comm \in comms[c] /\ m.op \in Ops[m.comm] /\ Introduced(Tail(inq[c]), comms[c], made[c])
  <2>1. Introduced(inq[c], comms[c], made[c])
    BY <1>1, SteadyParts
  <2> QED BY <1>1, <2>1, IntroducedTail
<1>4. m.comm \in CommId /\ Supported(m.op, m.comm)
  BY <1>2, <1>3 DEF Calm, AskedFor
<1>5. /\ info[i] = Free /\ info' = [info EXCEPT ![i] = NewInfo(c, m)] /\ Send(CopiesOf(m, i))
      /\ UNCHANGED <<kind, comms, name, localMap, conn, cliVars, srvVars>>
  BY <1>1, <1>3, <1>4 DEF RtrCommReq
<1>6. /\ CopiesOf(m, i) \in Seq(ForServers)
      /\ \A x \in Range(CopiesOf(m, i)) :
           \E g \in Groups(m.comm) : \E o \in Range(Members[m.comm][g]) : x = Copy(m.op, m.comm, i, g, o)
  BY <1>2, CopiesFacts
<1>7. \A x \in Range(CopiesOf(m, i)) : Home[x.dst] # NoRoute
  BY <1>4, <1>6 DEF Copy, Calm, MembersOf
<1>8. up' = TRUE /\ ToServers
  <2>1. Settled
    BY SteadyParts
  <2> QED BY <1>5, <1>6, <1>7, <2>1, SendSafe DEF ToServers
<1> HIDE DEF Sound
<1> QED BY <1>1, <1>2, <1>3, <1>4, <1>5, <1>8

LEMMA RequestSteady ==
  ASSUME Calm, Sound, NEW c \in Chan, NEW i \in InfoId, RtrCommReq(c, i)
  PROVE  Steady'
<1>1. PICK m : m = inq[c][1]
  OBVIOUS
<1>2. /\ kind[c] = "client" /\ inq[c] # <<>> /\ m.type = "CommReq" /\ m \in AskedFor
      /\ inq' = [inq EXCEPT ![c] = Tail(inq[c])]
      /\ info[i] = Free /\ info' = [info EXCEPT ![i] = NewInfo(c, m)]
      /\ m.op \in Ops[m.comm]
      /\ Introduced(Tail(inq[c]), comms[c], made[c])
      /\ up' = TRUE /\ ToServers
      /\ UNCHANGED <<kind, comms, conn, want, made, starts, srvChan>>
  BY <1>1, RequestGoes DEF cliVars, srvVars
<1>3. RtrTypeOK /\ Settled
      /\ \A d \in Chan : kind[d] = "client" =>
           Introduced(inq[d], comms[d], made[d]) /\ HeldBy(d, inq[d], outq[d], want[d], info)
  BY SteadyParts DEF Sound
<1>4. /\ \A d \in Chan : kind[d] # "client" => Places(outq'[d], "Answer") = {}
      /\ \A d \in Chan : kind[d] # "server" => outq'[d] = outq[d]
  BY <1>2, <1>3, NoAnswersAdded
<1>5. /\ inq'[c] = Tail(inq[c]) /\ info'[i] = NewInfo(c, m)
      /\ \A d \in Chan : d # c => inq'[d] = inq[d]
      /\ \A j \in InfoId : j # i => info'[j] = info[j]
  BY <1>2, <1>3 DEF RtrTypeOK
<1>6. /\ info'[i] # Free /\ info'[i].src = c /\ info'[i].id = m.id
      /\ info'[i].comm = m.comm /\ info'[i].op = m.op
  <2>1. NewInfo(c, m) # Free
    BY <1>2, NewInfoTypes, FreeAssumption
  <2> QED BY <1>5, <2>1 DEF NewInfo
<1>7. Settled'
  <2>1. \A d \in Chan : kind[d] = "free" => inq'[d] = inq[d] /\ outq'[d] = outq[d] /\ want'[d] = want[d]
    BY <1>2, <1>4, <1>5
  <2>2. \A j \in InfoId : info'[j] # Free => kind[info'[j].src] = "client"
    BY <1>2, <1>3, <1>5, <1>6 DEF Settled
  <2> QED BY <1>2, <1>3, <1>4, <2>1, <2>2, SettledNext
<1>8. ASSUME NEW d \in Chan, kind'[d] = "client"
      PROVE  Introduced(inq'[d], comms'[d], made'[d]) /\ HeldBy(d, inq'[d], outq'[d], want'[d], info')
  <2>1. kind[d] = "client" /\ outq'[d] = outq[d] /\ want'[d] = want[d] /\ comms'[d] = comms[d] /\ made'[d] = made[d]
    BY <1>2, <1>4, <1>8
  <2>2. CASE d = c
    <3>1. inq[c] \in Seq(ForRouter) /\ HeldBy(c, inq[c], outq[c], want[c], info)
      BY <1>3, <2>1, <2>2 DEF RtrTypeOK
    <3>2. HeldBy(c, Tail(inq[c]), outq[c], want[c], info')
      <4>1. PICK q \in Seq(ForRouter) : q = inq[c]
        BY <3>1
      <4>2. PICK o, w, f, g : o = outq[c] /\ w = want[c] /\ f = info /\ g = info'
        OBVIOUS
      <4>3. /\ q # <<>> /\ q[1].type = "CommReq" /\ HeldBy(c, q, o, w, f) /\ f[i] = Free
            /\ g[i] # Free /\ g[i].src = c /\ g[i].id = q[1].id /\ g[i].comm = q[1].comm
            /\ g[i].op \in Ops[q[1].comm]
        BY <1>1, <1>2, <1>6, <3>1, <4>1, <4>2
      <4>4. \A j \in InfoId : j # i => g[j] = f[j]
        BY <1>5, <4>2
      <4>5. HeldBy(c, Tail(q), o, w, g)
        BY <4>3, <4>4, HeldFan
      <4> QED BY <4>1, <4>2, <4>5
    <3> QED BY <1>2, <1>5, <2>1, <2>2, <3>2
  <2>3. CASE d # c
    <3>1. HeldBy(d, inq[d], outq[d], want[d], info)
      BY <1>3, <2>1
    <3>2. i \notin KeptIn(info, d) /\ i \notin KeptIn(info', d)
      BY <1>2, <1>6, <2>3 DEF KeptIn
    <3>3. HeldBy(d, inq[d], outq[d], want[d], info')
      BY <1>5, <3>1, <3>2, HeldElse
    <3> QED BY <1>3, <1>5, <2>1, <2>3, <3>3
  <2> QED BY <2>2, <2>3
<1> QED BY <1>7, <1>8, SteadyNext

(* What a response does to its CommReqInfo, x as Aggregation sees it.      *)
CollectsAt(i, x, g, q) ==
  /\ Len(q) # x.grpInfo[g] /\ outq' = outq
  /\ \E y \in Info : /\ info' = [info EXCEPT ![i] = y] /\ y.op = info[i].op
                     /\ AsInfo(y) = [x EXCEPT !.respQ = [x.respQ EXCEPT ![g] = q]]
CompletesAt(i, x, g, q) ==
  /\ Len(q) = x.grpInfo[g] /\ x.pending > 1 /\ outq' = outq
  /\ \E y \in Info : /\ info' = [info EXCEPT ![i] = y] /\ y.op = info[i].op
                     /\ AsInfo(y) = [x EXCEPT !.respQ = [x.respQ EXCEPT ![g] = q],
                                              !.value = [x.value EXCEPT ![g] = q],
                                              !.pending = x.pending - 1]
RepliesAt(i, x, g, q) ==
  /\ Len(q) = x.grpInfo[g] /\ x.pending = 1
  /\ info' = [info EXCEPT ![i] = Free]
  /\ outq' = [outq EXCEPT ![x.src] =
                Append(@, [type |-> "Answer", id |-> x.id, value |-> [x.value EXCEPT ![g] = q]])]

ResponseDone(m) ==
  \E i, g, x, q :
    /\ i = m.info /\ g = m.grp /\ x = AsInfo(info[i]) /\ q = Append(x.respQ[g], m.obj)
    /\ CollectsAt(i, x, g, q) \/ CompletesAt(i, x, g, q) \/ RepliesAt(i, x, g, q)

LEMMA RespHead ==
  ASSUME Calm, Sound, NEW c \in Chan, RtrCommResp(c) \/ RtrOneResp(c), NEW m, m = inq[c][1]
  PROVE  /\ kind[c] = "server" /\ inq[c] # <<>> /\ Head(inq[c]) = m /\ m \in Responses /\ m.type = "CommResp"
         /\ inq' = [inq EXCEPT ![c] = Tail(inq[c])]
         /\ m.info \in InfoId /\ m.grp \in Nat /\ m.obj \in Obj
         /\ info[m.info] \in Info /\ info[m.info] # Free /\ info[m.info].op = m.op
         /\ m.op # "avg" /\ kind[info[m.info].src] = "client" /\ conn[info[m.info].src] = "open"
         /\ Ledger(AsInfo(info[m.info])) /\ Due(AsInfo(info[m.info]), m.grp, m.obj)
         /\ UNCHANGED <<kind, comms, name, localMap, pending, conn, cliVars, srvVars>>
<1> USE DEF Sound
<1>1. /\ kind[c] = "server" /\ inq[c] # <<>> /\ Head(inq[c]) \in ForRouter /\ m.type = "CommResp"
      /\ inq' = [inq EXCEPT ![c] = Tail(inq[c])] /\ inq[c] \in Seq(ForRouter) /\ Head(inq[c]) = m
  <2>1. Receive(c, "server", "CommResp")
    BY DEF RtrCommResp, RtrOneResp
  <2>2. /\ up /\ kind[c] = "server" /\ inq[c] # <<>>
        /\ Head(inq[c]) \in ForRouter /\ Head(inq[c]).type = "CommResp"
        /\ inq' = [inq EXCEPT ![c] = Tail(inq[c])]
    BY <2>1, ReceiveFacts
  <2>3. inq[c] \in Seq(ForRouter)
    BY DEF RtrTypeOK
  <2> QED BY <2>2, <2>3
<1>2. m \in Responses
  BY <1>1, MessageTypes
<1>3. m.info \in InfoId /\ m.grp \in Nat /\ m.obj \in Obj
  BY <1>2 DEF Responses
<1>4. PICK u : u = Token(m)
  OBVIOUS
<1>5. u.op = m.op /\ u.info = m.info /\ u.grp = m.grp /\ u.obj = m.obj
  BY <1>1, <1>4 DEF Token
<1>6. \E s \in Server : u \in All(Queue(s), work[s], Back(s))
  <2>1. u = Token(Head(inq[c]))
    BY <1>1, <1>4
  <2> QED BY <2>1, RespTokens
<1>7. DueIn(info[u.info], u)
  <2>1. \A s \in Server : \A t \in All(Queue(s), work[s], Back(s)) : DueIn(info[t.info], t)
    BY TalliedIs
  <2> QED BY <1>6, <2>1
<1>8. info[m.info] # Free /\ info[m.info].op = m.op /\ Due(AsInfo(info[m.info]), m.grp, m.obj)
  BY <1>5, <1>7 DEF DueIn
<1>9. info[m.info] \in Info /\ Ledger(AsInfo(info[m.info]))
  <2>1. \A j \in InfoId : info[j] # Free => Ledger(AsInfo(info[j]))
    BY TalliedIs
  <2> QED BY <1>3, <1>8, <2>1 DEF RtrTypeOK
<1>10. kind[info[m.info].src] = "client" /\ conn[info[m.info].src] = "open"
  <2>1. info[m.info].src \in Chan
    BY <1>9 DEF Info
  <2>2. Settled
    BY SteadyParts
  <2> QED BY <1>3, <1>8, <2>1, <2>2 DEF Settled
<1>11. m.op # "avg"
  <2>1. PICK d \in Chan : d = info[m.info].src
    BY <1>9 DEF Info
  <2>2. HeldBy(d, inq[d], outq[d], want[d], info)
    BY <1>10, <2>1, SteadyParts
  <2>3. m.info \in KeptIn(info, d)
    BY <1>3, <1>8, <2>1 DEF KeptIn
  <2>4. info[m.info].op \in Ops[info[m.info].comm] /\ info[m.info].comm \in CommId
    BY <1>9, <2>2, <2>3 DEF HeldBy, KeptRight, Info
  <2> QED BY <1>8, <2>4 DEF Calm
<1>12. UNCHANGED <<kind, comms, name, localMap, pending, conn, cliVars, srvVars>>
  BY DEF RtrCommResp, RtrOneResp
<1> QED BY <1>1, <1>2, <1>3, <1>8, <1>9, <1>10, <1>11, <1>12

LEMMA OneLong == DOMAIN <<<<>>>> = {1}
<1>1. DOMAIN <<<<>>>> = 1..1
  OBVIOUS
<1> QED BY <1>1

LEMMA RespWrites ==
  ASSUME NEW m, Complete(m)
  PROVE  info' = [info EXCEPT ![m.info] = [info[m.info] EXCEPT
                    !.respQ = [info[m.info].respQ EXCEPT ![m.grp] = Queued(m)],
                    !.value = [info[m.info].value EXCEPT ![m.grp] = Queued(m)],
                    !.pending = info[m.info].pending - 1]]
<1>0. PICK i, g, w, q : i = m.info /\ g = m.grp /\ w = info[i] /\ q = Queued(m)
  OBVIOUS
<1>1. PICK r, v : r = [w.respQ EXCEPT ![g] = q] /\ v = [w.value EXCEPT ![g] = q]
  OBVIOUS
<1>2. PICK y : y = [w EXCEPT !.respQ = r, !.value = v, !.pending = w.pending - 1]
  OBVIOUS
<1>3. info' = [info EXCEPT ![i] = y]
  BY <1>0, <1>1, <1>2 DEF Complete
<1> QED BY <1>0, <1>1, <1>2, <1>3

LEMMA RespGoes ==
  ASSUME Calm, Sound, NEW c \in Chan, RtrCommResp(c) \/ RtrOneResp(c), NEW m, m = inq[c][1]
  PROVE  up' = TRUE /\ ResponseDone(m)
<1>a. PICK i, g : i = m.info /\ g = m.grp
  OBVIOUS
<1>b. PICK x : x = AsInfo(info[i])
  OBVIOUS
<1>c. PICK q : q = Append(x.respQ[g], m.obj)
  OBVIOUS
<1>1. /\ Head(inq[c]) = m /\ m \in Responses /\ i \in InfoId /\ g \in Nat /\ m.obj \in Obj
      /\ info[i] \in Info /\ info[i] # Free /\ info[i].op = m.op
      /\ m.op # "avg" /\ kind[info[i].src] = "client" /\ conn[info[i].src] = "open"
      /\ Ledger(x) /\ Due(x, g, m.obj)
  <2>1. /\ Head(inq[c]) = m /\ m \in Responses
        /\ m.info \in InfoId /\ m.grp \in Nat /\ m.obj \in Obj
        /\ info[m.info] \in Info /\ info[m.info] # Free /\ info[m.info].op = m.op
        /\ m.op # "avg" /\ kind[info[m.info].src] = "client" /\ conn[info[m.info].src] = "open"
        /\ Ledger(AsInfo(info[m.info])) /\ Due(AsInfo(info[m.info]), m.grp, m.obj)
    BY RespHead
  <2> QED BY <1>a, <1>b, <2>1
<1>2. PICK w \in Info : w = info[i]
  BY <1>1
<1>3. up = TRUE
  BY SteadyParts DEF Settled, Sound
<1>4. ASSUME NEW v, Answer(w, v)
      PROVE  up' = TRUE /\ outq' = [outq EXCEPT ![w.src] = Append(@, [type |-> "Answer", id |-> w.id, value |-> v])]
  <2>1. w.src \in Chan /\ NoRoute \notin Chan
    BY RouteAssumption DEF Info
  <2>2. Fate({w.src}) = {TRUE}
    BY <1>1, <1>2, <2>1 DEF Fate
  <2> QED BY <1>1, <1>2, <1>4, <2>2 DEF Answer
<1>5. x.src = w.src /\ x.id = w.id /\ x.comm = w.comm /\ x.pending = w.pending
  BY <1>1, <1>2, <1>b DEF AsInfo
<1>6. ASSUME RtrOneResp(c)
      PROVE  up' = TRUE /\ (CollectsAt(i, x, g, q) \/ CompletesAt(i, x, g, q) \/ RepliesAt(i, x, g, q))
  <2>1. m.op \in OneObj /\ Answer(w, <<<<m.obj>>>>) /\ info' = [info EXCEPT ![i] = Free]
    BY <1>1, <1>2, <1>6, <1>a DEF RtrOneResp
  <2>2. x.grpInfo = <<1>> /\ x.respQ = <<<<>>>> /\ x.value = <<<<>>>>
    BY <1>1, <1>2, <2>1, <1>b DEF AsInfo
  <2>3. Groups(x.comm) = {1} /\ g = 1
    <3>1. DOMAIN x.respQ = Groups(x.comm) /\ g \in Groups(x.comm)
      BY <1>1 DEF Ledger, Due
    <3>2. DOMAIN x.respQ = {1}
      <4>1. DOMAIN <<<<>>>> = {1}
        BY OneLong
      <4> QED BY <2>2, <4>1
    <3> QED BY <3>1, <3>2
  <2>4. q = <<m.obj>> /\ Len(q) = x.grpInfo[g]
    BY <2>2, <2>3, <1>c
  <2>5. x.pending = 1
    <3>1. Open(x) # {} /\ x.pending = Cardinality(Open(x))
      BY <1>1 DEF Ledger
    <3>2. Open(x) \subseteq {1}
      BY <2>3 DEF Open
    <3>3. Open(x) = {1}
      BY <3>1, <3>2
    <3> QED BY <3>1, <3>3, FS_Singleton
  <2>6. [x.value EXCEPT ![g] = q] = <<<<m.obj>>>>
    BY <2>2, <2>3, <2>4
  <2>7. RepliesAt(i, x, g, q) /\ up' = TRUE
    <3>1. up' = TRUE /\ outq' = [outq EXCEPT ![w.src] =
                                   Append(@, [type |-> "Answer", id |-> w.id, value |-> <<<<m.obj>>>>])]
      BY <1>4, <2>1
    <3>2. outq' = [outq EXCEPT ![x.src] =
                    Append(@, [type |-> "Answer", id |-> x.id, value |-> [x.value EXCEPT ![g] = q]])]
      BY <1>5, <2>6, <3>1
    <3> QED BY <2>1, <2>4, <2>5, <3>1, <3>2 DEF RepliesAt
  <2> QED BY <2>7
<1>7. ASSUME RtrCommResp(c)
      PROVE  up' = TRUE /\ (CollectsAt(i, x, g, q) \/ CompletesAt(i, x, g, q) \/ RepliesAt(i, x, g, q))
  <2>1. m.op \notin OneObj /\ (Collect(m) \/ Complete(m) \/ Reply(m))
    BY <1>1, <1>7, <1>a DEF RtrCommResp, Summable
  <2>2. x.grpInfo = w.grpInfo /\ x.respQ = w.respQ /\ x.value = w.value
    BY <1>1, <1>2, <2>1, <1>b DEF AsInfo
  <2>3. Queued(m) = q /\ (GroupReady(m) <=> Len(q) = x.grpInfo[g])
    BY <1>2, <2>2, <1>a, <1>c DEF Queued, GroupReady
  <2>4. PICK r, v : r = [w.respQ EXCEPT ![g] = q] /\ v = [w.value EXCEPT ![g] = q]
    OBVIOUS
  <2>5. r \in Seq(Seq(Obj)) /\ v \in Seq(Seq(Obj))
    <3>1. DOMAIN w.respQ = DOMAIN w.value
      BY <1>1, <2>2 DEF Ledger
    <3> QED BY <1>1, <2>2, <2>4, <3>1, <1>c, QueuedTypes
  <2>6. \A y \in Info : y.op \notin OneObj =>
          AsInfo(y) = [src |-> y.src, id |-> y.id, comm |-> y.comm, pending |-> y.pending,
                       grpInfo |-> y.grpInfo, respQ |-> y.respQ, value |-> y.value]
    BY FreeAssumption DEF AsInfo
  <2>7. x = [src |-> w.src, id |-> w.id, comm |-> w.comm, pending |-> w.pending,
             grpInfo |-> w.grpInfo, respQ |-> w.respQ, value |-> w.value]
    BY <1>1, <1>2, <2>1, <2>6, <1>b
  <2>8. CASE Collect(m)
    <3>1. PICK y : y = [w EXCEPT !.respQ = r]
      OBVIOUS
    <3>2. info' = [info EXCEPT ![i] = y] /\ up' = up /\ outq' = outq
      BY <1>2, <2>3, <2>4, <2>8, <3>1, <1>a DEF Collect
    <3>3. y \in Info /\ y.op = w.op
      BY <2>5, <3>1 DEF Info
    <3>4. AsInfo(y) = [x EXCEPT !.respQ = r]
      <4>1. AsInfo(y) = [src |-> y.src, id |-> y.id, comm |-> y.comm, pending |-> y.pending,
                         grpInfo |-> y.grpInfo, respQ |-> y.respQ, value |-> y.value]
        BY <1>1, <1>2, <2>1, <2>6, <3>3
      <4>2. /\ y.src = w.src /\ y.id = w.id /\ y.comm = w.comm /\ y.pending = w.pending
            /\ y.grpInfo = w.grpInfo /\ y.respQ = r /\ y.value = w.value
        BY <3>1 DEF Info
      <4>3. [x EXCEPT !.respQ = r] =
              [src |-> w.src, id |-> w.id, comm |-> w.comm, pending |-> w.pending,
               grpInfo |-> w.grpInfo, respQ |-> r, value |-> w.value]
        BY <2>7
      <4> QED BY <4>1, <4>2, <4>3
    <3>5. Len(q) # x.grpInfo[g] /\ r = [x.respQ EXCEPT ![g] = q]
      BY <2>2, <2>3, <2>4, <2>8 DEF Collect
    <3>6. CollectsAt(i, x, g, q)
      BY <1>2, <3>2, <3>3, <3>4, <3>5 DEF CollectsAt
    <3> QED BY <1>3, <3>2, <3>6
  <2>9. CASE Complete(m)
    <3>0. PICK n : n = w.pending - 1
      OBVIOUS
    <3>1. PICK y : y = [w EXCEPT !.respQ = r, !.value = v, !.pending = n]
      OBVIOUS
    <3>2. up' = up /\ outq' = outq /\ w.pending > 1
      BY <1>2, <2>9, <1>a DEF Complete
    <3>3. info' = [info EXCEPT ![i] = y]
      <4>1. y = [w EXCEPT !.respQ = [w.respQ EXCEPT ![g] = q], !.value = [w.value EXCEPT ![g] = q],
                          !.pending = w.pending - 1]
        BY <2>4, <3>0, <3>1
      <4>2. info' = [info EXCEPT ![i] = [w EXCEPT !.respQ = [w.respQ EXCEPT ![g] = q],
                                                  !.value = [w.value EXCEPT ![g] = q],
                                                  !.pending = w.pending - 1]]
        <5>1. info' = [info EXCEPT ![m.info] = [info[m.info] EXCEPT
                         !.respQ = [info[m.info].respQ EXCEPT ![m.grp] = Queued(m)],
                         !.value = [info[m.info].value EXCEPT ![m.grp] = Queued(m)],
                         !.pending = info[m.info].pending - 1]]
          BY <2>9, RespWrites, Zenon
        <5>2. m.info = i /\ m.grp = g /\ info[m.info] = w /\ Queued(m) = q
          BY <1>2, <2>3, <1>a
        <5> QED BY <5>1, <5>2
      <4> QED BY <4>1, <4>2
    <3>4. y \in Info /\ y.op = w.op
      <4>1. n \in Nat
        <5>1. w.pending \in Nat
          BY <1>2 DEF Info
        <5> QED BY <3>0, <3>2, <5>1
      <4> QED BY <2>5, <3>1, <4>1 DEF Info
    <3>5. AsInfo(y) = [x EXCEPT !.respQ = r, !.value = v, !.pending = n]
      <4>1. AsInfo(y) = [src |-> y.src, id |-> y.id, comm |-> y.comm, pending |-> y.pending,
                         grpInfo |-> y.grpInfo, respQ |-> y.respQ, value |-> y.value]
        BY <1>1, <1>2, <2>1, <2>6, <3>4
      <4>2. /\ y.src = w.src /\ y.id = w.id /\ y.comm = w.comm /\ y.pending = n
            /\ y.grpInfo = w.grpInfo /\ y.respQ = r /\ y.value = v
        BY <3>1 DEF Info
      <4>3. [x EXCEPT !.respQ = r, !.value = v, !.pending = n] =
              [src |-> w.src, id |-> w.id, comm |-> w.comm, pending |-> n,
               grpInfo |-> w.grpInfo, respQ |-> r, value |-> v]
        <5>1. PICK d : d = [x EXCEPT !.respQ = r]
          OBVIOUS
        <5>2. PICK e : e = [d EXCEPT !.value = v]
          OBVIOUS
        <5>3. d = [src |-> w.src, id |-> w.id, comm |-> w.comm, pending |-> w.pending,
                    grpInfo |-> w.grpInfo, respQ |-> r, value |-> w.value]
          BY <2>7, <5>1
        <5>4. e = [src |-> w.src, id |-> w.id, comm |-> w.comm, pending |-> w.pending,
                    grpInfo |-> w.grpInfo, respQ |-> r, value |-> v]
          BY <5>2, <5>3
        <5>5. [e EXCEPT !.pending = n] =
                [src |-> w.src, id |-> w.id, comm |-> w.comm, pending |-> n,
                    grpInfo |-> w.grpInfo, respQ |-> r, value |-> v]
          BY <5>4
        <5>6. [x EXCEPT !.respQ = r, !.value = v, !.pending = n] = [e EXCEPT !.pending = n]
          BY <5>1, <5>2
        <5> QED BY <5>5, <5>6
      <4> QED BY <4>1, <4>2, <4>3
    <3>6. /\ Len(q) = x.grpInfo[g] /\ r = [x.respQ EXCEPT ![g] = q] /\ v = [x.value EXCEPT ![g] = q]
          /\ x.pending = w.pending
      BY <1>5, <2>2, <2>3, <2>4, <2>9 DEF Complete
    <3>7. AsInfo(y) = [x EXCEPT !.respQ = [x.respQ EXCEPT ![g] = q], !.value = [x.value EXCEPT ![g] = q],
                                !.pending = x.pending - 1]
      BY <3>0, <3>5, <3>6
    <3>8. CompletesAt(i, x, g, q)
      BY <1>2, <3>2, <3>3, <3>4, <3>6, <3>7, Zenon DEF CompletesAt
    <3> QED BY <1>3, <3>2, <3>8
  <2>10. CASE Reply(m)
    <3>1. Answer(w, v) /\ info' = [info EXCEPT ![i] = Free] /\ w.pending = 1 /\ Len(q) = x.grpInfo[g]
      BY <1>2, <2>3, <2>4, <2>10, <1>a DEF Reply
    <3>2. v = [x.value EXCEPT ![g] = q]
      BY <2>2, <2>4
    <3>3. RepliesAt(i, x, g, q) /\ up' = TRUE
      BY <1>4, <1>5, <3>1, <3>2 DEF RepliesAt
    <3> QED BY <3>3
  <2> QED BY <2>1, <2>8, <2>9, <2>10
<1>8. up' = TRUE /\ (CollectsAt(i, x, g, q) \/ CompletesAt(i, x, g, q) \/ RepliesAt(i, x, g, q))
  BY <1>6, <1>7
<1> QED BY <1>8, <1>a, <1>b, <1>c DEF ResponseDone

(* The last response makes an answer whole.                                *)
LEMMA WholeAtLast ==
  ASSUME NEW x, Ledger(x), NEW g, NEW o, Due(x, g, o), NEW q, q = Append(x.respQ[g], o),
         Len(q) = x.grpInfo[g], x.pending = 1
  PROVE  Whole([x.value EXCEPT ![g] = q], x.comm) /\ x.comm \in CommId
<1>1. IsInjective(q) /\ Range(q) = Mem(x.comm, g) /\ g \in Open(x)
  BY DueFacts
<1>2. Open(x) = {g}
  BY <1>1, OneGroupLess
<1>3. x.comm \in CommId /\ DOMAIN x.value = Groups(x.comm)
  BY DEF Ledger
<1>4. ASSUME NEW h \in Groups(x.comm), h # g
      PROVE  Range(x.value[h]) = Mem(x.comm, h) /\ IsInjective(x.value[h])
  <2>1. h \notin Open(x)
    BY <1>2, <1>4
  <2>2. Range(x.respQ[h]) = Mem(x.comm, h)
    BY <1>4, <2>1 DEF Open
  <2> QED BY <1>4, <2>2 DEF Ledger
<1>5. PICK v : v = [x.value EXCEPT ![g] = q]
  OBVIOUS
<1>6. /\ DOMAIN v = Groups(x.comm)
      /\ \A h \in Groups(x.comm) : v[h] = IF h = g THEN q ELSE x.value[h]
  BY <1>3, <1>5
<1>7. \A h \in Groups(x.comm) : Range(v[h]) = Mem(x.comm, h) /\ IsInjective(v[h])
  BY <1>1, <1>4, <1>6
<1>8. Whole(v, x.comm)
  BY <1>3, <1>6, <1>7 DEF Whole, Mem
<1> QED BY <1>3, <1>5, <1>8

LEMMA RespSteady ==
  ASSUME Calm, Sound, NEW c \in Chan, RtrCommResp(c) \/ RtrOneResp(c)
  PROVE  Steady'
<1>1. PICK m : m = inq[c][1]
  OBVIOUS
<1>2. up' = TRUE /\ ResponseDone(m)
  BY <1>1, RespGoes
<1>3. PICK i, g, x, q :
        /\ i = m.info /\ g = m.grp /\ x = AsInfo(info[i]) /\ q = Append(x.respQ[g], m.obj)
        /\ CollectsAt(i, x, g, q) \/ CompletesAt(i, x, g, q) \/ RepliesAt(i, x, g, q)
  BY <1>2 DEF ResponseDone
<1>4. /\ kind[c] = "server" /\ inq' = [inq EXCEPT ![c] = Tail(inq[c])]
      /\ i \in InfoId /\ info[i] \in Info /\ info[i] # Free
      /\ kind[info[i].src] = "client"
      /\ Ledger(x) /\ Due(x, g, m.obj)
      /\ UNCHANGED <<kind, conn, comms, want, made, starts, srvChan>>
  <2>1. /\ kind[c] = "server" /\ inq' = [inq EXCEPT ![c] = Tail(inq[c])]
        /\ m.info \in InfoId /\ info[m.info] \in Info /\ info[m.info] # Free
        /\ kind[info[m.info].src] = "client"
        /\ Ledger(AsInfo(info[m.info])) /\ Due(AsInfo(info[m.info]), m.grp, m.obj)
        /\ UNCHANGED <<kind, conn, comms, cliVars, srvVars>>
    BY <1>1, RespHead
  <2> QED BY <1>3, <2>1 DEF cliVars, srvVars
<1>5. RtrTypeOK /\ Settled
      /\ \A d \in Chan : kind[d] = "client" =>
           Introduced(inq[d], comms[d], made[d]) /\ HeldBy(d, inq[d], outq[d], want[d], info)
  BY SteadyParts DEF Sound
<1>6. \A d \in Chan : d # c => inq'[d] = inq[d]
  BY <1>4, <1>5 DEF RtrTypeOK
<1>7. PICK w \in Info : w = info[i]
  BY <1>4
<1>8. x.src = w.src /\ x.id = w.id /\ x.comm = w.comm /\ w.src \in Chan /\ w.comm \in CommId /\ w.id \in ReqId
  BY <1>3, <1>4, <1>7 DEF AsInfo, Info
<1>9. ASSUME NEW y \in Info, info' = [info EXCEPT ![i] = y], outq' = outq, y.op = w.op,
             AsInfo(y).src = x.src, AsInfo(y).id = x.id, AsInfo(y).comm = x.comm
      PROVE  Steady'
  <2>1. y # Free
    BY FreeAssumption
  <2>2. y.src = w.src /\ y.id = w.id /\ y.comm = w.comm
    BY <1>8, <1>9, <2>1 DEF AsInfo
  <2>3. info'[i] = y /\ \A j \in InfoId : j # i => info'[j] = info[j]
    <3>1. info \in [InfoId -> Info \cup {Free}]
      BY <1>5 DEF RtrTypeOK
    <3>2. info' = [info EXCEPT ![i] = y] /\ i \in InfoId
      BY <1>4, <1>9
    <3> QED BY <3>1, <3>2
  <2>4. Settled'
    <3>1. \A j \in InfoId : info'[j] # Free => kind[info'[j].src] = "client"
      BY <1>4, <1>5, <1>7, <2>2, <2>3 DEF Settled
    <3>2. \A d \in Chan : kind[d] = "free" => inq'[d] = inq[d] /\ outq'[d] = outq[d] /\ want'[d] = want[d]
      BY <1>4, <1>6, <1>9
    <3>3. \A d \in Chan : kind[d] # "client" => Places(outq'[d], "Answer") = {}
      BY <1>5, <1>9 DEF Settled
    <3> QED BY <1>2, <1>4, <1>5, <3>1, <3>2, <3>3, SettledNext
  <2>5. ASSUME NEW d \in Chan, kind'[d] = "client"
        PROVE  Introduced(inq'[d], comms'[d], made'[d]) /\ HeldBy(d, inq'[d], outq'[d], want'[d], info')
    <3>1. /\ kind[d] = "client" /\ inq'[d] = inq[d] /\ outq'[d] = outq[d]
          /\ want'[d] = want[d] /\ comms'[d] = comms[d] /\ made'[d] = made[d]
      BY <1>4, <1>6, <1>9, <2>5
    <3>2. PICK f, h, r, o, e : f = info /\ h = info' /\ r = inq[d] /\ o = outq[d] /\ e = want[d]
      OBVIOUS
    <3>3. HeldBy(d, r, o, e, f)
      BY <1>5, <3>1, <3>2
    <3>4. \A j \in KeptIn(h, d) : /\ j \in KeptIn(f, d) /\ h[j].id = f[j].id
                                  /\ h[j].comm = f[j].comm /\ h[j].op = f[j].op
      BY <1>4, <1>7, <1>9, <2>2, <2>3, <3>2 DEF KeptIn
    <3>5. \A j \in KeptIn(f, d) : j \in KeptIn(h, d)
      BY <1>7, <2>1, <2>2, <2>3, <3>2 DEF KeptIn
    <3>6. HeldBy(d, r, o, e, h)
      BY <3>3, <3>4, <3>5, HeldAlike
    <3> QED BY <1>5, <3>1, <3>2, <3>6
  <2> QED BY <2>4, <2>5, SteadyNext
<1>10. CASE CollectsAt(i, x, g, q)
  <2>1. PICK y \in Info : /\ info' = [info EXCEPT ![i] = y] /\ y.op = info[i].op
                          /\ AsInfo(y) = [x EXCEPT !.respQ = [x.respQ EXCEPT ![g] = q]]
    BY <1>10 DEF CollectsAt
  <2>2. outq' = outq
    BY <1>10 DEF CollectsAt
  <2>3. AsInfo(y).src = x.src /\ AsInfo(y).id = x.id /\ AsInfo(y).comm = x.comm
    BY <2>1
  <2> QED BY <1>7, <1>9, <2>1, <2>2, <2>3
<1>11. CASE CompletesAt(i, x, g, q)
  <2>1. PICK y \in Info : /\ info' = [info EXCEPT ![i] = y] /\ y.op = info[i].op
                          /\ AsInfo(y) = [x EXCEPT !.respQ = [x.respQ EXCEPT ![g] = q],
                                                   !.value = [x.value EXCEPT ![g] = q],
                                                   !.pending = x.pending - 1]
    BY <1>11 DEF CompletesAt
  <2>2. outq' = outq
    BY <1>11 DEF CompletesAt
  <2>3. AsInfo(y).src = x.src /\ AsInfo(y).id = x.id /\ AsInfo(y).comm = x.comm
    BY <2>1
  <2> QED BY <1>7, <1>9, <2>1, <2>2, <2>3
<1>12. CASE RepliesAt(i, x, g, q)
  <2>1. PICK v : v = [x.value EXCEPT ![g] = q]
    OBVIOUS
  <2>2. Whole(v, w.comm)
    <3>1. Len(q) = x.grpInfo[g] /\ x.pending = 1
      BY <1>12 DEF RepliesAt
    <3> QED BY <1>3, <1>4, <1>8, <2>1, <3>1, WholeAtLast
  <2>3. PICK a : a = [type |-> "Answer", id |-> w.id, value |-> v]
    OBVIOUS
  <2>4. a.type = "Answer" /\ a.id = w.id /\ a.value = v
    BY <2>3
  <2>5. info' = [info EXCEPT ![i] = Free] /\ outq' = [outq EXCEPT ![w.src] = Append(outq[w.src], a)]
    BY <1>8, <1>12, <2>1, <2>3 DEF RepliesAt
  <2>6. /\ info'[i] = Free /\ \A j \in InfoId : j # i => info'[j] = info[j]
        /\ outq'[w.src] = Append(outq[w.src], a) /\ \A d \in Chan : d # w.src => outq'[d] = outq[d]
    BY <1>4, <1>5, <1>8, <2>5 DEF RtrTypeOK
  <2>7. Settled'
    <3>1. \A j \in InfoId : info'[j] # Free => kind[info'[j].src] = "client"
      BY <1>5, <2>6 DEF Settled
    <3>2. \A d \in Chan : kind[d] = "free" => inq'[d] = inq[d] /\ outq'[d] = outq[d] /\ want'[d] = want[d]
      BY <1>4, <1>6, <1>7, <2>6
    <3>3. \A d \in Chan : kind[d] # "client" => Places(outq'[d], "Answer") = {}
      BY <1>4, <1>5, <1>7, <2>6 DEF Settled
    <3> QED BY <1>2, <1>4, <1>5, <3>1, <3>2, <3>3, SettledNext
  <2>8. ASSUME NEW d \in Chan, kind'[d] = "client"
        PROVE  Introduced(inq'[d], comms'[d], made'[d]) /\ HeldBy(d, inq'[d], outq'[d], want'[d], info')
    <3>1. /\ kind[d] = "client" /\ inq'[d] = inq[d]
          /\ want'[d] = want[d] /\ comms'[d] = comms[d] /\ made'[d] = made[d]
      BY <1>4, <1>6, <2>8
    <3>2. PICK f, h, r, e : f = info /\ h = info' /\ r = inq[d] /\ e = want[d]
      OBVIOUS
    <3>3. PICK o \in Seq(ForServers \cup Answers) : o = outq[d]
      BY <1>5 DEF RtrTypeOK
    <3>4. HeldBy(d, r, o, e, f)
      BY <1>5, <3>1, <3>2, <3>3
    <3>5. h[i] = Free /\ (\A j \in InfoId : j # i => h[j] = f[j]) /\ f[i] = w /\ w # Free
      BY <1>4, <1>7, <2>6, <3>2
    <3>6. CASE d = w.src
      <4>1. i \in KeptIn(f, d)
        BY <1>4, <3>5, <3>6 DEF KeptIn
      <4>2. o \in Seq(ForServers \cup Answers \cup {a}) /\ a \in ForServers \cup Answers \cup {a}
        BY <3>3
      <4>3. a.id = f[i].id /\ Whole(a.value, f[i].comm)
        BY <2>2, <2>4, <3>5
      <4>4. HeldBy(d, r, Append(o, a), e, h)
        BY <2>4, <3>4, <3>5, <4>1, <4>2, <4>3, HeldReply
      <4> QED BY <1>5, <2>6, <3>1, <3>2, <3>3, <3>6, <4>4
    <3>7. CASE d # w.src
      <4>1. i \in InfoId /\ i \notin KeptIn(f, d) /\ i \notin KeptIn(h, d)
        BY <1>4, <3>5, <3>7 DEF KeptIn
      <4>2. HeldBy(d, r, o, e, h)
        BY <3>4, <3>5, <4>1, HeldElse
      <4> QED BY <1>5, <2>6, <3>1, <3>2, <3>3, <3>7, <4>2
    <3> QED BY <3>6, <3>7
  <2> QED BY <2>7, <2>8, SteadyNext
<1> QED BY <1>3, <1>10, <1>11, <1>12

(* Steps that only servers' connections see.                               *)
LEMMA SteadySame ==
  ASSUME RtrTypeOK, Steady, up' = TRUE,
         UNCHANGED <<kind, conn, starts, srvChan, comms, made, want, info>>,
         \A c \in Chan : kind[c] # "server" => inq'[c] = inq[c] /\ outq'[c] = outq[c],
         \A c \in Chan : kind[c] = "server" => Places(outq'[c], "Answer") = {}
  PROVE  Steady'
<1>1. Settled
      /\ \A d \in Chan : kind[d] = "client" =>
           Introduced(inq[d], comms[d], made[d]) /\ HeldBy(d, inq[d], outq[d], want[d], info)
  BY SteadyParts
<1>2. Settled'
  <2>1. \A d \in Chan : kind[d] = "free" => inq'[d] = inq[d] /\ outq'[d] = outq[d] /\ want'[d] = want[d]
    OBVIOUS
  <2>2. \A d \in Chan : kind[d] # "client" => Places(outq'[d], "Answer") = {}
    BY <1>1 DEF Settled
  <2>3. \A i \in InfoId : info'[i] # Free => kind[info'[i].src] = "client"
    BY <1>1 DEF Settled
  <2> QED BY <1>1, <2>1, <2>2, <2>3, SettledNext
<1>3. ASSUME NEW d \in Chan, kind'[d] = "client"
      PROVE  Introduced(inq'[d], comms'[d], made'[d]) /\ HeldBy(d, inq'[d], outq'[d], want'[d], info')
  <2>1. kind[d] = "client" /\ inq'[d] = inq[d] /\ outq'[d] = outq[d] /\ want'[d] = want[d]
        /\ comms'[d] = comms[d] /\ made'[d] = made[d] /\ info' = info
    BY <1>3
  <2> QED BY <1>1, <2>1
<1> QED BY <1>2, <1>3, SteadyNext

LEMMA ConnectSteady ==
  ASSUME Calm, Sound, NEW c \in Chan, RtrServerConnect(c)
  PROVE  Steady' /\ up' = TRUE
<1>1. RtrTypeOK /\ Steady /\ Settled
  BY SteadyParts DEF Sound
<1>2. PICK s : s = Head(inq[c]).srv
  OBVIOUS
<1>3. /\ kind[c] = "server" /\ inq' = [inq EXCEPT ![c] = Tail(inq[c])] /\ s \in Server
  <2>1. Receive(c, "server", "ServerConnect")
    BY DEF RtrServerConnect
  <2>2. /\ kind[c] = "server" /\ Head(inq[c]) \in ForRouter /\ Head(inq[c]).type = "ServerConnect"
        /\ inq' = [inq EXCEPT ![c] = Tail(inq[c])]
    BY <1>1, <2>1, ReceiveFacts
  <2>3. s \in Server
    BY <1>2, <2>2, MessageTypes DEF Connects
  <2> QED BY <2>2, <2>3
<1>4. conn[c] = "open" /\ up = TRUE
  BY <1>1, <1>3 DEF Settled
<1>5. /\ UNCHANGED <<kind, conn, starts, srvChan, comms, made, want, info>>
      /\ IF pending[s] = <<>> THEN UNCHANGED <<up, outq>>
         ELSE up' \in Fate({c}) /\ outq' = [outq EXCEPT ![c] = outq[c] \o pending[s]]
  BY <1>2, <1>4 DEF RtrServerConnect, cliVars, srvVars
<1>6. up' = TRUE
  <2>1. Fate({c}) = {TRUE}
    BY <1>3, <1>4, RouteAssumption DEF Fate
  <2> QED BY <1>4, <1>5, <2>1
<1>7. ToServers
  <2>1. pending[s] \in Seq(ForServers) /\ outq \in [Chan -> Seq(ForServers \cup Answers)]
    BY <1>1, <1>3 DEF RtrTypeOK
  <2>2. CASE pending[s] = <<>>
    BY <1>5, <2>2 DEF ToServers
  <2>3. CASE pending[s] # <<>>
    <3>1. outq'[c] = outq[c] \o pending[s] /\ \A d \in Chan : d # c => outq'[d] = outq[d]
      BY <1>5, <2>1, <2>3
    <3> QED BY <1>3, <2>1, <3>1 DEF ToServers
  <2> QED BY <2>2, <2>3
<1>8. /\ \A d \in Chan : kind[d] # "client" => Places(outq'[d], "Answer") = {}
      /\ \A d \in Chan : kind[d] # "server" => outq'[d] = outq[d]
  BY <1>1, <1>7, NoAnswersAdded
<1>9. \A d \in Chan : kind[d] # "server" => inq'[d] = inq[d]
  BY <1>1, <1>3 DEF RtrTypeOK
<1>10. \A d \in Chan : kind[d] = "server" => Places(outq'[d], "Answer") = {}
  BY <1>8
<1> QED BY <1>1, <1>5, <1>6, <1>8, <1>9, <1>10, SteadySame

LEMMA ServerSteady ==
  ASSUME Calm, Sound, NEW s \in Server,
         SrvCommCreate(s) \/ SrvCommDestroy(s) \/ SrvCommReq(s) \/ \E w \in work[s] : SrvReply(s, w)
  PROVE  Steady' /\ up' = TRUE
<1>1. RtrTypeOK /\ Steady /\ Settled
  BY SteadyParts DEF Sound
<1>2. UNCHANGED <<up, kind, conn, starts, srvChan, comms, made, want, info>>
  BY DEF SrvCommCreate, SrvCommDestroy, SrvCommReq, SrvReply, rtrVars, cliVars
<1>3. up' = TRUE
  BY <1>1, <1>2 DEF Settled
<1>4. srvChan[s] \in Chan => kind[srvChan[s]] = "server"
  BY RouteAssumption DEF Sound, Plugged
<1>5. /\ \A d \in Chan : kind[d] # "server" => inq'[d] = inq[d] /\ outq'[d] = outq[d]
      /\ \A d \in Chan : kind[d] = "server" => Places(outq'[d], "Answer") = {}
  <2>1. /\ inq \in [Chan -> Seq(ForRouter)] /\ outq \in [Chan -> Seq(ForServers \cup Answers)]
        /\ \A d \in Chan : kind[d] = "server" => Places(outq[d], "Answer") = {}
    BY <1>1 DEF RtrTypeOK, Settled
  <2>2. ASSUME NEW type, SrvTakes(s, type), inq' = inq
        PROVE  /\ \A d \in Chan : kind[d] # "server" => inq'[d] = inq[d] /\ outq'[d] = outq[d]
               /\ \A d \in Chan : kind[d] = "server" => Places(outq'[d], "Answer") = {}
    <3>1. PICK c \in Chan : c = srvChan[s]
      BY <1>1, <2>2, TakesFacts
    <3>2. outq[c] # <<>> /\ outq' = [outq EXCEPT ![c] = Tail(outq[c])]
      BY <1>1, <2>2, <3>1, TakesFacts
    <3>3. Places(Tail(outq[c]), "Answer") = {}
      <4>1. Places(outq[c], "Answer") = {} /\ outq[c] \in Seq(ForServers \cup Answers)
        BY <1>4, <2>1, <3>1
      <4>2. \A n \in Places(Tail(outq[c]), "Answer") : n + 1 \in Places(outq[c], "Answer")
        BY <3>2, <4>1, PlaceTail
      <4> QED BY <4>1, <4>2
    <3>4. outq'[c] = Tail(outq[c]) /\ \A d \in Chan : d # c => outq'[d] = outq[d]
      BY <2>1, <3>2
    <3> QED BY <1>4, <2>1, <2>2, <3>1, <3>3, <3>4
  <2>3. CASE \E w \in work[s] : SrvReply(s, w)
    <3>1. PICK w \in work[s] : inq' = [inq EXCEPT ![srvChan[s]] = Append(@, Response(w))] /\ outq' = outq
      BY <2>3 DEF SrvReply
    <3>2. \A d \in Chan : d # srvChan[s] => inq'[d] = inq[d]
      BY <2>1, <3>1
    <3> QED BY <1>4, <2>1, <3>1, <3>2
  <2>4. CASE SrvCommCreate(s) \/ SrvCommDestroy(s) \/ SrvCommReq(s)
    <3>1. inq' = inq /\ (SrvTakes(s, "CommCreate") \/ SrvTakes(s, "CommDestroy") \/ SrvTakes(s, "CommReq"))
      BY <2>4 DEF SrvCommCreate, SrvCommDestroy, SrvCommReq
    <3> QED BY <2>2, <3>1
  <2> QED BY <2>3, <2>4
<1> QED BY <1>1, <1>2, <1>3, <1>5, SteadySame

-----------------------------------------------------------------------------
(* Connections are made.                                                   *)
LEMMA AcceptSteady ==
  ASSUME Calm, Sound, NEW c \in Chan, AcceptClient(c) \/ \E s \in Server : AcceptServer(c, s)
  PROVE  Steady' /\ up' = TRUE
<1>1. RtrTypeOK /\ Apart /\ Steady /\ Settled
      /\ \A d \in Chan : kind[d] = "client" =>
           Introduced(inq[d], comms[d], made[d]) /\ HeldBy(d, inq[d], outq[d], want[d], info)
  BY SteadyParts DEF Sound
<1>2. /\ kind[c] = "free" /\ outq' = [outq EXCEPT ![c] = <<>>] /\ conn' = [conn EXCEPT ![c] = "open"]
      /\ UNCHANGED <<up, comms, info>>
  BY DEF AcceptClient, AcceptServer, Accept
<1>3. up' = TRUE /\ \A i \in InfoId : info[i] # Free => kind[info[i].src] = "client" /\ info[i].src # c
  BY <1>1, <1>2 DEF Settled
<1>4. /\ kind \in [Chan -> {"free", "client", "server"}] /\ conn \in [Chan -> {"none", "open", "eof", "reset"}]
      /\ inq \in [Chan -> Seq(ForRouter)] /\ outq \in [Chan -> Seq(ForServers \cup Answers)]
      /\ want \in [Chan -> [ReqId -> CommId \cup {NoComm}]] /\ made \in [Chan -> SUBSET CommId]
      /\ starts \in [Server -> Nat] /\ srvChan \in [Server -> Chan \cup {NoChan}]
  BY <1>1 DEF RtrTypeOK
<1>5. /\ \A n \in DOMAIN <<>> : FALSE
      /\ \A type : Places(<<>>, type) = {}
  BY DEF Places
<1>6. outq'[c] = <<>> /\ conn'[c] = "open" /\ \A d \in Chan : d # c => outq'[d] = outq[d] /\ conn'[d] = conn[d]
  BY <1>2, <1>4
<1>7. NoneStopped /\ \A d \in Chan :
        /\ conn[d] = IF kind[d] = "free" THEN "none" ELSE "open"
        /\ kind[d] = "free" => inq[d] = <<>> /\ outq[d] = <<>> /\ want[d] = Unused
        /\ Places(outq[d], "Answer") # {} => kind[d] = "client"
  BY <1>1 DEF Settled
<1>8. CASE AcceptClient(c)
  <2>1. /\ kind' = [kind EXCEPT ![c] = "client"] /\ inq' = [inq EXCEPT ![c] = <<>>]
        /\ want' = [want EXCEPT ![c] = Unused] /\ made' = [made EXCEPT ![c] = {}]
        /\ UNCHANGED <<starts, srvChan>>
    BY <1>8 DEF AcceptClient, Accept, srvVars
  <2>2. /\ kind'[c] = "client" /\ inq'[c] = <<>> /\ want'[c] = Unused /\ made'[c] = {}
        /\ \A d \in Chan : d # c => /\ kind'[d] = kind[d] /\ inq'[d] = inq[d]
                                    /\ want'[d] = want[d] /\ made'[d] = made[d]
    BY <1>4, <2>1
  <2>3. Settled'
    <3>1. NoneStopped'
      BY <1>7, <2>1 DEF NoneStopped
    <3>2. \A d \in Chan :
            /\ conn'[d] = IF kind'[d] = "free" THEN "none" ELSE "open"
            /\ kind'[d] = "free" => inq'[d] = <<>> /\ outq'[d] = <<>> /\ want'[d] = Unused
            /\ Places(outq'[d], "Answer") # {} => kind'[d] = "client"
      BY <1>6, <1>7, <2>2
    <3>3. \A i \in InfoId : info'[i] # Free => kind'[info'[i].src] = "client"
      <4> SUFFICES ASSUME NEW i \in InfoId, info'[i] # Free PROVE kind'[info'[i].src] = "client"
        OBVIOUS
      <4>1. info[i] \in Info /\ info'[i] = info[i] /\ info[i] # Free
        BY <1>1, <1>2 DEF RtrTypeOK
      <4> QED BY <1>3, <2>2, <4>1 DEF Info
    <3> QED BY <1>3, <3>1, <3>2, <3>3 DEF Settled
  <2>4. ASSUME NEW d \in Chan, kind'[d] = "client"
        PROVE  Introduced(inq'[d], comms'[d], made'[d]) /\ HeldBy(d, inq'[d], outq'[d], want'[d], info')
    <3>1. CASE d = c
      <4>1. comms[c] = {}
        BY <1>1, <1>2 DEF Apart
      <4>2. Introduced(<<>>, {}, {})
        BY <1>5 DEF Introduced
      <4>3. KeptIn(info, c) = {} /\ KeptIdsIn(info, c) = {} /\ IdsIn(<<>>) = {}
        BY <1>3, <1>5 DEF KeptIn, KeptIdsIn, IdsIn
      <4>4. HeldBy(c, <<>>, <<>>, Unused, info)
        BY <1>5, <4>3 DEF HeldBy, AsksOnce, KeptRight, ToldOnce
      <4> QED BY <1>2, <1>6, <2>2, <3>1, <4>1, <4>2, <4>4
    <3>2. CASE d # c
      <4>1. kind[d] = "client" /\ inq'[d] = inq[d] /\ outq'[d] = outq[d] /\ want'[d] = want[d]
            /\ comms'[d] = comms[d] /\ made'[d] = made[d] /\ info' = info
        BY <1>2, <1>6, <2>2, <2>4, <3>2
      <4> QED BY <1>1, <4>1
    <3> QED BY <3>1, <3>2
  <2> QED BY <1>3, <2>3, <2>4, SteadyNext
<1>9. ASSUME NEW s \in Server, AcceptServer(c, s)
      PROVE  Steady'
  <2>1. /\ kind' = [kind EXCEPT ![c] = "server"]
        /\ inq' = [inq EXCEPT ![c] = <<[type |-> "ServerConnect", srv |-> s]>>]
        /\ srvChan[s] = NoChan /\ srvChan' = [srvChan EXCEPT ![s] = c]
        /\ starts' = [starts EXCEPT ![s] = starts[s] + 1]
        /\ UNCHANGED <<want, made>>
    BY <1>9 DEF AcceptServer, Accept, cliVars
  <2>2. /\ kind'[c] = "server"
        /\ \A d \in Chan : d # c => kind'[d] = kind[d] /\ inq'[d] = inq[d]
    BY <1>4, <2>1
  <2>3. Settled'
    <3>1. NoneStopped'
      <4>1. starts[s] = 0
        <5>1. starts[s] \in Nat /\ starts[s] <= 1 /\ (starts[s] = 1 => srvChan[s] # NoChan)
          BY <1>4, <1>7 DEF NoneStopped
        <5> QED BY <2>1, <5>1
      <4>2. starts'[s] = 1 /\ srvChan'[s] = c /\ c # NoChan
        BY <1>4, <2>1, <4>1, RouteAssumption
      <4>3. \A t \in Server : t # s => starts'[t] = starts[t] /\ srvChan'[t] = srvChan[t]
        BY <1>4, <2>1
      <4>4. ASSUME NEW t \in Server
            PROVE  starts'[t] <= 1 /\ (starts'[t] = 1 => srvChan'[t] # NoChan)
        <5>1. CASE t = s
          BY <4>2, <5>1
        <5>2. CASE t # s
          BY <1>7, <4>3, <5>2 DEF NoneStopped
        <5> QED BY <5>1, <5>2
      <4> QED BY <4>4 DEF NoneStopped
    <3>2. \A d \in Chan :
            /\ conn'[d] = IF kind'[d] = "free" THEN "none" ELSE "open"
            /\ kind'[d] = "free" => inq'[d] = <<>> /\ outq'[d] = <<>> /\ want'[d] = Unused
            /\ Places(outq'[d], "Answer") # {} => kind'[d] = "client"
      BY <1>5, <1>6, <1>7, <2>1, <2>2
    <3>3. \A i \in InfoId : info'[i] # Free => kind'[info'[i].src] = "client"
      <4> SUFFICES ASSUME NEW i \in InfoId, info'[i] # Free PROVE kind'[info'[i].src] = "client"
        OBVIOUS
      <4>1. info[i] \in Info /\ info'[i] = info[i] /\ info[i] # Free
        BY <1>1, <1>2 DEF RtrTypeOK
      <4> QED BY <1>3, <2>2, <4>1 DEF Info
    <3> QED BY <1>3, <3>1, <3>2, <3>3 DEF Settled
  <2>4. ASSUME NEW d \in Chan, kind'[d] = "client"
        PROVE  Introduced(inq'[d], comms'[d], made'[d]) /\ HeldBy(d, inq'[d], outq'[d], want'[d], info')
    <3>1. d # c /\ kind[d] = "client" /\ inq'[d] = inq[d] /\ outq'[d] = outq[d] /\ want'[d] = want[d]
          /\ comms'[d] = comms[d] /\ made'[d] = made[d] /\ info' = info
      BY <1>2, <1>6, <2>1, <2>2, <2>4
    <3> QED BY <1>1, <3>1
  <2> QED BY <2>3, <2>4, SteadyNext
<1> QED BY <1>3, <1>8, <1>9

-----------------------------------------------------------------------------
(* The client's own steps.                                                 *)
LEMMA AskGoes ==
  ASSUME RtrTypeOK, NEW c \in Chan, NEW x \in ReqId, NEW k \in CommId, NEW op \in ReqOp, CliAsk(c, x, k, op),
         NEW p, Ahead(p, inq[c], Create(k, NoObj), k, made[c])
  PROVE  /\ kind[c] = "client" /\ want[c][x] = NoComm /\ op \in Ops[k]
         /\ p \in Seq(ForRouter) /\ Create(k, NoObj) \in ForRouter /\ Request(op, x, k) \in ForRouter
         /\ inq' = [inq EXCEPT ![c] = p \o <<Request(op, x, k)>>]
         /\ want' = [want EXCEPT ![c] = [want[c] EXCEPT ![x] = k]]
         /\ made' = [made EXCEPT ![c] = made[c] \cup {k}]
         /\ UNCHANGED <<rtrVars, outq, conn, clients, srvVars>>
<1>1. Create(k, NoObj) \in ForRouter /\ Request(op, x, k) \in ForRouter
  BY DEF Create, Request, ForRouter, Opened, AskedFor
<1>0. PICK q \in Seq(ForRouter) : q = inq[c]
  BY DEF RtrTypeOK
<1>2. p \in Seq(ForRouter)
  BY <1>0, <1>1 DEF Ahead
<1>3. p = q \o (IF k \in made[c] THEN <<>> ELSE <<Create(k, NoObj)>>)
  <2>1. q \o <<>> = q
    OBVIOUS
  <2> QED BY <1>0, <2>1 DEF Ahead
<1>4. /\ kind[c] = "client" /\ want[c][x] = NoComm /\ op \in Ops[k]
      /\ inq' = [inq EXCEPT ![c] = q \o (IF k \in made[c] THEN <<>> ELSE <<Create(k, NoObj)>>)
                                     \o <<Request(op, x, k)>>]
      /\ want' = [want EXCEPT ![c] = [want[c] EXCEPT ![x] = k]]
      /\ made' = [made EXCEPT ![c] = made[c] \cup {k}]
      /\ UNCHANGED <<rtrVars, outq, conn, clients, srvVars>>
  BY <1>0 DEF CliAsk, IsClient
<1> QED BY <1>1, <1>2, <1>3, <1>4

LEMMA AskSteady ==
  ASSUME Calm, Sound, NEW c \in Chan, NEW x \in ReqId, NEW k \in CommId, NEW op \in ReqOp, CliAsk(c, x, k, op)
  PROVE  Steady' /\ up' = TRUE
<1>1. RtrTypeOK /\ Apart /\ Steady /\ Settled
      /\ \A d \in Chan : kind[d] = "client" =>
           Introduced(inq[d], comms[d], made[d]) /\ HeldBy(d, inq[d], outq[d], want[d], info)
  BY SteadyParts DEF Sound
<1>2. PICK q \in Seq(ForRouter) : q = inq[c]
  BY <1>1 DEF RtrTypeOK
<1>3. PICK p : Ahead(p, inq[c], Create(k, NoObj), k, made[c])
  BY DEF Ahead
<1>4. /\ kind[c] = "client" /\ want[c][x] = NoComm /\ op \in Ops[k]
      /\ p \in Seq(ForRouter) /\ Create(k, NoObj) \in ForRouter /\ Request(op, x, k) \in ForRouter
      /\ inq' = [inq EXCEPT ![c] = p \o <<Request(op, x, k)>>]
      /\ want' = [want EXCEPT ![c] = [want[c] EXCEPT ![x] = k]]
      /\ made' = [made EXCEPT ![c] = made[c] \cup {k}]
      /\ UNCHANGED <<rtrVars, outq, conn, clients, srvVars>>
  BY <1>1, <1>3, AskGoes
<1>5. /\ inq'[c] = p \o <<Request(op, x, k)>> /\ want'[c] = [want[c] EXCEPT ![x] = k]
      /\ made'[c] = made[c] \cup {k}
      /\ \A d \in Chan : d # c => inq'[d] = inq[d] /\ want'[d] = want[d] /\ made'[d] = made[d]
  BY <1>1, <1>4 DEF RtrTypeOK
<1>6. UNCHANGED <<up, kind, comms, info, outq, conn, starts, srvChan>>
  BY <1>4 DEF rtrVars, srvVars
<1>7. up' = TRUE
  BY <1>1, <1>6 DEF Settled
<1>8. Settled'
  <2>1. \A d \in Chan : kind[d] = "free" => inq'[d] = inq[d] /\ outq'[d] = outq[d] /\ want'[d] = want[d]
    BY <1>4, <1>5, <1>6
  <2>2. \A d \in Chan : kind[d] # "client" => Places(outq'[d], "Answer") = {}
    BY <1>1, <1>6 DEF Settled
  <2>3. \A i \in InfoId : info'[i] # Free => kind[info'[i].src] = "client"
    BY <1>1, <1>6 DEF Settled
  <2> QED BY <1>1, <1>6, <1>7, <2>1, <2>2, <2>3, SettledNext
<1>9. Introduced(inq'[c], comms'[c], made'[c]) /\ HeldBy(c, inq'[c], outq'[c], want'[c], info')
  <2>1. PICK e, d, o, w, f : e = Request(op, x, k) /\ d = Create(k, NoObj) /\ o = outq[c] /\ w = want[c] /\ f = info
    OBVIOUS
  <2>2. /\ e \in ForRouter /\ e.type = "CommReq" /\ e.id = x /\ e.comm = k /\ e.op \in Ops[k]
        /\ d \in ForRouter /\ d.type = "CommCreate" /\ d.comm = k
    BY <1>4, <2>1 DEF Create, Request
  <2>3. /\ HeldBy(c, q, o, w, f) /\ Introduced(q, comms[c], made[c])
        /\ x \in DOMAIN w /\ w[x] = NoComm
    BY <1>1, <1>2, <1>4, <2>1 DEF RtrTypeOK
  <2>4. comms[c] \subseteq made[c] /\ \A n \in Places(q, "CommCreate") : q[n].comm \in made[c]
    BY <1>1, <1>2, <1>4 DEF Apart, Places
  <2>5. \A n \in Places(q, "CommReq") : q[n].comm # NoComm
    <3>1. ASSUME NEW n \in Places(q, "CommReq") PROVE q[n].comm # NoComm
      <4>1. n \in DOMAIN q /\ q[n].type = "CommReq" /\ q[n] \in ForRouter
        BY DEF Places
      <4>2. q[n] \in AskedFor
        BY <4>1, MessageTypes
      <4>3. q[n].comm \in CommId
        BY <4>2 DEF AskedFor
      <4> QED BY <4>3, RouteAssumption
    <3> QED BY <3>1
  <2>6. \A i \in KeptIn(f, c) : f[i].comm # NoComm
    <3>1. ASSUME NEW i \in KeptIn(f, c) PROVE f[i].comm # NoComm
      <4>1. f[i] \in Info
        BY <1>1, <2>1 DEF RtrTypeOK, KeptIn
      <4>2. f[i].comm \in CommId
        BY <4>1 DEF Info
      <4> QED BY <4>2, RouteAssumption
    <3> QED BY <3>1
  <2>7. Ahead(p, q, d, k, made[c])
    BY <1>2, <1>3, <2>1
  <2>9. AskReady(c, q, f, made[c]) /\ comms[c] \subseteq made[c]
    BY <2>4, <2>5, <2>6 DEF AskReady
  <2>10. AskOf(e, x, k) /\ CreateOf(d, k)
    BY <2>2 DEF AskOf, CreateOf
  <2>8. HeldBy(c, p \o <<e>>, o, [w EXCEPT ![x] = k], f) /\ Introduced(p \o <<e>>, comms[c], made[c] \cup {k})
    <3>1. PICK K, M : K = comms[c] /\ M = made[c]
      OBVIOUS
    <3>2. /\ HeldBy(c, q, o, w, f) /\ Introduced(q, K, M) /\ K \subseteq M /\ AskReady(c, q, f, M)
          /\ k \in CommId /\ x \in DOMAIN w /\ w[x] = NoComm
          /\ e \in ForRouter /\ AskOf(e, x, k) /\ d \in ForRouter /\ CreateOf(d, k) /\ Ahead(p, q, d, k, M)
      BY <2>2, <2>3, <2>7, <2>9, <2>10, <3>1
    <3>3. HeldBy(c, p \o <<e>>, o, [w EXCEPT ![x] = k], f) /\ Introduced(p \o <<e>>, K, M \cup {k})
      BY <3>2, HeldAsk, Zenon
    <3> QED BY <3>1, <3>3
  <2> QED BY <1>5, <1>6, <2>1, <2>8
<1>10. ASSUME NEW d \in Chan, kind'[d] = "client"
       PROVE  Introduced(inq'[d], comms'[d], made'[d]) /\ HeldBy(d, inq'[d], outq'[d], want'[d], info')
  <2>1. CASE d = c
    BY <1>9, <2>1
  <2>2. CASE d # c
    BY <1>1, <1>5, <1>6, <1>10, <2>2
  <2> QED BY <2>1, <2>2
<1> QED BY <1>7, <1>8, <1>10, SteadyNext

LEMMA ReadSteady ==
  ASSUME Calm, Sound, NEW c \in Chan, CliRead(c)
  PROVE  Steady' /\ up' = TRUE
<1>1. RtrTypeOK /\ Steady /\ Settled
      /\ \A d \in Chan : kind[d] = "client" =>
           Introduced(inq[d], comms[d], made[d]) /\ HeldBy(d, inq[d], outq[d], want[d], info)
  BY SteadyParts DEF Sound
<1>2. PICK o \in Seq(ForServers \cup Answers) : o = outq[c]
  BY <1>1 DEF RtrTypeOK
<1>3. /\ kind[c] = "client" /\ o # <<>> /\ Head(o) = o[1] /\ o[1].type = "Answer" /\ o[1] \in ForServers \cup Answers
  BY <1>2 DEF CliRead, IsClient
<1>4. o[1].id \in ReqId
  BY <1>3, MessageTypes, ForServersFacts DEF Answers
<1>5. /\ outq' = [outq EXCEPT ![c] = Tail(o)] /\ want' = [want EXCEPT ![c] = [want[c] EXCEPT ![o[1].id] = NoComm]]
      /\ UNCHANGED <<rtrVars, inq, conn, made, clients, asks, srvVars>>
  BY <1>2, <1>3 DEF CliRead
<1>6. /\ outq'[c] = Tail(o) /\ want'[c] = [want[c] EXCEPT ![o[1].id] = NoComm]
      /\ \A d \in Chan : d # c => outq'[d] = outq[d] /\ want'[d] = want[d]
  BY <1>1, <1>5 DEF RtrTypeOK
<1>7. UNCHANGED <<up, kind, comms, info, inq, conn, made, starts, srvChan>>
  BY <1>5 DEF rtrVars, srvVars
<1>8. up' = TRUE
  BY <1>1, <1>7 DEF Settled
<1>9. Settled'
  <2>1. \A d \in Chan : kind[d] = "free" => inq'[d] = inq[d] /\ outq'[d] = outq[d] /\ want'[d] = want[d]
    BY <1>3, <1>6, <1>7
  <2>2. \A d \in Chan : kind[d] # "client" => Places(outq'[d], "Answer") = {}
    BY <1>1, <1>3, <1>6 DEF Settled
  <2>3. \A i \in InfoId : info'[i] # Free => kind[info'[i].src] = "client"
    BY <1>1, <1>7 DEF Settled
  <2> QED BY <1>1, <1>7, <1>8, <2>1, <2>2, <2>3, SettledNext
<1>10. HeldBy(c, inq'[c], outq'[c], want'[c], info')
  <2>1. PICK q, w, f : q = inq[c] /\ w = want[c] /\ f = info
    OBVIOUS
  <2>2. HeldBy(c, q, o, w, f) /\ o[1].id \in DOMAIN w
    BY <1>1, <1>2, <1>3, <1>4, <2>1 DEF RtrTypeOK
  <2>3. HeldBy(c, q, Tail(o), [w EXCEPT ![o[1].id] = NoComm], f)
    BY <1>3, <2>2, HeldRead
  <2> QED BY <1>6, <1>7, <2>1, <2>3
<1>11. ASSUME NEW d \in Chan, kind'[d] = "client"
       PROVE  Introduced(inq'[d], comms'[d], made'[d]) /\ HeldBy(d, inq'[d], outq'[d], want'[d], info')
  <2>1. CASE d = c
    BY <1>1, <1>3, <1>7, <1>10, <2>1
  <2>2. CASE d # c
    BY <1>1, <1>6, <1>7, <1>11, <2>2
  <2> QED BY <2>1, <2>2
<1> QED BY <1>8, <1>9, <1>11, SteadyNext

-----------------------------------------------------------------------------
(* The inductive invariant.                                                *)
LEMMA SteadyStutter ==
  ASSUME Steady, UNCHANGED vars
  PROVE  Steady'
<1>1. UNCHANGED <<up, kind, comms, info, inq, outq, conn, want, made, starts, srvChan>>
  BY DEF vars, rtrVars, cliVars, srvVars
<1>2. Settled
      /\ \A d \in Chan : kind[d] = "client" =>
           Introduced(inq[d], comms[d], made[d]) /\ HeldBy(d, inq[d], outq[d], want[d], info)
  BY SteadyParts
<1>3. Settled'
  BY <1>1, <1>2 DEF Settled, NoneStopped
<1> QED BY <1>1, <1>2, <1>3, SteadyNext

LEMMA SteadyKept ==
  ASSUME Calm, Sound, [Next]_vars
  PROVE  Steady'
<1>1. CASE UNCHANGED vars
  BY <1>1, SteadyStutter DEF Sound
<1>2. ASSUME NEW c \in Chan, RtrStep(c) PROVE Steady'
  <2>1. CASE RtrCommCreate(c)
    BY <2>1, CreateSteady
  <2>2. CASE \E i \in InfoId : RtrCommReq(c, i)
    BY <2>2, RequestSteady
  <2>3. CASE RtrCommResp(c) \/ RtrOneResp(c)
    BY <2>3, RespSteady
  <2>4. CASE RtrServerConnect(c)
    BY <2>4, ConnectSteady
  <2> QED BY <1>2, <2>1, <2>2, <2>3, <2>4, NoneEnds DEF RtrStep
<1>3. ASSUME NEW s \in Server, SrvStep(s) PROVE Steady'
  BY <1>3, ServerSteady, NoneEnds DEF SrvStep
<1>4. ASSUME NEW c \in Chan, AcceptClient(c) \/ \E s \in Server : AcceptServer(c, s) PROVE Steady'
  BY <1>4, AcceptSteady
<1>5. ASSUME NEW c \in Chan, NEW q \in ReqId, NEW k \in CommId, NEW op \in ReqOp, CliAsk(c, q, k, op)
      PROVE  Steady'
  BY <1>5, AskSteady
<1>6. ASSUME NEW c \in Chan, CliRead(c) PROVE Steady'
  BY <1>6, ReadSteady
<1> QED BY <1>1, <1>2, <1>3, <1>4, <1>5, <1>6, NoneEnds DEF Next

LEMMA SteadyInit ==
  ASSUME Init
  PROVE  Steady
<1>1. /\ up = TRUE /\ \A c \in Chan : /\ kind[c] = "free" /\ conn[c] = "none"
                                      /\ inq[c] = <<>> /\ outq[c] = <<>> /\ want[c] = Unused
      /\ \A i \in InfoId : info[i] = Free
      /\ \A s \in Server : starts[s] = 0
  BY DEF Init
<1>2. Places(<<>>, "Answer") = {}
  BY DEF Places
<1>3. Settled
  BY <1>1, <1>2 DEF Settled, NoneStopped
<1> QED BY <1>1, <1>3 DEF Steady

(* While no client leaves, no server stops, and clients ask for what the   *)
(* router supports of objects with a route, every connection stays open,   *)
(* each communicator reaches the router before its requests, and a request *)
(* is in one place: in its client's connection, in one CommReqInfo, or in  *)
(* one answer, which is whole.                                             *)
THEOREM CalmInductive ==
  ASSUME Calm
  PROVE  Spec => []CalmIInv
<1>1. Init => CalmIInv
  <2>1. Init => IInv
    BY TypesInit, PlacesInit, TallyInit DEF IInv
  <2> QED BY <2>1, SteadyInit DEF CalmIInv
<1>2. CalmIInv /\ [Next]_vars => CalmIInv'
  <2>1. ASSUME CalmIInv, [Next]_vars PROVE CalmIInv'
    <3>1. IInv'
      BY <2>1, IInvKept DEF CalmIInv
    <3>2. Steady'
      BY <2>1, SteadyKept, SoundIs
    <3> QED BY <3>1, <3>2 DEF CalmIInv
  <2> QED BY <2>1
<1> QED BY <1>1, <1>2, PTL DEF Spec

(* No assert of the router fails, it writes to no closed connection and    *)
(* through no NULL channel.                                                *)
THEOREM NoAbortHolds ==
  ASSUME Calm
  PROVE  Spec => []NoAbort
<1>1. CalmIInv => NoAbort
  BY DEF CalmIInv, Steady, Settled, NoAbort
<1> QED BY <1>1, CalmInductive, PTL

-----------------------------------------------------------------------------
(* The answers a client has yet to read, as Aggregation sees them.         *)
LEMMA PickedAll ==
  ASSUME NEW T, NEW ms \in Seq(T)
  PROVE  Picked(ms, DOMAIN ms) = ms
<1>1. PICK ss : ss = [n \in DOMAIN ms |-> <<ms[n]>>]
  OBVIOUS
<1>2. /\ DOMAIN ms = 1..Len(ms) /\ Len(ms) \in Nat /\ \A n \in DOMAIN ms : ms[n] \in T
      /\ DOMAIN ss = 1..Len(ms) /\ Len(ss) = Len(ms) /\ \A n \in 1..Len(ms) : ss[n] = <<ms[n]>>
  <2>1. DOMAIN ms = 1..Len(ms) /\ Len(ms) \in Nat /\ \A n \in DOMAIN ms : ms[n] \in T
    OBVIOUS
  <2> QED BY <1>1, <2>1
<1>3. Picked(ms, DOMAIN ms) = FlattenSeq(ss)
  <2>1. [n \in DOMAIN ms |-> IF n \in DOMAIN ms THEN <<ms[n]>> ELSE <<>>] = ss
    BY <1>1
  <2> QED BY <2>1 DEF Picked
<1>4. CASE Len(ms) = 0
  <2>1. ms = <<>>
    BY <1>2, <1>4
  <2>2. \A n \in DOMAIN ms : n \notin DOMAIN ms
    BY <1>2, <1>4
  <2> QED BY <2>1, <2>2, PickedNone
<1>5. CASE Len(ms) # 0
  <2>1. PICK f : Flat(ss, Len(ss), f) /\ FlattenSeq(ss) = f[Len(ss)]
    BY <1>2, <1>5, FlattenIs
  <2>2. \A i \in 1..Len(ms) : f[i] = IF i = 1 THEN ss[i] ELSE f[i - 1] \o ss[i]
    BY <1>2, <2>1 DEF Flat
  <2> DEFINE Begins(i) == f[i] \in Seq(T) /\ Len(f[i]) = i /\ \A j \in 1..i : f[i][j] = ms[j]
             Bad == {i \in 1..Len(ms) : ~Begins(i)}
  <2>3. ASSUME Bad # {} PROVE FALSE
    <3>1. PICK m \in Bad : \A y \in Bad : m <= y
      <4>1. Bad \subseteq Nat
        BY <1>2
      <4> QED BY <2>3, <4>1, Least
    <3>2. m \in 1..Len(ms) /\ ~Begins(m) /\ m \in Nat
      BY <1>2, <3>1
    <3>3. CASE m = 1
      <4>1. f[m] = <<ms[1]>> /\ ms[1] \in T
        BY <1>2, <2>2, <3>2, <3>3
      <4>2. PICK p : p = f[m]
        OBVIOUS
      <4>3. p \in Seq(T) /\ Len(p) = 1 /\ p[1] = ms[1] /\ 1..m = {1}
        BY <3>3, <4>1, <4>2
      <4> QED BY <3>2, <3>3, <4>2, <4>3
    <3>4. CASE m # 1
      <4>1. m - 1 \in 1..Len(ms) /\ m - 1 \notin Bad
        BY <1>2, <3>1, <3>2, <3>4
      <4>2. Begins(m - 1)
        BY <4>1
      <4>3. PICK p, e, r : p = f[m - 1] /\ e = ms[m] /\ r = f[m]
        OBVIOUS
      <4>4. p \in Seq(T) /\ Len(p) = m - 1 /\ (\A j \in 1..(m - 1) : p[j] = ms[j]) /\ e \in T /\ r = p \o <<e>>
        BY <1>2, <2>2, <3>2, <3>4, <4>2, <4>3
      <4>5. r \in Seq(T) /\ Len(r) = m /\ r[m] = e /\ \A j \in 1..(m - 1) : r[j] = p[j]
        BY <3>2, <4>4
      <4>6. \A j \in 1..m : j = m \/ j \in 1..(m - 1)
        BY <3>2
      <4> QED BY <3>2, <4>3, <4>4, <4>5, <4>6
    <3> QED BY <3>3, <3>4
  <2>4. Len(ms) \in 1..Len(ms)
    BY <1>2, <1>5
  <2>5. Begins(Len(ms))
    BY <2>3, <2>4
  <2>6. PICK p : p = f[Len(ms)]
    OBVIOUS
  <2>7. p \in Seq(T) /\ Len(p) = Len(ms) /\ \A j \in 1..Len(ms) : p[j] = ms[j]
    BY <2>5, <2>6
  <2>8. p = ms
    BY <1>2, <2>7
  <2> QED BY <1>2, <1>3, <2>1, <2>6, <2>8
<1> QED BY <1>4, <1>5

LEMMA ToldFacts ==
  ASSUME NEW T, NEW q \in Seq(T)
  PROVE  /\ DOMAIN ToldBy(q) = DOMAIN q /\ Len(ToldBy(q)) = Len(q)
         /\ \A n \in DOMAIN q : ToldBy(q)[n] = [id |-> q[n].id, value |-> q[n].value]
         /\ ToldBy(q) \in Seq({[id |-> m.id, value |-> m.value] : m \in T})
<1>1. DOMAIN q = 1..Len(q) /\ Len(q) \in Nat /\ \A n \in DOMAIN q : q[n] \in T
  OBVIOUS
<1>2. DOMAIN ToldBy(q) = DOMAIN q /\ \A n \in DOMAIN q : ToldBy(q)[n] = [id |-> q[n].id, value |-> q[n].value]
  BY DEF ToldBy
<1>3. PICK U : U = {[id |-> m.id, value |-> m.value] : m \in T}
  OBVIOUS
<1>4. \A n \in DOMAIN q : [id |-> q[n].id, value |-> q[n].value] \in U
  BY <1>1, <1>3
<1>5. ToldBy(q) = [n \in 1..Len(q) |-> [id |-> q[n].id, value |-> q[n].value]]
  BY <1>1 DEF ToldBy
<1>6. ToldBy(q) \in [1..Len(q) -> U]
  BY <1>1, <1>4, <1>5
<1>7. ToldBy(q) \in Seq(U)
  BY <1>1, <1>6
<1>8. Len(ToldBy(q)) = Len(q)
  BY <1>1, <1>5
<1> QED BY <1>2, <1>3, <1>7, <1>8

LEMMA ToldTakes ==
  ASSUME NEW T, NEW q \in Seq(T), q # <<>>
  PROVE  /\ ToldBy(q) # <<>> /\ Head(ToldBy(q)).id = Head(q).id
         /\ ToldBy(Tail(q)) = Tail(ToldBy(q))
<1>1. PICK U : U = {[id |-> m.id, value |-> m.value] : m \in T}
  OBVIOUS
<1>2. PICK p \in Seq(U) : p = ToldBy(q)
  BY <1>1, ToldFacts
<1>3. DOMAIN p = DOMAIN q /\ Len(p) = Len(q) /\ \A n \in DOMAIN q : p[n] = [id |-> q[n].id, value |-> q[n].value]
  BY <1>2, ToldFacts
<1>4. p # <<>> /\ Len(q) \in Nat /\ Len(q) # 0
  BY <1>3
<1>5. Head(p).id = Head(q).id
  BY <1>3, <1>4
<1>6. PICK r \in Seq(T) : r = Tail(q)
  BY TailAt
<1>7. DOMAIN ToldBy(r) = DOMAIN r /\ ToldBy(r) \in Seq(U) /\ Len(ToldBy(r)) = Len(r)
      /\ \A n \in DOMAIN r : ToldBy(r)[n] = [id |-> r[n].id, value |-> r[n].value]
  BY <1>1, ToldFacts
<1>8. Len(r) = Len(q) - 1 /\ Len(Tail(p)) = Len(p) - 1 /\ Tail(p) \in Seq(U)
      /\ \A n \in 1..(Len(q) - 1) : r[n] = q[n + 1] /\ Tail(p)[n] = p[n + 1] /\ n + 1 \in DOMAIN q /\ n \in DOMAIN r
  BY <1>3, <1>4, <1>6
<1>9. \A n \in 1..(Len(q) - 1) : ToldBy(r)[n] = Tail(p)[n]
  BY <1>3, <1>7, <1>8
<1>10. ToldBy(r) = Tail(p)
  <2>1. PICK a, b \in Seq(U) : a = ToldBy(r) /\ b = Tail(p)
    BY <1>7, <1>8
  <2>2. Len(a) = Len(b) /\ Len(a) = Len(q) - 1 /\ \A n \in 1..(Len(q) - 1) : a[n] = b[n]
    <3>1. Len(a) = Len(q) - 1 /\ Len(b) = Len(q) - 1
      <4>1. Len(p) = Len(q) /\ Len(ToldBy(r)) = Len(r) /\ Len(r) = Len(q) - 1 /\ Len(Tail(p)) = Len(p) - 1
        BY <1>3, <1>7, <1>8
      <4> QED BY <2>1, <4>1
    <3>2. \A n \in 1..(Len(q) - 1) : a[n] = b[n]
      BY <1>9, <2>1
    <3> QED BY <3>1, <3>2
  <2>3. a = b
    BY <2>2, SeqEqual
  <2> QED BY <2>1, <2>3
<1> QED BY <1>2, <1>4, <1>5, <1>6, <1>10

LEMMA ToldAdds ==
  ASSUME NEW T, NEW q \in Seq(T), NEW a \in T
  PROVE  ToldBy(Append(q, a)) = Append(ToldBy(q), [id |-> a.id, value |-> a.value])
<1>1. PICK U : U = {[id |-> m.id, value |-> m.value] : m \in T}
  OBVIOUS
<1>2. PICK e \in U : e = [id |-> a.id, value |-> a.value]
  BY <1>1
<1>3. PICK p \in Seq(U) : p = ToldBy(q)
  BY <1>1, ToldFacts
<1>4. PICK r \in Seq(T) : r = Append(q, a)
  BY AppendAt
<1>5. PICK s \in Seq(U) : s = ToldBy(r)
  BY <1>1, ToldFacts
<1>6. /\ Len(p) = Len(q) /\ \A n \in DOMAIN q : p[n] = [id |-> q[n].id, value |-> q[n].value]
      /\ Len(s) = Len(r) /\ \A n \in DOMAIN r : s[n] = [id |-> r[n].id, value |-> r[n].value]
  BY <1>3, <1>5, ToldFacts
<1>7. /\ Len(q) \in Nat /\ Len(r) = Len(q) + 1 /\ DOMAIN r = 1..(Len(q) + 1) /\ r[Len(q) + 1] = a
      /\ DOMAIN q = 1..Len(q) /\ \A n \in 1..Len(q) : r[n] = q[n]
  BY <1>4
<1>8. PICK t \in Seq(U) : t = Append(p, e)
  BY AppendAt
<1>9. Len(t) = Len(q) + 1 /\ t[Len(q) + 1] = e /\ \A n \in 1..Len(q) : t[n] = p[n]
  <2>1. /\ Len(t) = Len(p) + 1 /\ t[Len(p) + 1] = e
        /\ \A n \in 1..Len(p) : t[n] = p[n]
    BY <1>8, AppendProperties
  <2> QED BY <1>6, <1>7, <2>1
<1>10. \A n \in 1..(Len(q) + 1) : s[n] = t[n]
  <2>1. s[Len(q) + 1] = e
    BY <1>2, <1>6, <1>7
  <2>2. \A n \in 1..Len(q) : s[n] = p[n]
    BY <1>6, <1>7
  <2>3. \A n \in 1..(Len(q) + 1) : n = Len(q) + 1 \/ n \in 1..Len(q)
    BY <1>7
  <2> QED BY <1>9, <2>1, <2>2, <2>3
<1>11. s = t
  BY <1>6, <1>7, <1>9, <1>10, SeqEqual
<1> QED BY <1>2, <1>3, <1>4, <1>5, <1>8, <1>11

(* Clients are sent answers only, and nobody else is.                      *)
LEMMA ClientsHear ==
  ASSUME Sound, NEW c \in Chan
  PROVE  Places(outq[c], "Answer") = IF kind[c] = "client" THEN DOMAIN outq[c] ELSE {}
<1>1. CASE kind[c] # "client"
  BY <1>1 DEF Sound, Steady, Settled
<1>2. CASE kind[c] = "client"
  <2>1. ASSUME NEW n \in DOMAIN outq[c], outq[c][n].type # "Answer" PROVE FALSE
    <3>1. PICK s \in Server : localMap[s] = c
      BY <2>1 DEF Sound, Linked
    <3>2. srvChan[s] = c /\ c # NoChan
      BY <3>1, RouteAssumption DEF Sound, Linked
    <3> QED BY <1>2, <3>2 DEF Sound, Plugged
  <2> QED BY <1>2, <2>1 DEF Places
<1> QED BY <1>1, <1>2

RepliesRight ==
  \A c \in Chan : Replies[c] = IF kind[c] = "client" THEN ToldBy(outq[c]) ELSE <<>>

LEMMA RepliesAre == Sound => RepliesRight
<1> SUFFICES ASSUME Sound, NEW c \in Chan
             PROVE  Replies[c] = IF kind[c] = "client" THEN ToldBy(outq[c]) ELSE <<>>
  BY DEF RepliesRight
<1>1. PICK q \in Seq(ForServers \cup Answers) : q = outq[c]
  BY DEF Sound, RtrTypeOK
<1>2. Only(q, LAMBDA m : m.type = "Answer") = Picked(q, Places(q, "Answer"))
  <2>1. [n \in DOMAIN q |-> IF q[n].type = "Answer" THEN <<q[n]>> ELSE <<>>]
        = [n \in DOMAIN q |-> IF n \in Places(q, "Answer") THEN <<q[n]>> ELSE <<>>]
    BY DEF Places
  <2> QED BY <2>1 DEF Only, Picked
<1>3. Replies[c] = ToldBy(Picked(q, Places(q, "Answer")))
  BY <1>1, <1>2 DEF Replies
<1>4. CASE kind[c] = "client"
  <2>1. Picked(q, Places(q, "Answer")) = q
    BY <1>1, <1>4, ClientsHear, PickedAll
  <2> QED BY <1>1, <1>3, <1>4, <2>1
<1>5. CASE kind[c] # "client"
  <2>1. Picked(q, Places(q, "Answer")) = <<>>
    BY <1>1, <1>5, ClientsHear, PickedNone
  <2>2. ToldBy(<<>>) = <<>>
    BY DEF ToldBy
  <2> QED BY <1>3, <1>5, <2>1, <2>2
<1> QED BY <1>4, <1>5

(* Every answer on its way to a client belongs to a request the client     *)
(* waits for, and has the contribution of each member of each group, each  *)
(* once; where none leaves, AnswersWhole needs no premise.                 *)
THEOREM AnswersWholeHolds ==
  ASSUME Calm
  PROVE  Spec => [](AnswersWhole /\ Promise!AnswersComplete)
<1>1. CalmIInv => AnswersWhole /\ Promise!AnswersComplete
  <2> SUFFICES ASSUME Sound PROVE Promise!AnswersComplete
    BY SoundIs DEF AnswersWhole
  <2>1. ASSUME NEW c \in Chan, NEW n \in DOMAIN Replies[c]
        PROVE  LET a == Replies[c][n]
                   k == want[c][a.id]
               IN  /\ k # NoComm
                   /\ DOMAIN a.value = Promise!Groups(k)
                   /\ \A g \in Promise!Groups(k) : /\ Promise!Range(a.value[g]) = MemberSets[k][g]
                                                   /\ Promise!IsInjective(a.value[g])
    <3>1. PICK q \in Seq(ForServers \cup Answers) : q = outq[c]
      BY DEF Sound, RtrTypeOK
    <3>2. Replies[c] = IF kind[c] = "client" THEN ToldBy(q) ELSE <<>>
      BY <3>1, RepliesAre DEF RepliesRight
    <3>3. kind[c] = "client" /\ Replies[c] = ToldBy(q)
      <4>1. DOMAIN <<>> = {}
        OBVIOUS
      <4> QED BY <2>1, <3>2, <4>1
    <3>4. n \in DOMAIN q /\ Replies[c][n] = [id |-> q[n].id, value |-> q[n].value]
      <4>1. PICK p : p = ToldBy(q)
        OBVIOUS
      <4>2. DOMAIN p = DOMAIN q /\ \A l \in DOMAIN q : p[l] = [id |-> q[l].id, value |-> q[l].value]
        BY <4>1 DEF ToldBy
      <4>3. Replies[c] = p
        BY <3>3, <4>1
      <4> QED BY <2>1, <4>2, <4>3
    <3>5. n \in Places(q, "Answer")
      BY <3>1, <3>3, <3>4, ClientsHear
    <3>6. PICK v, k : v = q[n].value /\ k = want[c][q[n].id]
      OBVIOUS
    <3>7. ToldOnce(q, want[c])
      BY <3>1, <3>3, SteadyParts DEF Sound, HeldBy
    <3>8. Whole(v, k)
      BY <3>5, <3>6, <3>7 DEF ToldOnce
    <3>9. k \in CommId /\ k # NoComm
      BY <3>8, RouteAssumption DEF Whole
    <3>10. Promise!Groups(k) = Groups(k) /\ \A g \in Groups(k) : MemberSets[k][g] = Range(Members[k][g])
      BY <3>9 DEF Promise!Groups, Groups, MemberSets
    <3>11. ASSUME NEW f PROVE Promise!Range(f) = Range(f) /\ (Promise!IsInjective(f) <=> IsInjective(f))
      BY DEF Promise!Range, Range, Promise!IsInjective, IsInjective
    <3>12. \A g \in Promise!Groups(k) : Promise!Range(v[g]) = MemberSets[k][g] /\ Promise!IsInjective(v[g])
      BY <3>8, <3>10, <3>11 DEF Whole
    <3>13. DOMAIN v = Promise!Groups(k)
      BY <3>8, <3>10 DEF Whole
    <3>14. Replies[c][n].id = q[n].id /\ Replies[c][n].value = v
      BY <3>4, <3>6
    <3> QED BY <3>6, <3>9, <3>12, <3>13, <3>14
  <2> QED BY <2>1 DEF Promise!AnswersComplete
<1> QED BY <1>1, CalmInductive, PTL

-----------------------------------------------------------------------------
(* The refinement.  What Aggregation calls the copies and the responses on *)
(* their way are the tokens of the servers, their operation left out.      *)
Outs(s) == Asked(s) \cup work[s]
OutTokens == UNION {Outs(s) : s \in Server}
InTokens == UNION {Returned(s) : s \in Server}
Strip(t) == [info |-> t.info, grp |-> t.grp, obj |-> t.obj]
Stripped(S) == {Strip(t) : t \in S}

LEMMA OutAt ==
  /\ \A t : t \in OutTokens <=> \E s \in Server : t \in Asked(s) \/ t \in work[s]
  /\ \A t : t \in InTokens <=> \E s \in Server : t \in Returned(s)
BY DEF OutTokens, InTokens, Outs

LEMMA TokensKnown ==
  ASSUME Sound
  PROVE  /\ \A s \in Server : \A t \in Asked(s) \cup work[s] \cup Returned(s) :
              t \in Works /\ Home[t.obj] = s /\ DueIn(info[t.info], t)
         /\ \A s \in Server : (Asked(s) \cup work[s]) \cap Returned(s) = {} /\ Asked(s) \cap work[s] = {}
         /\ \A s \in Server : Once(Queue(s), "CommReq") /\ Once(Back(s), "CommResp")
<1> USE DEF Sound
<1>1. ASSUME NEW s \in Server
      PROVE  /\ All(Queue(s), work[s], Back(s)) = Asked(s) \cup work[s] \cup Returned(s)
             /\ Neat(Queue(s), work[s], Back(s))
             /\ \A t \in All(Queue(s), work[s], Back(s)) : Home[t.obj] = s /\ DueIn(info[t.info], t)
             /\ All(Queue(s), work[s], Back(s)) \subseteq Works
  <2>1. All(Queue(s), work[s], Back(s)) = Asked(s) \cup work[s] \cup Returned(s)
    BY DEF All, Asked, Returned
  <2>2. /\ Neat(Queue(s), work[s], Back(s))
        /\ \A t \in All(Queue(s), work[s], Back(s)) : Home[t.obj] = s /\ DueIn(info[t.info], t)
    BY TalliedIs
  <2> QED BY <2>1, <2>2, AllTypes
<1> HIDE DEF Sound
<1>2. ASSUME NEW s \in Server, NEW t \in Asked(s) \cup work[s] \cup Returned(s)
      PROVE  t \in Works /\ Home[t.obj] = s /\ DueIn(info[t.info], t)
  BY <1>1, <1>2
<1>3. ASSUME NEW s \in Server
      PROVE  /\ (Asked(s) \cup work[s]) \cap Returned(s) = {} /\ Asked(s) \cap work[s] = {}
             /\ Once(Queue(s), "CommReq") /\ Once(Back(s), "CommResp")
  BY <1>1 DEF Neat, Asked, Returned
<1> QED BY <1>2, <1>3

LEMMA TokensApart ==
  ASSUME Sound
  PROVE  /\ OutTokens \cap InTokens = {}
         /\ \A t \in OutTokens \cup InTokens : t \in Works /\ DueIn(info[t.info], t)
         /\ \A t, u \in OutTokens \cup InTokens : Strip(t) = Strip(u) => t = u
<1>1. ASSUME NEW t \in OutTokens, t \in InTokens PROVE FALSE
  <2>1. PICK s \in Server : t \in Asked(s) \/ t \in work[s]
    BY OutAt
  <2>2. PICK r \in Server : t \in Returned(r)
    BY <1>1, OutAt
  <2>3. s = r
    BY <2>1, <2>2, TokensKnown
  <2> QED BY <2>1, <2>2, <2>3, TokensKnown
<1>2. ASSUME NEW t \in OutTokens \cup InTokens PROVE t \in Works /\ DueIn(info[t.info], t)
  <2>1. PICK s \in Server : t \in Asked(s) \cup work[s] \cup Returned(s)
    BY OutAt
  <2> QED BY <2>1, TokensKnown
<1>3. ASSUME NEW t \in OutTokens \cup InTokens, NEW u \in OutTokens \cup InTokens, Strip(t) = Strip(u)
      PROVE  t = u
  <2>1. t.info = u.info /\ t.grp = u.grp /\ t.obj = u.obj
    BY <1>3 DEF Strip
  <2>2. info[t.info].op = t.op /\ info[u.info].op = u.op
    BY <1>2 DEF DueIn
  <2>3. t \in Works /\ u \in Works
    BY <1>2
  <2> QED BY <2>1, <2>2, <2>3 DEF Works
<1> QED BY <1>1, <1>2, <1>3

LEMMA QueuesAt ==
  ASSUME NEW f, NEW m
  PROVE  m \in Queues(f) <=> \E y \in DOMAIN f : \E n \in DOMAIN f[y] : m = f[y][n]
BY DEF Queues, Range

LEMMA OutwardIs == Sound => Outward = Stripped(OutTokens)
<1> SUFFICES ASSUME Sound PROVE Outward = Stripped(OutTokens)
  OBVIOUS
<1>0. /\ DOMAIN pending = Server /\ DOMAIN outq = Chan /\ Linked /\ NoChan \notin Chan /\ RtrTypeOK
  BY RouteAssumption DEF Sound, RtrTypeOK
<1>1. ASSUME NEW t, t \in Outward PROVE t \in Stripped(OutTokens)
  <2>1. \/ \E m \in Queues(pending) \cup Queues(outq) :
             m.type = "CommReq" /\ t = [info |-> m.info, grp |-> m.grp, obj |-> m.dst]
        \/ \E s \in Server : \E w \in work[s] : t = [info |-> w.info, grp |-> w.grp, obj |-> w.obj]
    BY <1>1 DEF Outward
  <2>2. CASE \E s \in Server : \E w \in work[s] : t = [info |-> w.info, grp |-> w.grp, obj |-> w.obj]
    BY <2>2, OutAt DEF Stripped, Strip
  <2>3. ASSUME NEW m, m.type = "CommReq", t = [info |-> m.info, grp |-> m.grp, obj |-> m.dst],
               NEW s \in Server, NEW n \in DOMAIN Queue(s), m = Queue(s)[n]
        PROVE  t \in Stripped(OutTokens)
    <3>1. Token(m) \in Asked(s)
      BY <2>3, TokenAt DEF Asked
    <3>2. Strip(Token(m)) = t
      BY <2>3 DEF Strip, Token
    <3> QED BY <3>1, <3>2, OutAt DEF Stripped
  <2>4. ASSUME NEW m \in Queues(pending), m.type = "CommReq", t = [info |-> m.info, grp |-> m.grp, obj |-> m.dst]
        PROVE  t \in Stripped(OutTokens)
    <3>1. PICK s \in Server : \E n \in DOMAIN pending[s] : m = pending[s][n]
      BY <1>0, QueuesAt
    <3>2. pending[s] # <<>>
      BY <3>1
    <3>3. Queue(s) = pending[s]
      BY <1>0, <3>2 DEF Linked, Queue
    <3> QED BY <2>3, <2>4, <3>1, <3>3
  <2>5. ASSUME NEW m \in Queues(outq), m.type = "CommReq", t = [info |-> m.info, grp |-> m.grp, obj |-> m.dst]
        PROVE  t \in Stripped(OutTokens)
    <3>1. PICK c \in Chan : \E n \in DOMAIN outq[c] : m = outq[c][n]
      BY <1>0, QueuesAt
    <3>2. PICK s \in Server : localMap[s] = c
      BY <1>0, <2>5, <3>1 DEF Linked
    <3>3. Queue(s) = outq[c]
      BY <1>0, <3>2 DEF Linked, Queue
    <3> QED BY <2>3, <2>5, <3>1, <3>3
  <2> QED BY <2>1, <2>2, <2>4, <2>5
<1>2. ASSUME NEW t, t \in Stripped(OutTokens) PROVE t \in Outward
  <2>1. PICK u \in OutTokens : t = Strip(u)
    BY <1>2 DEF Stripped
  <2>2. PICK s \in Server : u \in Asked(s) \/ u \in work[s]
    BY OutAt
  <2>3. CASE u \in work[s]
    BY <2>1, <2>3 DEF Outward, Strip
  <2>4. CASE u \in Asked(s)
    <3>1. PICK n \in DOMAIN Queue(s) : Queue(s)[n].type = "CommReq" /\ u = Token(Queue(s)[n])
      BY <2>4, TokenAt DEF Asked
    <3>2. PICK m : m = Queue(s)[n]
      OBVIOUS
    <3>3. m.type = "CommReq" /\ t = [info |-> m.info, grp |-> m.grp, obj |-> m.dst]
      BY <2>1, <3>1, <3>2 DEF Strip, Token
    <3>4. m \in Queues(pending) \cup Queues(outq)
      <4>1. CASE localMap[s] = NoChan
        <5>1. Queue(s) = pending[s]
          BY <4>1 DEF Queue
        <5> QED BY <1>0, <3>1, <3>2, <5>1, QueuesAt
      <4>2. CASE localMap[s] # NoChan
        <5>1. Queue(s) = outq[srvChan[s]] /\ srvChan[s] \in Chan
          BY <1>0, <4>2, QueueTypes DEF Queue
        <5> QED BY <1>0, <3>1, <3>2, <5>1, QueuesAt
      <4> QED BY <4>1, <4>2
    <3> QED BY <3>3, <3>4 DEF Outward
  <2> QED BY <2>2, <2>3, <2>4
<1> QED BY <1>1, <1>2

LEMMA InwardIs == Sound => Inward = Stripped(InTokens)
<1> SUFFICES ASSUME Sound PROVE Inward = Stripped(InTokens)
  OBVIOUS
<1>0. DOMAIN inq = Chan /\ Linked /\ NoChan \notin Chan /\ RtrTypeOK
  BY RouteAssumption DEF Sound, RtrTypeOK
<1>1. ASSUME NEW t, t \in Inward PROVE t \in Stripped(InTokens)
  <2>1. PICK m \in Queues(inq) : m.type = "CommResp" /\ t = [info |-> m.info, grp |-> m.grp, obj |-> m.obj]
    BY <1>1 DEF Inward
  <2>2. PICK c \in Chan : \E n \in DOMAIN inq[c] : m = inq[c][n]
    BY <1>0, QueuesAt
  <2>3. PICK s \in Server : srvChan[s] = c
    BY <1>0, <2>1, <2>2 DEF Linked
  <2>4. Back(s) = inq[c]
    BY <1>0, <2>3 DEF Back
  <2>5. Token(m) \in Returned(s)
    BY <2>1, <2>2, <2>4, TokenAt DEF Returned
  <2>6. Strip(Token(m)) = t
    BY <2>1 DEF Strip, Token
  <2> QED BY <2>5, <2>6, OutAt DEF Stripped
<1>2. ASSUME NEW t, t \in Stripped(InTokens) PROVE t \in Inward
  <2>1. PICK u \in InTokens : t = Strip(u)
    BY <1>2 DEF Stripped
  <2>2. PICK s \in Server : u \in Returned(s)
    BY OutAt
  <2>3. PICK n \in DOMAIN Back(s) : Back(s)[n].type = "CommResp" /\ u = Token(Back(s)[n])
    BY <2>2, TokenAt DEF Returned
  <2>4. PICK m : m = Back(s)[n]
    OBVIOUS
  <2>5. m.type = "CommResp" /\ t = [info |-> m.info, grp |-> m.grp, obj |-> m.obj]
    BY <2>1, <2>3, <2>4 DEF Strip, Token
  <2>6. srvChan[s] \in Chan /\ Back(s) = inq[srvChan[s]]
    <3>1. Back(s) # <<>>
      BY <2>3
    <3> QED BY <1>0, <3>1 DEF Back, RtrTypeOK
  <2>7. m \in Queues(inq)
    BY <1>0, <2>3, <2>4, <2>6, QueuesAt
  <2> QED BY <2>5, <2>7 DEF Inward
<1> QED BY <1>1, <1>2

-----------------------------------------------------------------------------
(* What each step does to the tokens.                                      *)
LEMMA TokensSame ==
  ASSUME \A s \in Server : Asked(s)' \cup work'[s] = Asked(s) \cup work[s] /\ Returned(s)' = Returned(s)
  PROVE  OutTokens' = OutTokens /\ InTokens' = InTokens
<1>1. /\ \A t : t \in OutTokens' <=> \E s \in Server : t \in Asked(s)' \cup work'[s]
      /\ \A t : t \in InTokens' <=> \E s \in Server : t \in Returned(s)'
  BY DEF OutTokens, InTokens, Outs
<1>2. /\ \A t : t \in OutTokens <=> \E s \in Server : t \in Asked(s) \cup work[s]
      /\ \A t : t \in InTokens <=> \E s \in Server : t \in Returned(s)
  BY DEF OutTokens, InTokens, Outs
<1> QED BY <1>1, <1>2

LEMMA NoneAsked ==
  ASSUME RtrTypeOK, Linked, NEW s \in Server, NEW r \in Seq(ForServers \cup Answers),
         \A n \in DOMAIN r : r[n].type # "CommReq",
         Queue(s)' = Queue(s) \o r \/ Queue(s)' = r \o Queue(s)
  PROVE  Asked(s)' = Asked(s)
<1>1. PICK q \in Seq(ForServers \cup Answers) : q = Queue(s)
  BY QueueTypes
<1>2. Tokens(r, "CommReq") = {}
  BY NoTokens
<1>3. Tokens(q \o r, "CommReq") = Tokens(q, "CommReq") \cup Tokens(r, "CommReq")
  BY JoinTokens
<1>4. Tokens(r \o q, "CommReq") = Tokens(r, "CommReq") \cup Tokens(q, "CommReq")
  BY JoinTokens
<1>5. PICK p : p = Queue(s)'
  OBVIOUS
<1>6. Tokens(p, "CommReq") = Tokens(q, "CommReq")
  BY <1>1, <1>2, <1>3, <1>4, <1>5
<1> QED BY <1>1, <1>5, <1>6 DEF Asked

LEMMA CreateTokens ==
  ASSUME Calm, Sound, NEW c \in Chan, RtrCommCreate(c)
  PROVE  OutTokens' = OutTokens /\ InTokens' = InTokens
<1>0. RtrTypeOK /\ Plugged /\ Linked
  BY DEF Sound
<1>1. /\ UNCHANGED <<localMap, srvChan, work>>
      /\ \E ms \in Seq(ForServers) : Send(ms) /\ \A n \in DOMAIN ms : ms[n].type = "CommCreate"
  BY CreateGoes DEF srvVars
<1>2. PICK ms \in Seq(ForServers) : Send(ms) /\ \A n \in DOMAIN ms : ms[n].type = "CommCreate"
  BY <1>1
<1>3. \A s \in Server : Back(s)' = Back(s)
  BY <1>0, <1>1, ClientRead DEF RtrCommCreate
<1>4. \A s \in Server : Queue(s)' = Queue(s) \o Added(ms)[s]
  BY <1>0, <1>1, <1>2, SendQueue
<1>5. ASSUME NEW s \in Server
      PROVE  Asked(s)' = Asked(s)
  <2>1. /\ Added(ms)[s] \in Seq(ForServers)
        /\ \A x : x \in Range(Added(ms)[s]) <=> \E n \in DOMAIN ms : Home[ms[n].dst] = s /\ x = ms[n]
    BY AddedFacts, Zenon
  <2>2. PICK r \in Seq(ForServers) : r = Added(ms)[s]
    BY <2>1
  <2>3. \A n \in DOMAIN r : r[n] \in Range(r)
    BY DEF Range
  <2>4. \A x \in Range(r) : x.type # "CommReq"
    BY <1>2, <2>1, <2>2
  <2>5. \A n \in DOMAIN r : r[n].type # "CommReq"
    BY <2>3, <2>4
  <2>6. r \in Seq(ForServers \cup Answers)
    OBVIOUS
  <2> QED BY <1>0, <1>4, <2>2, <2>5, <2>6, NoneAsked
<1>6. \A s \in Server : Returned(s)' = Returned(s)
  BY <1>3 DEF Returned
<1> QED BY <1>1, <1>5, <1>6, TokensSame

LEMMA ConnectTokens ==
  ASSUME Sound, NEW c \in Chan, RtrServerConnect(c)
  PROVE  OutTokens' = OutTokens /\ InTokens' = InTokens
<1>0. RtrTypeOK /\ Plugged /\ Linked
  BY DEF Sound
<1>1. /\ \A s \in Server : \E p \in Seq(Answers) : Queue(s)' = p \o Queue(s)
      /\ UNCHANGED <<srvChan, work>>
  BY <1>0, ConnectQueue
<1>2. Receive(c, "server", "ServerConnect") /\ Head(inq[c]).type = "ServerConnect"
  BY DEF RtrServerConnect, Receive
<1>3. PICK s \in Server : /\ Back(s) # <<>> /\ Back(s)[1] = Head(inq[c]) /\ Back(s)' = Tail(Back(s))
                          /\ \A t \in Server : t # s => Back(t)' = Back(t)
  BY <1>0, <1>1, <1>2, ServerRead
<1>4. ASSUME NEW t \in Server
      PROVE  Asked(t)' = Asked(t)
  <2>1. PICK p \in Seq(Answers) : Queue(t)' = p \o Queue(t)
    BY <1>1
  <2>2. \A n \in DOMAIN p : p[n] \in Answers
    OBVIOUS
  <2>3. \A a \in Answers : a.type # "CommReq"
    BY DEF Answers
  <2>4. p \in Seq(ForServers \cup Answers)
    OBVIOUS
  <2>5. \A n \in DOMAIN p : p[n].type # "CommReq"
    BY <2>2, <2>3
  <2> QED BY <1>0, <2>1, <2>4, <2>5, NoneAsked
<1>5. Returned(s)' = Returned(s)
  <2>1. PICK b \in Seq(ForRouter) : b = Back(s)
    BY <1>0, BackTypes
  <2>2. Once(b, "CommResp")
    BY <2>1, TokensKnown
  <2>3. b # <<>> /\ b[1].type # "CommResp" /\ Back(s)' = Tail(b)
    BY <1>2, <1>3, <2>1
  <2>4. Tokens(Tail(b), "CommResp") = Tokens(b, "CommResp")
    BY <2>2, <2>3, TailTokens
  <2> QED BY <2>1, <2>3, <2>4 DEF Returned
<1>6. \A t \in Server : Returned(t)' = Returned(t)
  BY <1>3, <1>5 DEF Returned
<1> QED BY <1>1, <1>4, <1>6, TokensSame

LEMMA PeersTokens ==
  ASSUME Sound,
         \/ \E c \in Chan : AcceptClient(c) \/ CliRead(c)
         \/ \E c \in Chan, q \in ReqId, k \in CommId, op \in ReqOp : CliAsk(c, q, k, op)
         \/ \E c \in Chan, s \in Server : AcceptServer(c, s)
         \/ UNCHANGED vars
  PROVE  OutTokens' = OutTokens /\ InTokens' = InTokens
<1>0. RtrTypeOK /\ Plugged /\ Linked
  BY DEF Sound
<1>1. \A s \in Server : Queue(s)' = Queue(s)
  BY <1>0, QuietQueue DEF QuietStep
<1>2. \A s \in Server : Asked(s)' = Asked(s)
  BY <1>1 DEF Asked
<1>3. ASSUME UNCHANGED work, \A s \in Server : Back(s)' = Back(s)
      PROVE  OutTokens' = OutTokens /\ InTokens' = InTokens
  <2>1. \A s \in Server : Returned(s)' = Returned(s)
    BY <1>3 DEF Returned
  <2> QED BY <1>2, <1>3, <2>1, TokensSame
<1>4. ASSUME NEW c \in Chan, CliRead(c)
      PROVE  OutTokens' = OutTokens /\ InTokens' = InTokens
  <2>1. UNCHANGED <<work, srvChan, inq>>
    BY <1>4 DEF CliRead, srvVars
  <2>2. \A s \in Server : Back(s)' = Back(s)
    BY <2>1 DEF Back
  <2> QED BY <1>3, <2>1, <2>2
<1>5. ASSUME NEW c \in Chan, AcceptClient(c)
      PROVE  OutTokens' = OutTokens /\ InTokens' = InTokens
  <2>1. UNCHANGED <<work, srvChan>> /\ kind[c] = "free" /\ \A d \in Chan : d # c => inq'[d] = inq[d]
    BY <1>0, <1>5 DEF AcceptClient, Accept, RtrTypeOK, srvVars
  <2>2. \A s \in Server : Back(s)' = Back(s)
    BY <1>0, <2>1, BackOther
  <2> QED BY <1>3, <2>1, <2>2
<1>6. ASSUME NEW c \in Chan, NEW q \in ReqId, NEW k \in CommId, NEW op \in ReqOp, CliAsk(c, q, k, op)
      PROVE  OutTokens' = OutTokens /\ InTokens' = InTokens
  <2>1. UNCHANGED <<work, srvChan>> /\ kind[c] = "client" /\ \A d \in Chan : d # c => inq'[d] = inq[d]
    BY <1>0, <1>6 DEF CliAsk, IsClient, RtrTypeOK, srvVars
  <2>2. \A s \in Server : Back(s)' = Back(s)
    BY <1>0, <2>1, BackOther
  <2> QED BY <1>3, <2>1, <2>2
<1>7. ASSUME NEW c \in Chan, NEW s \in Server, AcceptServer(c, s)
      PROVE  OutTokens' = OutTokens /\ InTokens' = InTokens
  <2> DEFINE first == [type |-> "ServerConnect", srv |-> s]
  <2>1. /\ kind[c] = "free" /\ srvChan[s] = NoChan
        /\ \A t \in Server : srvChan'[t] = IF t = s THEN c ELSE srvChan[t]
        /\ \A t \in Server : work'[t] = IF t = s THEN {} ELSE work[t]
        /\ \A d \in Chan : inq'[d] = IF d = c THEN <<first>> ELSE inq[d]
    BY <1>0, <1>7 DEF AcceptServer, Accept, RtrTypeOK
  <2>2. work[s] = {} /\ c # NoChan
    <3>1. localMap[s] = NoChan
      BY <1>0, <2>1 DEF Linked
    <3> QED BY <1>0, <3>1, RouteAssumption DEF Linked
  <2>3. ASSUME NEW t \in Server, t # s
        PROVE  Back(t)' = Back(t)
    <3>1. srvChan[t] # NoChan => srvChan[t] \in Chan /\ srvChan[t] # c
      BY <1>0, <2>1 DEF Plugged, RtrTypeOK
    <3> QED BY <2>1, <2>3, <3>1 DEF Back
  <2>4. Back(s) = <<>> /\ Back(s)' = <<first>>
    BY <2>1, <2>2 DEF Back
  <2>5. Tokens(<<>>, "CommResp") = {} /\ Tokens(<<first>>, "CommResp") = {}
    <3>1. DOMAIN <<>> = {} /\ DOMAIN <<first>> = {1} /\ <<first>>[1].type = "ServerConnect"
      OBVIOUS
    <3> QED BY <3>1, NoTokens
  <2>6. Returned(s)' = Returned(s)
    BY <2>4, <2>5 DEF Returned
  <2>7. \A t \in Server : work'[t] = work[t] /\ Returned(t)' = Returned(t)
    BY <2>1, <2>2, <2>3, <2>6 DEF Returned
  <2> QED BY <1>2, <2>7, TokensSame
<1>8. CASE UNCHANGED vars
  <2>1. UNCHANGED <<work, srvChan, inq>>
    BY <1>8 DEF vars, srvVars
  <2>2. \A s \in Server : Back(s)' = Back(s)
    BY <2>1 DEF Back
  <2> QED BY <1>3, <2>1, <2>2
<1> QED BY <1>4, <1>5, <1>6, <1>7, <1>8

LEMMA ServerTokens ==
  ASSUME Sound, NEW s \in Server, SrvCommCreate(s) \/ SrvCommDestroy(s) \/ SrvCommReq(s)
  PROVE  OutTokens' = OutTokens /\ InTokens' = InTokens
<1>0. RtrTypeOK /\ Plugged /\ Linked /\ InPlace
  BY DEF Sound
<1>1. PICK q \in Seq(ForServers \cup Answers) : q = Queue(s)
  BY <1>0, QueueTypes
<1>2. PICK type : type = Head(outq[srvChan[s]]).type
  OBVIOUS
<1>3. SrvTakes(s, type) /\ type \in {"CommCreate", "CommDestroy", "CommReq"}
  BY <1>2 DEF SrvCommCreate, SrvCommDestroy, SrvCommReq, SrvTakes
<1>4. UNCHANGED <<localMap, srvChan, pending, inq>>
  BY DEF SrvCommCreate, SrvCommDestroy, SrvCommReq, rtrVars
<1>5. /\ Queue(s)' = Tail(q) /\ q # <<>> /\ q = outq[srvChan[s]]
      /\ \A t \in Server : t # s => Queue(t)' = Queue(t)
  BY <1>0, <1>1, <1>3, <1>4, TakesTail
<1>6. Head(q) = q[1] /\ q[1] \in ForServers \cup Answers /\ q[1].type = type /\ 1 \in DOMAIN q
  BY <1>2, <1>5, TailAt
<1>7. \A t \in Server : Returned(t)' = Returned(t)
  BY <1>4 DEF Back, Returned
<1>8. Once(q, "CommReq")
  BY <1>1, TokensKnown
<1>9. \A t \in Server : t # s => Asked(t)' = Asked(t)
  BY <1>5 DEF Asked
<1>10. Asked(s)' = Tokens(Tail(q), "CommReq") /\ Asked(s) = Tokens(q, "CommReq")
  BY <1>1, <1>5 DEF Asked
<1>11. CASE SrvCommCreate(s) \/ SrvCommDestroy(s)
  <2>1. work' = work /\ type # "CommReq"
    BY <1>2, <1>11 DEF SrvCommCreate, SrvCommDestroy, SrvTakes
  <2>2. Tokens(Tail(q), "CommReq") = Tokens(q, "CommReq")
    BY <1>5, <1>6, <1>8, <2>1, TailTokens
  <2>3. \A t \in Server : Asked(t)' = Asked(t)
    BY <1>9, <1>10, <2>2
  <2> QED BY <1>7, <2>1, <2>3, TokensSame
<1>12. CASE SrvCommReq(s)
  <2>1. PICK m : m = q[1]
    OBVIOUS
  <2>2. m.type = "CommReq" /\ m \in Copied
    BY <1>2, <1>6, <1>12, <2>1, MessageTypes DEF SrvCommReq, SrvTakes
  <2>3. Stands(q, objs[s][m.comm], m.comm, 1, m.dst)
    BY <1>0, <1>1, <1>6, <2>1, <2>2 DEF InPlace
  <2>4. objs[s][m.comm] = m.dst
    <3>1. PICK b, k, o : b = objs[s][m.comm] /\ k = m.comm /\ o = m.dst
      OBVIOUS
    <3>2. Stands(q, b, k, 1, o)
      BY <2>3, <3>1
    <3>3. b = o
      BY <3>2 DEF Stands
    <3> QED BY <3>1, <3>3
  <2>5. /\ work' = [work EXCEPT ![s] = work[s] \cup
                      {[op |-> m.op, info |-> m.info, grp |-> m.grp, obj |-> objs[s][m.comm]]}]
    BY <1>5, <1>6, <1>12, <2>1 DEF SrvCommReq
  <2>6. Token(m) = [op |-> m.op, info |-> m.info, grp |-> m.grp, obj |-> objs[s][m.comm]]
    BY <2>2, <2>4 DEF Token
  <2>7. \A t \in Server : work'[t] = IF t = s THEN work[s] \cup {Token(m)} ELSE work[t]
    BY <1>0, <2>5, <2>6 DEF RtrTypeOK
  <2>8. Token(m) \in Tokens(q, "CommReq") /\ Tokens(Tail(q), "CommReq") = Tokens(q, "CommReq") \ {Token(m)}
    BY <1>5, <1>8, <2>1, <2>2, TailTokens
  <2>9. \A t \in Server : Asked(t)' \cup work'[t] = Asked(t) \cup work[t]
    BY <1>9, <1>10, <2>7, <2>8
  <2> QED BY <1>7, <2>9, TokensSame
<1> QED BY <1>11, <1>12

LEMMA RequestTokens ==
  ASSUME Calm, Sound, NEW c \in Chan, NEW i \in InfoId, RtrCommReq(c, i),
         NEW m, m = inq[c][1]
  PROVE  /\ InTokens' = InTokens
         /\ \A t : t \in OutTokens' <=>
              \/ t \in OutTokens
              \/ \E g \in Groups(m.comm) : \E o \in Mem(m.comm, g) :
                   t = [op |-> m.op, info |-> i, grp |-> g, obj |-> o]
<1>0. RtrTypeOK /\ Plugged /\ Linked
  BY DEF Sound
<1>1. m \in AskedFor /\ Send(CopiesOf(m, i)) /\ UNCHANGED <<localMap, srvChan, work>>
  BY RequestGoes DEF srvVars
<1>2. PICK k \in CommId, op \in ReqOp : k = m.comm /\ op = m.op
  BY <1>1 DEF AskedFor
<1>3. PICK ms : ms = CopiesOf(m, i)
  OBVIOUS
<1>4. /\ ms \in Seq(ForServers) /\ Send(ms)
      /\ \A x : x \in Range(ms) <=> \E g \in Groups(k) : \E o \in Mem(k, g) : x = Copy(op, k, i, g, o)
  <2>1. /\ CopiesOf(m, i) \in Seq(ForServers)
        /\ \A x : x \in Range(CopiesOf(m, i)) <=>
             \E g \in Groups(m.comm) : \E o \in Range(Members[m.comm][g]) :
               x = Copy(m.op, m.comm, i, g, o)
    BY <1>1, CopiesFacts
  <2> QED BY <1>1, <1>2, <1>3, <2>1 DEF Mem
<1>5. \A s \in Server : Back(s)' = Back(s)
  BY <1>0, <1>1, ClientRead DEF RtrCommReq
<1>6. \A s \in Server : Returned(s)' = Returned(s)
  BY <1>5 DEF Returned
<1>7. \A s \in Server : Queue(s)' = Queue(s) \o Added(ms)[s]
  BY <1>0, <1>1, <1>4, SendQueue
<1>8. \A g, o : Token(Copy(op, k, i, g, o)) = [op |-> op, info |-> i, grp |-> g, obj |-> o]
  BY DEF Token, Copy
<1>9. ASSUME NEW s \in Server
      PROVE  \A t : t \in Asked(s)' <=>
               \/ t \in Asked(s)
               \/ \E g \in Groups(k) : \E o \in Mem(k, g) :
                    Home[o] = s /\ t = [op |-> op, info |-> i, grp |-> g, obj |-> o]
  <2>1. /\ Added(ms)[s] \in Seq(ForServers)
        /\ \A x : x \in Range(Added(ms)[s]) <=> \E n \in DOMAIN ms : Home[ms[n].dst] = s /\ x = ms[n]
    BY <1>4, AddedFacts, Zenon
  <2>2. PICK r \in Seq(ForServers \cup Answers) : r = Added(ms)[s]
    BY <2>1
  <2>3. PICK q \in Seq(ForServers \cup Answers) : q = Queue(s)
    BY <1>0, QueueTypes
  <2>4. Tokens(q \o r, "CommReq") = Tokens(q, "CommReq") \cup Tokens(r, "CommReq")
    BY JoinTokens
  <2>5. Asked(s)' = Asked(s) \cup Tokens(r, "CommReq")
    BY <1>7, <2>2, <2>3, <2>4 DEF Asked
  <2>6. ASSUME NEW t \in Tokens(r, "CommReq")
        PROVE  \E g \in Groups(k) : \E o \in Mem(k, g) :
                 Home[o] = s /\ t = [op |-> op, info |-> i, grp |-> g, obj |-> o]
    <3>1. PICK n \in DOMAIN r : t = Token(r[n])
      BY TokenAt
    <3>2. r[n] \in Range(Added(ms)[s])
      BY <2>2 DEF Range
    <3>3. PICK a \in DOMAIN ms : Home[ms[a].dst] = s /\ r[n] = ms[a]
      BY <2>1, <3>2, Zenon
    <3>4. r[n] \in Range(ms)
      BY <3>3 DEF Range
    <3>5. PICK g \in Groups(k) : \E o \in Mem(k, g) : r[n] = Copy(op, k, i, g, o)
      BY <1>4, <3>4
    <3>6. PICK o \in Mem(k, g) : r[n] = Copy(op, k, i, g, o)
      BY <3>5
    <3>7. Home[o] = s
      BY <3>3, <3>6 DEF Copy
    <3>8. t = [op |-> op, info |-> i, grp |-> g, obj |-> o]
      BY <1>8, <3>1, <3>6
    <3> QED BY <3>7, <3>8
  <2>7. ASSUME NEW t, NEW g \in Groups(k), NEW o \in Mem(k, g), Home[o] = s,
               t = [op |-> op, info |-> i, grp |-> g, obj |-> o]
        PROVE  t \in Tokens(r, "CommReq")
    <3>1. PICK x : x = Copy(op, k, i, g, o)
      OBVIOUS
    <3>2. x \in Range(ms) /\ x.dst = o /\ x.type = "CommReq" /\ Token(x) = t
      BY <1>4, <1>8, <2>7, <3>1 DEF Copy
    <3>3. PICK a \in DOMAIN ms : ms[a] = x
      BY <3>2 DEF Range
    <3>4. x \in Range(r)
      BY <2>1, <2>2, <2>7, <3>2, <3>3, Zenon
    <3>5. PICK n \in DOMAIN r : r[n] = x
      BY <3>4 DEF Range
    <3> QED BY <3>2, <3>5, TokenAt
  <2> QED BY <2>5, <2>6, <2>7
<1>10. ASSUME NEW g \in Groups(k), NEW o \in Mem(k, g)
       PROVE  Home[o] \in Server
  <2>1. o \in MembersOf(k)
    BY DEF Mem, MembersOf
  <2>2. o \in Obj
    BY <2>1, GroupFacts
  <2> QED BY <2>1, <2>2, RouteAssumption DEF Calm
<1>11. InTokens' = InTokens
  BY <1>6 DEF InTokens
<1>12. \A t : t \in OutTokens' <=> \E s \in Server : t \in Asked(s)' \/ t \in work[s]
  BY <1>1 DEF OutTokens, Outs
<1>13. ASSUME NEW t
       PROVE  t \in OutTokens' <=>
                \/ t \in OutTokens
                \/ \E g \in Groups(k) : \E o \in Mem(k, g) :
                     t = [op |-> op, info |-> i, grp |-> g, obj |-> o]
  <2>1. CASE t \in OutTokens
    BY <1>9, <1>12, <2>1, OutAt
  <2>2. ASSUME NEW g \in Groups(k), NEW o \in Mem(k, g), t = [op |-> op, info |-> i, grp |-> g, obj |-> o]
        PROVE  t \in OutTokens'
    BY <1>9, <1>10, <1>12, <2>2
  <2>3. ASSUME t \in OutTokens', t \notin OutTokens
        PROVE  \E g \in Groups(k) : \E o \in Mem(k, g) : t = [op |-> op, info |-> i, grp |-> g, obj |-> o]
    <3>1. PICK s \in Server : t \in Asked(s)'
      BY <1>12, <2>3, OutAt
    <3>2. t \notin Asked(s)
      BY <2>3, OutAt
    <3> QED BY <1>9, <3>1, <3>2
  <2> QED BY <2>1, <2>2, <2>3
<1> QED BY <1>2, <1>11, <1>13

LEMMA ReplyTokens ==
  ASSUME Sound, NEW s \in Server, NEW w \in work[s], SrvReply(s, w)
  PROVE  /\ w \in OutTokens /\ OutTokens' = OutTokens \ {w}
         /\ InTokens' = InTokens \cup {w}
<1>0. RtrTypeOK /\ Plugged /\ Linked
  BY DEF Sound
<1>1. /\ \A t \in Server : work'[t] = IF t = s THEN work[s] \ {w} ELSE work[t]
      /\ UNCHANGED srvChan
      /\ inq' = [inq EXCEPT ![srvChan[s]] = Append(inq[srvChan[s]], Response(w))]
  BY <1>0 DEF SrvReply, RtrTypeOK
<1>2. PICK c \in Chan : c = srvChan[s] /\ c # NoChan
  <2>1. localMap[s] # NoChan
    BY <1>0 DEF Linked
  <2> QED BY <1>0, <2>1, QueueTypes, RouteAssumption
<1>3. w \in Works
  BY <1>0 DEF RtrTypeOK
<1>4. PICK m : m = Response(w)
  OBVIOUS
<1>5. m \in ForRouter /\ m.type = "CommResp" /\ Token(m) = w
  BY <1>3, <1>4 DEF Response, Works, ForRouter, Responses, Token
<1>6. inq'[c] = Append(inq[c], m) /\ \A d \in Chan : d # c => inq'[d] = inq[d]
  BY <1>0, <1>1, <1>2, <1>4 DEF RtrTypeOK
<1>7. Back(s)' = Append(Back(s), m)
  BY <1>1, <1>2, <1>6 DEF Back
<1>8. ASSUME NEW t \in Server, t # s
      PROVE  Returned(t)' = Returned(t)
  <2>1. srvChan[t] # NoChan => srvChan[t] \in Chan /\ srvChan[t] # c
    BY <1>0, <1>2, <1>8 DEF Plugged, RtrTypeOK
  <2>2. Back(t)' = Back(t)
    BY <1>1, <1>6, <2>1 DEF Back
  <2> QED BY <2>2 DEF Returned
<1>9. Returned(s)' = Returned(s) \cup {w}
  <2>1. PICK b \in Seq(ForRouter) : b = Back(s)
    BY <1>0, BackTypes
  <2>2. Once(b, "CommResp")
    BY <2>1, TokensKnown
  <2>3. Tokens(Append(b, m), "CommResp") = Tokens(b, "CommResp") \cup {w}
    BY <1>5, <2>2, AppendTokens
  <2> QED BY <1>7, <2>1, <2>3 DEF Returned
<1>10. \A t \in Server : Asked(t)' = Asked(t)
  <2>1. \A t \in Server : Queue(t)' = Queue(t)
    BY <1>0, QuietQueue DEF QuietStep
  <2> QED BY <2>1 DEF Asked
<1>11. /\ \A t : t \in OutTokens' <=> \E r \in Server : t \in Asked(r)' \/ t \in work'[r]
       /\ \A t : t \in InTokens' <=> \E r \in Server : t \in Returned(r)'
  BY DEF OutTokens, InTokens, Outs
<1>12. w \in OutTokens
  BY OutAt
<1>13. ASSUME NEW r \in Server, w \in Asked(r) \/ w \in work[r]
       PROVE  r = s /\ w \notin Asked(r)
  <2>1. r = s
    BY <1>13, TokensKnown
  <2> QED BY <2>1, TokensKnown
<1>14. OutTokens' = OutTokens \ {w}
  <2>1. ASSUME NEW t, t \in OutTokens' PROVE t \in OutTokens \ {w}
    <3>1. PICK r \in Server : t \in Asked(r) \/ t \in work'[r]
      BY <1>10, <1>11, <2>1
    <3>2. t \in Asked(r) \/ t \in work[r]
      BY <1>1, <3>1
    <3>3. t # w
      BY <1>1, <1>13, <3>1, <3>2
    <3> QED BY <3>2, <3>3, OutAt
  <2>2. ASSUME NEW t, t \in OutTokens \ {w} PROVE t \in OutTokens'
    <3>1. PICK r \in Server : t \in Asked(r) \/ t \in work[r]
      BY <2>2, OutAt
    <3>2. t \in Asked(r)' \/ t \in work'[r]
      BY <1>1, <1>10, <2>2, <3>1
    <3> QED BY <1>11, <3>2
  <2> QED BY <2>1, <2>2
<1>15. InTokens' = InTokens \cup {w}
  <2>1. \A r \in Server : Returned(r)' = IF r = s THEN Returned(r) \cup {w} ELSE Returned(r)
    BY <1>8, <1>9
  <2>2. ASSUME NEW t
        PROVE  t \in InTokens' <=> t \in InTokens \cup {w}
    <3>1. t \in InTokens' => t \in InTokens \cup {w}
      BY <1>11, <2>1, OutAt
    <3>2. t \in InTokens \cup {w} => t \in InTokens'
      BY <1>11, <2>1, OutAt
    <3> QED BY <3>1, <3>2
  <2> QED BY <2>2
<1> QED BY <1>12, <1>14, <1>15

LEMMA TakesResponse ==
  ASSUME Sound, NEW c \in Chan, RtrCommResp(c) \/ RtrOneResp(c), NEW u, u = Token(Head(inq[c]))
  PROVE  /\ OutTokens' = OutTokens
         /\ u \in InTokens /\ InTokens' = InTokens \ {u}
<1>0. RtrTypeOK /\ Plugged /\ Linked
  BY DEF Sound
<1>1. /\ Receive(c, "server", "CommResp") /\ Head(inq[c]).type = "CommResp"
      /\ UNCHANGED <<localMap, srvChan, pending, work>>
  BY DEF RtrCommResp, RtrOneResp, Receive, srvVars
<1>2. PICK s \in Server :
        /\ srvChan[s] = c /\ Back(s) # <<>> /\ Back(s)[1] = Head(inq[c]) /\ Back(s)' = Tail(Back(s))
        /\ \A t \in Server : t # s => Back(t)' = Back(t)
  BY <1>0, <1>1, ServerRead
<1>3. \A t \in Server : t # s => Returned(t)' = Returned(t)
  BY <1>2 DEF Returned
<1>4. u \in Returned(s) /\ Returned(s)' = Returned(s) \ {u}
  <2>1. PICK b \in Seq(ForRouter) : b = Back(s)
    BY <1>0, BackTypes
  <2>2. Once(b, "CommResp")
    BY <2>1, TokensKnown
  <2>3. b # <<>> /\ b[1].type = "CommResp" /\ u = Token(b[1]) /\ Back(s)' = Tail(b)
    BY <1>1, <1>2, <2>1
  <2>4. u \in Tokens(b, "CommResp") /\ Tokens(Tail(b), "CommResp") = Tokens(b, "CommResp") \ {u}
    BY <2>2, <2>3, TailTokens
  <2> QED BY <2>1, <2>3, <2>4 DEF Returned
<1>5. \A d \in Chan : outq'[d] = outq[d] \/ \E a \in Answers : outq'[d] = Append(outq[d], a)
  BY <1>0, RespOut
<1>6. \A t \in Server : Queue(t)' = Queue(t) \/ \E a \in Answers : Queue(t)' = Append(Queue(t), a)
  BY <1>0, <1>1, <1>5, AnswerQueue
<1>7. ASSUME NEW t \in Server
      PROVE  Asked(t)' = Asked(t)
  <2>1. PICK q \in Seq(ForServers \cup Answers) : q = Queue(t)
    BY <1>0, QueueTypes
  <2>2. Once(q, "CommReq")
    BY <2>1, TokensKnown
  <2>3. ASSUME NEW a \in Answers
        PROVE  Tokens(Append(q, a), "CommReq") = Tokens(q, "CommReq")
    <3>1. a \in ForServers \cup Answers /\ a.type # "CommReq"
      BY DEF Answers
    <3> QED BY <2>2, <3>1, AppendTokens
  <2>4. PICK p : p = Queue(t)'
    OBVIOUS
  <2>5. Tokens(p, "CommReq") = Tokens(q, "CommReq")
    BY <1>6, <2>1, <2>3, <2>4
  <2> QED BY <2>1, <2>4, <2>5 DEF Asked
<1>8. OutTokens' = OutTokens
  <2>1. \A t : t \in OutTokens' <=> \E r \in Server : t \in Asked(r)' \/ t \in work'[r]
    BY DEF OutTokens, Outs
  <2> QED BY <1>1, <1>7, <2>1, OutAt
<1>9. \A t : t \in InTokens' <=> \E r \in Server : t \in Returned(r)'
  BY DEF InTokens
<1>10. ASSUME NEW r \in Server, u \in Returned(r) PROVE r = s
  BY <1>4, <1>10, TokensKnown
<1>11. InTokens' = InTokens \ {u}
  <2>1. ASSUME NEW t, t \in InTokens' PROVE t \in InTokens \ {u}
    <3>1. PICK r \in Server : t \in Returned(r)'
      BY <1>9, <2>1
    <3>2. CASE r = s
      BY <1>4, <3>1, <3>2, OutAt
    <3>3. CASE r # s
      BY <1>3, <1>10, <3>1, <3>3, OutAt
    <3> QED BY <3>2, <3>3
  <2>2. ASSUME NEW t, t \in InTokens \ {u} PROVE t \in InTokens'
    <3>1. PICK r \in Server : t \in Returned(r)
      BY <2>2, OutAt
    <3>2. t \in Returned(r)'
      BY <1>3, <1>4, <2>2, <3>1
    <3> QED BY <1>9, <3>2
  <2> QED BY <2>1, <2>2
<1>12. u \in InTokens
  BY <1>4, OutAt
<1> QED BY <1>8, <1>11, <1>12

-----------------------------------------------------------------------------
(* What Aggregation calls the requests on their way.                       *)
Req(c, m) == [src |-> c, id |-> m.id, comm |-> m.comm]
ReqsOf(c, q) == {Req(c, q[n]) : n \in Places(q, "CommReq")}

OnWire(c, q) ==
  {[src |-> c, id |-> m.id, comm |-> m.comm] : m \in {m \in Range(q) : m.type = "CommReq"}}

LEMMA OnWireIs ==
  ASSUME NEW c, NEW q
  PROVE  OnWire(c, q) = ReqsOf(c, q)
BY DEF OnWire, ReqsOf, Req, Places, Range

LEMMA RequestedIs ==
  /\ \A r : r \in Requested <=> \E c \in Chan : r \in ReqsOf(c, inq[c])
  /\ \A r : r \in Requested' <=> \E c \in Chan : r \in ReqsOf(c, inq'[c])
<1>1. /\ Requested = UNION {OnWire(c, inq[c]) : c \in Chan}
      /\ Requested' = UNION {OnWire(c, inq'[c]) : c \in Chan}
  BY DEF Requested, OnWire
<1>2. /\ Requested = UNION {ReqsOf(c, inq[c]) : c \in Chan}
      /\ Requested' = UNION {ReqsOf(c, inq'[c]) : c \in Chan}
  BY <1>1, OnWireIs
<1> QED BY <1>2

LEMMA RequestedSame ==
  ASSUME \A c \in Chan : ReqsOf(c, inq'[c]) = ReqsOf(c, inq[c])
  PROVE  Requested' = Requested
<1>1. \A r : r \in Requested' <=> r \in Requested
  BY RequestedIs
<1>2. Requested' \subseteq Requested /\ Requested \subseteq Requested'
  BY <1>1
<1> QED BY <1>2

LEMMA NoReqs ==
  ASSUME NEW q, NEW c, \A n \in DOMAIN q : q[n].type # "CommReq"
  PROVE  ReqsOf(c, q) = {}
BY DEF ReqsOf, Places

LEMMA ReqsTail ==
  ASSUME NEW T, NEW q \in Seq(T), q # <<>>, NEW c
  PROVE  /\ q[1].type # "CommReq" => ReqsOf(c, Tail(q)) = ReqsOf(c, q)
         /\ q[1].type = "CommReq" => /\ Req(c, q[1]) \in ReqsOf(c, q)
                                     /\ ReqsOf(c, q) = ReqsOf(c, Tail(q)) \cup {Req(c, q[1])}
<1>1. /\ \A n \in Places(Tail(q), "CommReq") : n + 1 \in Places(q, "CommReq") /\ Tail(q)[n] = q[n + 1]
      /\ \A n \in Places(q, "CommReq") : n = 1 \/ (n - 1 \in Places(Tail(q), "CommReq") /\ Tail(q)[n - 1] = q[n])
      /\ q[1].type = "CommReq" => 1 \in Places(q, "CommReq")
  <2>1. /\ \A n \in Places(Tail(q), "CommReq") :
             n + 1 \in Places(q, "CommReq") /\ Tail(q)[n] = q[n + 1] /\ n \in Nat \ {0}
        /\ \A n \in Places(q, "CommReq") :
             n \in Nat /\ (n = 1 \/ (n - 1 \in Places(Tail(q), "CommReq") /\ Tail(q)[n - 1] = q[n]))
        /\ q[1].type = "CommReq" => 1 \in Places(q, "CommReq")
    BY PlaceTail, Zenon
  <2> QED BY <2>1
<1>2. ReqsOf(c, Tail(q)) \subseteq ReqsOf(c, q)
  <2> SUFFICES ASSUME NEW r \in ReqsOf(c, Tail(q)) PROVE r \in ReqsOf(c, q)
    OBVIOUS
  <2>1. PICK n \in Places(Tail(q), "CommReq") : r = Req(c, Tail(q)[n])
    BY DEF ReqsOf
  <2> QED BY <1>1, <2>1 DEF ReqsOf
<1>3. ASSUME NEW r \in ReqsOf(c, q) PROVE r \in ReqsOf(c, Tail(q)) \/ (r = Req(c, q[1]) /\ q[1].type = "CommReq")
  <2>1. PICK n \in Places(q, "CommReq") : r = Req(c, q[n])
    BY DEF ReqsOf
  <2>2. CASE n = 1
    BY <2>1, <2>2 DEF Places
  <2>3. CASE n # 1
    BY <1>1, <2>1, <2>3 DEF ReqsOf
  <2> QED BY <2>2, <2>3
<1>4. q[1].type = "CommReq" => Req(c, q[1]) \in ReqsOf(c, q)
  BY <1>1 DEF ReqsOf
<1> QED BY <1>2, <1>3, <1>4

LEMMA ReqsAdded ==
  ASSUME NEW T, NEW q \in Seq(T), NEW e \in T, NEW c
  PROVE  /\ e.type # "CommReq" => ReqsOf(c, q \o <<e>>) = ReqsOf(c, q)
         /\ e.type = "CommReq" => ReqsOf(c, q \o <<e>>) = ReqsOf(c, q) \cup {Req(c, e)}
<1>0. PICK r : r = q \o <<e>>
  OBVIOUS
<1>1. Lengthened(q, e, r)
  BY <1>0, PlaceAdded
<1>2. /\ \A n \in Places(r, "CommReq") : \/ n \in Places(q, "CommReq") /\ r[n] = q[n]
                                         \/ n = Len(q) + 1 /\ r[n] = e /\ e.type = "CommReq"
      /\ \A n \in Places(q, "CommReq") : n \in Places(r, "CommReq") /\ r[n] = q[n]
      /\ e.type = "CommReq" => Len(q) + 1 \in Places(r, "CommReq") /\ r[Len(q) + 1] = e
  BY <1>1 DEF Lengthened
<1>3. ASSUME NEW x \in ReqsOf(c, r) PROVE x \in ReqsOf(c, q) \/ (x = Req(c, e) /\ e.type = "CommReq")
  <2>1. PICK n \in Places(r, "CommReq") : x = Req(c, r[n])
    BY DEF ReqsOf
  <2> QED BY <1>2, <2>1 DEF ReqsOf
<1>4. ASSUME NEW x \in ReqsOf(c, q) PROVE x \in ReqsOf(c, r)
  <2>1. PICK n \in Places(q, "CommReq") : x = Req(c, q[n])
    BY DEF ReqsOf
  <2> QED BY <1>2, <2>1 DEF ReqsOf
<1>5. e.type = "CommReq" => Req(c, e) \in ReqsOf(c, r)
  BY <1>2 DEF ReqsOf
<1> QED BY <1>0, <1>3, <1>4, <1>5

(* The router reads something else.                                        *)
LEMMA RequestedRead ==
  ASSUME RtrTypeOK, NEW c \in Chan, inq[c] # <<>>, inq[c][1].type # "CommReq",
         inq' = [inq EXCEPT ![c] = Tail(inq[c])]
  PROVE  Requested' = Requested
<1>1. PICK q \in Seq(ForRouter) : q = inq[c]
  BY DEF RtrTypeOK
<1>2. ReqsOf(c, Tail(q)) = ReqsOf(c, q)
  BY <1>1, ReqsTail
<1>3. inq'[c] = Tail(q) /\ \A d \in Chan : d # c => inq'[d] = inq[d]
  BY <1>1 DEF RtrTypeOK
<1>4. \A d \in Chan : ReqsOf(d, inq'[d]) = ReqsOf(d, inq[d])
  BY <1>1, <1>2, <1>3
<1> QED BY <1>4, RequestedSame

(* A request is read: it is not on its way any more.                       *)
LEMMA RequestedLess ==
  ASSUME Sound, NEW c \in Chan, kind[c] = "client", inq[c] # <<>>, inq[c][1].type = "CommReq",
         inq' = [inq EXCEPT ![c] = Tail(inq[c])]
  PROVE  Req(c, inq[c][1]) \in Requested /\ Requested' = Requested \ {Req(c, inq[c][1])}
<1>0. RtrTypeOK
  BY DEF Sound
<1>1. PICK q \in Seq(ForRouter) : q = inq[c]
  BY <1>0 DEF RtrTypeOK
<1>2. PICK x : x = Req(c, q[1])
  OBVIOUS
<1>3. x \in ReqsOf(c, q) /\ ReqsOf(c, q) = ReqsOf(c, Tail(q)) \cup {x}
  BY <1>1, <1>2, ReqsTail
<1>4. x \notin ReqsOf(c, Tail(q))
  <2>1. SUFFICES ASSUME NEW n \in Places(Tail(q), "CommReq"), x = Req(c, Tail(q)[n]) PROVE FALSE
    BY DEF ReqsOf
  <2>2. /\ n + 1 \in Places(q, "CommReq") /\ Tail(q)[n] = q[n + 1] /\ n \in Nat \ {0}
        /\ 1 \in Places(q, "CommReq")
    <3>1. q # <<>> /\ q[1].type = "CommReq"
      BY <1>1
    <3>2. /\ \A l \in Places(Tail(q), "CommReq") :
               l + 1 \in Places(q, "CommReq") /\ Tail(q)[l] = q[l + 1] /\ l \in Nat \ {0}
          /\ q[1].type = "CommReq" => 1 \in Places(q, "CommReq")
      BY <3>1, PlaceTail, Zenon
    <3> QED BY <3>1, <3>2
  <2>3. q[n + 1].id = q[1].id
    <3>1. PICK y, z : y = q[n + 1] /\ z = q[1]
      OBVIOUS
    <3>2. Req(c, y) = Req(c, z)
      BY <1>2, <2>1, <2>2, <3>1
    <3>3. y.id = z.id
      BY <3>2 DEF Req
    <3> QED BY <3>1, <3>3
  <2>4. AsksOnce(q, want[c], KeptIds(c) \cup ToldIds(c))
    BY <1>1 DEF Sound, Steady, HeldOnce
  <2>5. n + 1 = 1
    BY <2>2, <2>3, <2>4 DEF AsksOnce
  <2> QED BY <2>2, <2>5
<1>5. inq'[c] = Tail(q) /\ \A d \in Chan : d # c => inq'[d] = inq[d]
  BY <1>0, <1>1 DEF RtrTypeOK
<1>6. \A d : d # c => x \notin ReqsOf(d, inq[d])
  BY <1>2 DEF ReqsOf, Req
<1>7. x \in Requested
  BY <1>1, <1>3, RequestedIs
<1>8. ASSUME NEW r, r \in Requested' PROVE r \in Requested \ {x}
  <2>1. PICK d \in Chan : r \in ReqsOf(d, inq'[d])
    BY <1>8, RequestedIs
  <2>2. r \in ReqsOf(d, inq[d]) /\ r # x
    BY <1>1, <1>3, <1>4, <1>5, <1>6, <2>1
  <2> QED BY <2>2, RequestedIs
<1>9. ASSUME NEW r, r \in Requested, r # x PROVE r \in Requested'
  <2>1. PICK d \in Chan : r \in ReqsOf(d, inq[d])
    BY <1>9, RequestedIs
  <2>2. r \in ReqsOf(d, inq'[d])
    BY <1>1, <1>3, <1>5, <1>9, <2>1
  <2> QED BY <2>2, RequestedIs
<1>10. Requested' = Requested \ {x}
  BY <1>8, <1>9
<1> QED BY <1>1, <1>2, <1>7, <1>10

LEMMA RequestedMore ==
  ASSUME RtrTypeOK, NEW c \in Chan, NEW p \in Seq(ForRouter), NEW e \in ForRouter, e.type = "CommReq",
         ReqsOf(c, p) = ReqsOf(c, inq[c]), inq' = [inq EXCEPT ![c] = p \o <<e>>]
  PROVE  Requested' = Requested \cup {Req(c, e)}
<1>1. PICK r : r = p \o <<e>>
  OBVIOUS
<1>2. ReqsOf(c, r) = ReqsOf(c, inq[c]) \cup {Req(c, e)}
  <2>1. e.type = "CommReq" => ReqsOf(c, p \o <<e>>) = ReqsOf(c, p) \cup {Req(c, e)}
    BY ReqsAdded
  <2> QED BY <1>1, <2>1
<1>3. inq'[c] = r /\ \A d \in Chan : d # c => inq'[d] = inq[d]
  BY <1>1 DEF RtrTypeOK
<1>5. PICK x : x = Req(c, e)
  OBVIOUS
<1>4. /\ \A y : y \in ReqsOf(c, inq'[c]) <=> y \in ReqsOf(c, inq[c]) \/ y = x
      /\ \A d \in Chan : d # c => ReqsOf(d, inq'[d]) = ReqsOf(d, inq[d])
  BY <1>2, <1>3, <1>5
<1>6. ASSUME NEW y PROVE y \in Requested' <=> y \in Requested \/ y = x
  <2>1. (\E d \in Chan : y \in ReqsOf(d, inq'[d])) <=> (\E d \in Chan : y \in ReqsOf(d, inq[d])) \/ y = x
    BY <1>4
  <2> QED BY <2>1, RequestedIs, Zenon
<1>7. Requested' \subseteq Requested \cup {x} /\ Requested \cup {x} \subseteq Requested'
  BY <1>6
<1> QED BY <1>5, <1>7

-----------------------------------------------------------------------------
(* The other variables of Aggregation.                                     *)
LEMMA HeapWritten ==
  ASSUME RtrTypeOK, NEW i \in InfoId, NEW y, info' = [info EXCEPT ![i] = y]
  PROVE  Heap' = [Heap EXCEPT ![i] = AsInfo(y)]
<1>1. info'[i] = y /\ \A j \in InfoId : j # i => info'[j] = info[j]
  BY DEF RtrTypeOK
<1>2. Heap' = [j \in InfoId |-> AsInfo(info'[j])]
  BY DEF Heap
<1>3. Heap = [j \in InfoId |-> AsInfo(info[j])]
  BY DEF Heap
<1>4. PICK z : z = AsInfo(y)
  OBVIOUS
<1>5. \A j \in InfoId : Heap'[j] = IF j = i THEN z ELSE Heap[j]
  <2>1. Heap'[i] = z
    BY <1>1, <1>2, <1>4
  <2>2. \A j \in InfoId : j # i => Heap'[j] = Heap[j]
    BY <1>1, <1>2, <1>3
  <2> QED BY <2>1, <2>2
<1>6. PICK G, H : G = Heap /\ H = Heap'
  OBVIOUS
<1>7. H = [G EXCEPT ![i] = z]
  <2>1. DOMAIN G = InfoId /\ DOMAIN H = InfoId /\ H = [j \in InfoId |-> H[j]]
    BY <1>2, <1>3, <1>6
  <2>2. \A j \in InfoId : H[j] = IF j = i THEN z ELSE G[j]
    BY <1>5, <1>6
  <2>3. H = [j \in InfoId |-> IF j = i THEN z ELSE G[j]]
    BY <2>1, <2>2
  <2> QED BY <2>1, <2>3
<1> QED BY <1>4, <1>6, <1>7

LEMMA HeapSame ==
  ASSUME UNCHANGED info
  PROVE  Heap' = Heap
BY DEF Heap

LEMMA CopyGroups ==
  ASSUME NEW k \in CommId
  PROVE  /\ Promise!Groups(k) = Groups(k) /\ Len(MemberSets[k]) = Len(Members[k])
         /\ \A g \in Groups(k) : /\ MemberSets[k][g] = Mem(k, g)
                                 /\ Promise!Cardinality(MemberSets[k][g]) = Len(Members[k][g])
<1>1. MemberSets[k] = [g \in Groups(k) |-> Mem(k, g)]
  BY DEF MemberSets, Mem
<1>2. Len(Members[k]) \in Nat \ {0} /\ Groups(k) = 1..Len(Members[k])
  BY GroupFacts
<1>3. Promise!Groups(k) = Groups(k)
  BY <1>1 DEF Promise!Groups
<1>4. Len(MemberSets[k]) = Len(Members[k])
  BY <1>1, <1>2
<1>5. ASSUME NEW g \in Groups(k)
      PROVE  MemberSets[k][g] = Mem(k, g) /\ Promise!Cardinality(MemberSets[k][g]) = Len(Members[k][g])
  <2>1. MemberSets[k][g] = Mem(k, g)
    BY <1>1
  <2>2. Promise!Cardinality(Mem(k, g)) = Cardinality(Mem(k, g))
    BY DEF Promise!Cardinality, Cardinality
  <2>3. Cardinality(Mem(k, g)) = Len(Members[k][g])
    BY MemFacts
  <2> QED BY <2>1, <2>2, <2>3
<1> QED BY <1>3, <1>4, <1>5

(* A new CommReqInfo is what Aggregation makes of the request.             *)
LEMMA NewInfoIs ==
  ASSUME NEW c \in Chan, NEW m \in AskedFor, Supported(m.op, m.comm)
  PROVE  AsInfo(NewInfo(c, m)) = Promise!NewInfo(Req(c, m))
<1>1. PICK k \in CommId : k = m.comm
  BY DEF AskedFor
<1>2. PICK x : x = NewInfo(c, m)
  OBVIOUS
<1>3. PICK r : r = Req(c, m)
  OBVIOUS
<1>4. r.src = c /\ r.id = m.id /\ r.comm = k
  BY <1>1, <1>3 DEF Req
<1>5. x # Free /\ x.src = c /\ x.id = m.id /\ x.op = m.op /\ x.comm = k /\ x.pending = Len(Members[k])
  BY <1>1, <1>2, NewInfoTypes, FreeAssumption DEF NewInfo
<1>6. PICK L \in Nat \ {0} : L = Len(Members[k]) /\ Groups(k) = 1..L
  BY GroupFacts
<1>7. PICK G, e : G = [g \in 1..L |-> Len(Members[k][g])] /\ e = [g \in 1..L |-> <<>>]
  OBVIOUS
<1>8. Promise!NewInfo(r) = [src |-> c, id |-> m.id, comm |-> k, grpInfo |-> G, respQ |-> e, value |-> e,
                            pending |-> L]
  <2>1. Promise!Groups(k) = 1..L /\ Len(MemberSets[k]) = L
        /\ \A g \in 1..L : Promise!Cardinality(MemberSets[k][g]) = Len(Members[k][g])
    BY <1>6, CopyGroups
  <2>2. [g \in Promise!Groups(k) |-> Promise!Cardinality(MemberSets[k][g])] = G
    BY <1>7, <2>1
  <2>3. [g \in Promise!Groups(k) |-> <<>>] = e
    BY <1>7, <2>1
  <2> QED BY <1>4, <2>1, <2>2, <2>3 DEF Promise!NewInfo
<1>9. AsInfo(x) = [src |-> c, id |-> m.id, comm |-> k, pending |-> L, grpInfo |-> G, respQ |-> e, value |-> e]
  <2>1. CASE m.op \in OneObj
    <3>1. L = 1 /\ Len(Members[k][1]) = 1
      BY <1>1, <1>6, <2>1 DEF Supported
    <3>2. G = <<1>> /\ e = <<<<>>>>
      <4>1. 1..L = {1}
        BY <3>1
      <4>2. G = [g \in {1} |-> 1]
        BY <1>7, <3>1, <4>1
      <4>3. e = [g \in {1} |-> <<>>]
        BY <1>7, <4>1
      <4>4. <<1>> = [g \in {1} |-> 1] /\ <<<<>>>> = [g \in {1} |-> <<>>]
        <5>1. \A y : <<y>> = [g \in {1} |-> y]
          <6>1. 1..1 = {1}
            OBVIOUS
          <6>2. \A y : <<y>> = [g \in 1..1 |-> y]
            OBVIOUS
          <6> QED BY <6>1, <6>2
        <5> QED BY <5>1
      <4> QED BY <4>2, <4>3, <4>4
    <3> QED BY <1>5, <1>6, <2>1, <3>2 DEF AsInfo
  <2>2. CASE m.op \notin OneObj
    <3>1. x.grpInfo = G /\ x.respQ = e /\ x.value = e
      BY <1>1, <1>2, <1>6, <1>7, <2>2 DEF NewInfo
    <3> QED BY <1>5, <1>6, <2>2, <3>1 DEF AsInfo
  <2> QED BY <2>1, <2>2
<1> QED BY <1>2, <1>3, <1>8, <1>9

ToldTo(k, q) == IF k = "client" THEN ToldBy(q) ELSE <<>>

LEMMA RepliesBoth ==
  ASSUME Sound, Sound'
  PROVE  /\ Replies = [c \in Chan |-> ToldTo(kind[c], outq[c])]
         /\ Replies' = [c \in Chan |-> ToldTo(kind'[c], outq'[c])]
<1>1. RepliesRight
  BY RepliesAre
<1>2. (Sound => RepliesRight)'
  BY RepliesAre, PTL
<1>3. RepliesRight'
  BY <1>2
<1>4. Replies = [c \in Chan |-> Replies[c]] /\ Replies' = [c \in Chan |-> Replies'[c]]
  BY DEF Replies
<1>5. \A c \in Chan : Replies[c] = ToldTo(kind[c], outq[c])
  BY <1>1 DEF RepliesRight, ToldTo
<1>6. \A c \in Chan : Replies'[c] = ToldTo(kind'[c], outq'[c])
  BY <1>3 DEF RepliesRight, ToldTo
<1> QED BY <1>4, <1>5, <1>6

LEMMA RepliesSame ==
  ASSUME Sound, Sound', \A c \in Chan : ToldTo(kind'[c], outq'[c]) = ToldTo(kind[c], outq[c])
  PROVE  Replies' = Replies
BY RepliesBoth

LEMMA RepliesToServers ==
  ASSUME Sound, Sound', UNCHANGED kind, \A c \in Chan : kind[c] # "server" => outq'[c] = outq[c]
  PROVE  Replies' = Replies
<1>1. \A c \in Chan : ToldTo(kind'[c], outq'[c]) = ToldTo(kind[c], outq[c])
  BY DEF ToldTo
<1> QED BY <1>1, RepliesSame

(* The copies and responses on their way.                                  *)
LEMMA FlightIs ==
  ASSUME Sound, Sound'
  PROVE  /\ Outward = Stripped(OutTokens) /\ Inward = Stripped(InTokens)
         /\ Outward' = Stripped(OutTokens') /\ Inward' = Stripped(InTokens')
<1>1. (Sound => Outward = Stripped(OutTokens))' /\ (Sound => Inward = Stripped(InTokens))'
  BY OutwardIs, InwardIs, PTL
<1>2. Outward' = Stripped(OutTokens)' /\ Inward' = Stripped(InTokens)'
  BY <1>1
<1>3. Stripped(OutTokens)' = Stripped(OutTokens') /\ Stripped(InTokens)' = Stripped(InTokens')
  BY DEF Stripped, Strip
<1> QED BY <1>2, <1>3, OutwardIs, InwardIs

LEMMA StripLess ==
  ASSUME Sound, NEW S, S \subseteq OutTokens \cup InTokens, NEW w \in S
  PROVE  Stripped(S \ {w}) = Stripped(S) \ {Strip(w)} /\ Strip(w) \in Stripped(S)
<1>1. \A t \in S : Strip(t) = Strip(w) => t = w
  BY TokensApart
<1>2. ASSUME NEW x \in Stripped(S \ {w}) PROVE x \in Stripped(S) /\ x # Strip(w)
  <2>1. PICK t \in S \ {w} : x = Strip(t)
    BY DEF Stripped
  <2> QED BY <1>1, <2>1 DEF Stripped
<1>3. ASSUME NEW x \in Stripped(S), x # Strip(w) PROVE x \in Stripped(S \ {w})
  <2>1. PICK t \in S : x = Strip(t)
    BY DEF Stripped
  <2> QED BY <1>3, <2>1 DEF Stripped
<1>4. Strip(w) \in Stripped(S)
  BY DEF Stripped
<1> QED BY <1>2, <1>3, <1>4

-----------------------------------------------------------------------------
(* Every step of the router, a client or a server is a step of Aggregation *)
(* or changes nothing that Aggregation sees.                               *)
PromiseStep == [Promise!Next]_(Promise!vars)

LEMMA Stutters ==
  ASSUME Sound, Sound', UNCHANGED <<want, info>>, Requested' = Requested,
         OutTokens' = OutTokens, InTokens' = InTokens, Replies' = Replies
  PROVE  PromiseStep
<1>1. Heap' = Heap
  BY HeapSame
<1>2. Outward' = Outward /\ Inward' = Inward
  BY FlightIs
<1>3. UNCHANGED Promise!vars
  BY <1>1, <1>2 DEF Promise!vars
<1> QED BY <1>3 DEF PromiseStep

LEMMA CreateStutters ==
  ASSUME Calm, Sound, Sound', NEW c \in Chan, RtrCommCreate(c)
  PROVE  PromiseStep
<1>1. /\ inq[c] # <<>> /\ inq[c][1].type = "CommCreate" /\ inq' = [inq EXCEPT ![c] = Tail(inq[c])]
      /\ ToServers /\ UNCHANGED <<kind, info, want>>
  BY CreateGoes DEF cliVars
<1>2. RtrTypeOK /\ Settled
  BY SteadyParts DEF Sound
<1>3. Requested' = Requested
  BY <1>1, <1>2, RequestedRead
<1>4. OutTokens' = OutTokens /\ InTokens' = InTokens
  BY CreateTokens
<1>5. Replies' = Replies
  BY <1>1, <1>2, NoAnswersAdded, RepliesToServers
<1> QED BY <1>1, <1>3, <1>4, <1>5, Stutters

LEMMA ConnectStutters ==
  ASSUME Calm, Sound, Sound', NEW c \in Chan, RtrServerConnect(c)
  PROVE  PromiseStep
<1>0. RtrTypeOK
  BY DEF Sound
<1>1. /\ kind[c] = "server" /\ inq[c] # <<>> /\ Head(inq[c]).type = "ServerConnect"
      /\ inq' = [inq EXCEPT ![c] = Tail(inq[c])]
  <2>1. Receive(c, "server", "ServerConnect")
    BY DEF RtrServerConnect
  <2> QED BY <1>0, <2>1, ReceiveFacts
<1>2. inq[c][1].type # "CommReq"
  <2>1. inq[c] \in Seq(ForRouter)
    BY <1>0 DEF RtrTypeOK
  <2>2. Head(inq[c]) = inq[c][1]
    BY <1>1, <2>1, TailAt
  <2> QED BY <1>1, <2>2
<1>3. UNCHANGED <<kind, info, want>> /\ \E q : outq' = [outq EXCEPT ![c] = q] \/ outq' = outq
  BY DEF RtrServerConnect, cliVars
<1>4. \A d \in Chan : kind[d] # "server" => outq'[d] = outq[d]
  BY <1>0, <1>1, <1>3 DEF RtrTypeOK
<1>5. Requested' = Requested
  BY <1>0, <1>1, <1>2, RequestedRead
<1>6. OutTokens' = OutTokens /\ InTokens' = InTokens
  BY ConnectTokens
<1>7. Replies' = Replies
  BY <1>3, <1>4, RepliesToServers
<1> QED BY <1>3, <1>5, <1>6, <1>7, Stutters

LEMMA ServerStutters ==
  ASSUME Calm, Sound, Sound', NEW s \in Server, SrvCommCreate(s) \/ SrvCommDestroy(s) \/ SrvCommReq(s)
  PROVE  PromiseStep
<1>0. RtrTypeOK /\ Plugged
  BY DEF Sound
<1>1. /\ UNCHANGED <<kind, info, want, inq>>
      /\ SrvTakes(s, "CommCreate") \/ SrvTakes(s, "CommDestroy") \/ SrvTakes(s, "CommReq")
  BY DEF SrvCommCreate, SrvCommDestroy, SrvCommReq, rtrVars, cliVars
<1>2. PICK c \in Chan : c = srvChan[s] /\ outq' = [outq EXCEPT ![c] = Tail(outq[c])]
  BY <1>0, <1>1, TakesFacts
<1>3. kind[c] = "server"
  BY <1>0, <1>2, RouteAssumption DEF Plugged
<1>4. \A d \in Chan : kind[d] # "server" => outq'[d] = outq[d]
  BY <1>0, <1>2, <1>3 DEF RtrTypeOK
<1>5. Requested' = Requested
  BY <1>1, RequestedSame
<1>6. OutTokens' = OutTokens /\ InTokens' = InTokens
  BY ServerTokens
<1>7. Replies' = Replies
  BY <1>1, <1>4, RepliesToServers
<1> QED BY <1>1, <1>5, <1>6, <1>7, Stutters

LEMMA AcceptStutters ==
  ASSUME Calm, Sound, Sound', NEW c \in Chan, AcceptClient(c) \/ \E s \in Server : AcceptServer(c, s)
  PROVE  PromiseStep
<1>1. RtrTypeOK /\ Settled
  BY SteadyParts DEF Sound
<1>2. PICK k : /\ kind[c] = "free" /\ kind' = [kind EXCEPT ![c] = k]
               /\ outq' = [outq EXCEPT ![c] = <<>>] /\ UNCHANGED info
  BY DEF AcceptClient, AcceptServer, Accept
<1>3. inq[c] = <<>> /\ outq[c] = <<>> /\ want[c] = Unused
  BY <1>1, <1>2 DEF Settled
<1>4. want' = want
  <2>1. want' = want \/ want' = [want EXCEPT ![c] = Unused]
    BY DEF AcceptClient, AcceptServer, cliVars
  <2> QED BY <1>1, <1>3, <2>1 DEF RtrTypeOK
<1>5. PICK q : inq' = [inq EXCEPT ![c] = q] /\ \A n \in DOMAIN q : q[n].type # "CommReq"
  <2>1. CASE AcceptClient(c)
    <3>1. inq' = [inq EXCEPT ![c] = <<>>]
      BY <2>1 DEF AcceptClient, Accept
    <3>2. \A n \in DOMAIN <<>> : <<>>[n].type # "CommReq"
      OBVIOUS
    <3> QED BY <3>1, <3>2
  <2>2. ASSUME NEW s \in Server, AcceptServer(c, s)
        PROVE  \E q : inq' = [inq EXCEPT ![c] = q] /\ \A n \in DOMAIN q : q[n].type # "CommReq"
    <3>1. PICK e : e = [type |-> "ServerConnect", srv |-> s]
      OBVIOUS
    <3>2. inq' = [inq EXCEPT ![c] = <<e>>]
      BY <2>2, <3>1 DEF AcceptServer, Accept
    <3>3. \A n \in DOMAIN <<e>> : <<e>>[n].type # "CommReq"
      BY <3>1
    <3> QED BY <3>2, <3>3
  <2> QED BY <2>1, <2>2
<1>6. /\ inq'[c] = q /\ \A d \in Chan : d # c => inq'[d] = inq[d]
      /\ outq'[c] = <<>> /\ kind'[c] = k /\ \A d \in Chan : d # c => outq'[d] = outq[d] /\ kind'[d] = kind[d]
  BY <1>1, <1>2, <1>5 DEF RtrTypeOK
<1>7. Requested' = Requested
  <2>1. ReqsOf(c, q) = {} /\ ReqsOf(c, <<>>) = {}
    BY <1>5, NoReqs
  <2>2. \A d \in Chan : ReqsOf(d, inq'[d]) = ReqsOf(d, inq[d])
    BY <1>3, <1>6, <2>1
  <2> QED BY <2>2, RequestedSame
<1>8. OutTokens' = OutTokens /\ InTokens' = InTokens
  BY PeersTokens
<1>9. Replies' = Replies
  <2>1. ToldBy(<<>>) = <<>>
    BY DEF ToldBy
  <2>2. \A d \in Chan : ToldTo(kind'[d], outq'[d]) = ToldTo(kind[d], outq[d])
    BY <1>3, <1>6, <2>1 DEF ToldTo
  <2> QED BY <2>2, RepliesSame
<1> QED BY <1>2, <1>4, <1>7, <1>8, <1>9, Stutters

LEMMA AskRefines ==
  ASSUME Calm, Sound, Sound', NEW c \in Chan, NEW x \in ReqId, NEW k \in CommId, NEW op \in ReqOp, CliAsk(c, x, k, op)
  PROVE  PromiseStep
<1>0. RtrTypeOK
  BY DEF Sound
<1>1. PICK q \in Seq(ForRouter) : q = inq[c]
  BY <1>0 DEF RtrTypeOK
<1>2. PICK d : d = Create(k, NoObj)
  OBVIOUS
<1>3. PICK p : Ahead(p, q, d, k, made[c])
  BY DEF Ahead
<1>4. PICK e : e = Request(op, x, k)
  OBVIOUS
<1>5. /\ want[c][x] = NoComm /\ p \in Seq(ForRouter) /\ d \in ForRouter /\ e \in ForRouter
      /\ inq' = [inq EXCEPT ![c] = p \o <<e>>]
      /\ want' = [want EXCEPT ![c] = [want[c] EXCEPT ![x] = k]]
      /\ UNCHANGED <<rtrVars, outq>>
  <2>1. Ahead(p, inq[c], Create(k, NoObj), k, made[c])
    BY <1>1, <1>2, <1>3
  <2>2. /\ kind[c] = "client" /\ want[c][x] = NoComm /\ op \in Ops[k]
        /\ p \in Seq(ForRouter) /\ Create(k, NoObj) \in ForRouter /\ Request(op, x, k) \in ForRouter
        /\ inq' = [inq EXCEPT ![c] = p \o <<Request(op, x, k)>>]
        /\ want' = [want EXCEPT ![c] = [want[c] EXCEPT ![x] = k]]
        /\ made' = [made EXCEPT ![c] = made[c] \cup {k}]
        /\ UNCHANGED <<rtrVars, outq, conn, clients, srvVars>>
    BY <1>0, <2>1, AskGoes
  <2>3. UNCHANGED <<rtrVars, outq>>
    BY <2>2
  <2> QED BY <1>2, <1>4, <2>2, <2>3
<1>6. d.type # "CommReq" /\ e.type = "CommReq" /\ Req(c, e) = [src |-> c, id |-> x, comm |-> k]
  BY <1>2, <1>4 DEF Create, Request, Req
<1>7. ReqsOf(c, p) = ReqsOf(c, q)
  <2>1. ReqsOf(c, q \o <<d>>) = ReqsOf(c, q)
    BY <1>5, <1>6, ReqsAdded
  <2> QED BY <1>3, <2>1 DEF Ahead
<1>8. Requested' = Requested \cup {[src |-> c, id |-> x, comm |-> k]}
  BY <1>0, <1>1, <1>5, <1>6, <1>7, RequestedMore
<1>9. OutTokens' = OutTokens /\ InTokens' = InTokens
  BY PeersTokens
<1>10. Outward' = Outward /\ Inward' = Inward
  BY <1>9, FlightIs
<1>11. UNCHANGED <<kind, info, outq>>
  BY <1>5 DEF rtrVars
<1>12. Heap' = Heap /\ Replies' = Replies
  BY <1>11, HeapSame, RepliesToServers
<1>13. Promise!Ask(c, x, k)
  BY <1>5, <1>8, <1>10, <1>12 DEF Promise!Ask
<1> QED BY <1>13 DEF PromiseStep, Promise!Next

LEMMA ReadRefines ==
  ASSUME Calm, Sound, Sound', NEW c \in Chan, CliRead(c)
  PROVE  PromiseStep
<1>0. RtrTypeOK
  BY DEF Sound
<1>1. PICK q \in Seq(ForServers \cup Answers) : q = outq[c]
  BY <1>0 DEF RtrTypeOK
<1>2. /\ kind[c] = "client" /\ q # <<>> /\ outq' = [outq EXCEPT ![c] = Tail(q)]
      /\ want' = [want EXCEPT ![c][Head(q).id] = NoComm] /\ UNCHANGED <<kind, info, inq>>
  BY <1>1 DEF CliRead, IsClient, rtrVars
<1>3. outq'[c] = Tail(q) /\ \A d \in Chan : d # c => outq'[d] = outq[d]
  BY <1>0, <1>2 DEF RtrTypeOK
<1>4. PICK A : A = ToldBy(q)
  OBVIOUS
<1>5. A # <<>> /\ Head(A).id = Head(q).id /\ ToldBy(Tail(q)) = Tail(A)
  BY <1>2, <1>4, ToldTakes
<1>6. PICK R, S : R = Replies /\ S = Replies'
  OBVIOUS
<1>7. R = [d \in Chan |-> ToldTo(kind[d], outq[d])] /\ S = [d \in Chan |-> ToldTo(kind'[d], outq'[d])]
  BY <1>6, RepliesBoth
<1>8. R[c] = A /\ S[c] = Tail(A) /\ \A d \in Chan : d # c => S[d] = R[d]
  BY <1>1, <1>2, <1>3, <1>4, <1>5, <1>7 DEF ToldTo
<1>9. S = [R EXCEPT ![c] = Tail(R[c])]
  <2>1. DOMAIN R = Chan /\ S = [d \in Chan |-> S[d]]
    BY <1>7
  <2> QED BY <1>8, <2>1
<1>10. Requested' = Requested
  BY <1>2, RequestedSame
<1>11. OutTokens' = OutTokens /\ InTokens' = InTokens
  BY PeersTokens
<1>12. Outward' = Outward /\ Inward' = Inward /\ Heap' = Heap
  BY <1>2, <1>11, FlightIs, HeapSame
<1>13. /\ Replies[c] # <<>> /\ want' = [want EXCEPT ![c][Head(Replies[c]).id] = NoComm]
       /\ Replies' = [Replies EXCEPT ![c] = Tail(@)]
  BY <1>2, <1>5, <1>6, <1>8, <1>9
<1>14. Promise!Read(c)
  BY <1>10, <1>12, <1>13 DEF Promise!Read
<1> QED BY <1>14 DEF PromiseStep, Promise!Next

LEMMA ReplyRefines ==
  ASSUME Calm, Sound, Sound', NEW s \in Server, NEW w \in work[s], SrvReply(s, w)
  PROVE  PromiseStep
<1>0. RtrTypeOK /\ Plugged /\ Linked
  BY DEF Sound
<1>1. /\ UNCHANGED <<kind, info, want, outq>>
      /\ inq' = [inq EXCEPT ![srvChan[s]] = Append(inq[srvChan[s]], Response(w))]
  BY DEF SrvReply, rtrVars, cliVars
<1>2. PICK c \in Chan : c = srvChan[s]
  <2>1. localMap[s] # NoChan
    BY <1>0 DEF Linked
  <2> QED BY <1>0, <2>1, QueueTypes
<1>3. PICK q \in Seq(ForRouter) : q = inq[c]
  BY <1>0 DEF RtrTypeOK
<1>4. PICK e : e = Response(w)
  OBVIOUS
<1>5. e \in ForRouter /\ e.type # "CommReq"
  <2>1. w \in Works
    BY <1>0 DEF RtrTypeOK
  <2> QED BY <1>4, <2>1 DEF Response, Works, ForRouter, Responses
<1>6. inq'[c] = q \o <<e>> /\ \A d \in Chan : d # c => inq'[d] = inq[d]
  <2>1. Append(q, e) = q \o <<e>>
    BY <1>5
  <2> QED BY <1>0, <1>1, <1>2, <1>3, <1>4, <2>1 DEF RtrTypeOK
<1>7. Requested' = Requested
  <2>1. ReqsOf(c, q \o <<e>>) = ReqsOf(c, q)
    BY <1>5, ReqsAdded
  <2>2. \A d \in Chan : ReqsOf(d, inq'[d]) = ReqsOf(d, inq[d])
    BY <1>3, <1>6, <2>1
  <2> QED BY <2>2, RequestedSame
<1>8. w \in OutTokens /\ OutTokens' = OutTokens \ {w} /\ InTokens' = InTokens \cup {w}
  BY ReplyTokens
<1>9. Stripped(OutTokens \ {w}) = Stripped(OutTokens) \ {Strip(w)} /\ Strip(w) \in Stripped(OutTokens)
  BY <1>8, StripLess
<1>10. Stripped(InTokens \cup {w}) = Stripped(InTokens) \cup {Strip(w)}
  BY DEF Stripped
<1>11. PICK t : t = Strip(w)
  OBVIOUS
<1>12. t \in Outward /\ Outward' = Outward \ {t} /\ Inward' = Inward \cup {t}
  BY <1>8, <1>9, <1>10, <1>11, FlightIs
<1>13. Heap' = Heap /\ Replies' = Replies
  BY <1>1, HeapSame, RepliesToServers
<1>14. Promise!Serve(t)
  BY <1>1, <1>7, <1>12, <1>13 DEF Promise!Serve
<1> QED BY <1>12, <1>14 DEF PromiseStep, Promise!Next

LEMMA RequestRefines ==
  ASSUME Calm, Sound, Sound', NEW c \in Chan, NEW i \in InfoId, RtrCommReq(c, i)
  PROVE  PromiseStep
<1>0. RtrTypeOK /\ Settled
  BY SteadyParts DEF Sound
<1>1. PICK m : m = inq[c][1]
  OBVIOUS
<1>2. /\ kind[c] = "client" /\ inq[c] # <<>> /\ m.type = "CommReq" /\ m \in AskedFor
      /\ inq' = [inq EXCEPT ![c] = Tail(inq[c])]
      /\ info[i] = Free /\ info' = [info EXCEPT ![i] = NewInfo(c, m)] /\ Supported(m.op, m.comm)
      /\ ToServers /\ UNCHANGED <<kind, want>>
  BY <1>1, RequestGoes DEF cliVars
<1>3. PICK r : r = Req(c, m)
  OBVIOUS
<1>4. PICK k \in CommId : k = m.comm /\ r.comm = k
  BY <1>2, <1>3 DEF AskedFor, Req
<1>5. r \in Requested /\ Requested' = Requested \ {r}
  BY <1>1, <1>2, <1>3, RequestedLess
<1>6. Heap[i] = Free /\ Heap' = [Heap EXCEPT ![i] = Promise!NewInfo(r)]
  <2>1. AsInfo(NewInfo(c, m)) = Promise!NewInfo(r)
    BY <1>2, <1>3, NewInfoIs
  <2>2. Heap' = [Heap EXCEPT ![i] = AsInfo(NewInfo(c, m))]
    BY <1>0, <1>2, HeapWritten
  <2>3. Heap[i] = Free
    BY <1>2 DEF Heap, AsInfo
  <2> QED BY <2>1, <2>2, <2>3
<1>7. /\ InTokens' = InTokens
      /\ \A t : t \in OutTokens' <=>
           \/ t \in OutTokens
           \/ \E g \in Groups(k) : \E o \in Mem(k, g) :
                t = [op |-> m.op, info |-> i, grp |-> g, obj |-> o]
  BY <1>1, <1>4, RequestTokens
<1>8. PICK C : C = Promise!Copies(i, k)
  OBVIOUS
<1>9. \A t : t \in C <=> \E g \in Groups(k) : \E o \in Mem(k, g) : t = [info |-> i, grp |-> g, obj |-> o]
  <2>1. Promise!Groups(k) = Groups(k) /\ \A g \in Groups(k) : MemberSets[k][g] = Mem(k, g) /\ Mem(k, g) \subseteq Obj
    BY CopyGroups, MemFacts
  <2>2. C = {t \in [info : {i}, grp : Groups(k), obj : Obj] : t.obj \in MemberSets[k][t.grp]}
    BY <1>8, <2>1 DEF Promise!Copies
  <2>3. ASSUME NEW t \in C
        PROVE  \E g \in Groups(k) : \E o \in Mem(k, g) : t = [info |-> i, grp |-> g, obj |-> o]
    <3>1. t = [info |-> i, grp |-> t.grp, obj |-> t.obj] /\ t.grp \in Groups(k)
          /\ t.obj \in MemberSets[k][t.grp]
      BY <2>2
    <3> QED BY <2>1, <3>1
  <2>4. ASSUME NEW g \in Groups(k), NEW o \in Mem(k, g)
        PROVE  [info |-> i, grp |-> g, obj |-> o] \in C
    BY <2>1, <2>2
  <2> QED BY <2>3, <2>4
<1>10. Stripped(OutTokens') = Stripped(OutTokens) \cup C
  <2>1. PICK N, O : N = OutTokens' /\ O = OutTokens
    OBVIOUS
  <2>2. \A t : t \in N <=> \/ t \in O
                           \/ \E g \in Groups(k) : \E o \in Mem(k, g) :
                                t = [op |-> m.op, info |-> i, grp |-> g, obj |-> o]
    BY <1>7, <2>1
  <2>3. ASSUME NEW y \in Stripped(N) PROVE y \in Stripped(O) \cup C
    <3>1. PICK t \in N : y = Strip(t)
      BY DEF Stripped
    <3>2. CASE t \in O
      BY <3>1, <3>2 DEF Stripped
    <3>3. ASSUME NEW g \in Groups(k), NEW o \in Mem(k, g), t = [op |-> m.op, info |-> i, grp |-> g, obj |-> o]
          PROVE  y \in C
      BY <1>9, <3>1, <3>3 DEF Strip
    <3> QED BY <2>2, <3>2, <3>3
  <2>4. ASSUME NEW y \in Stripped(O) PROVE y \in Stripped(N)
    BY <2>2 DEF Stripped
  <2>5. ASSUME NEW y \in C PROVE y \in Stripped(N)
    <3>1. PICK g \in Groups(k) : \E o \in Mem(k, g) : y = [info |-> i, grp |-> g, obj |-> o]
      BY <1>9
    <3>2. PICK o \in Mem(k, g) : y = [info |-> i, grp |-> g, obj |-> o]
      BY <3>1
    <3>3. PICK t : t = [op |-> m.op, info |-> i, grp |-> g, obj |-> o]
      OBVIOUS
    <3>4. t \in N /\ Strip(t) = y
      BY <2>2, <3>2, <3>3 DEF Strip
    <3> QED BY <3>4 DEF Stripped
  <2> QED BY <2>1, <2>3, <2>4, <2>5
<1>11. Outward' = Outward \cup Promise!Copies(i, k) /\ Inward' = Inward
  BY <1>7, <1>8, <1>10, FlightIs
<1>12. Replies' = Replies
  BY <1>0, <1>2, NoAnswersAdded, RepliesToServers
<1>13. Promise!Fan(r, i)
  BY <1>2, <1>4, <1>5, <1>6, <1>11, <1>12 DEF Promise!Fan
<1> QED BY <1>5, <1>13 DEF PromiseStep, Promise!Next

(* What Aggregation writes into a CommReqInfo, as one change.              *)
LEMMA NestedQueue ==
  ASSUME NEW H, NEW i \in DOMAIN H, NEW g, NEW q
  PROVE  [H EXCEPT ![i].respQ[g] = q] = [H EXCEPT ![i] = [H[i] EXCEPT !.respQ = [H[i].respQ EXCEPT ![g] = q]]]
OBVIOUS

LEMMA NestedSum ==
  ASSUME NEW H, NEW i \in DOMAIN H, NEW g, NEW q, NEW v, "pending" \in DOMAIN H[i]
  PROVE  [H EXCEPT ![i].respQ[g] = q, ![i].value = v, ![i].pending = @ - 1]
         = [H EXCEPT ![i] = [H[i] EXCEPT !.respQ = [H[i].respQ EXCEPT ![g] = q], !.value = v,
                                         !.pending = H[i].pending - 1]]
<1>0. PICK x : x = H[i]
  OBVIOUS
<1>1. PICK y : y = [x EXCEPT !.respQ = [x.respQ EXCEPT ![g] = q]]
  OBVIOUS
<1>2. PICK z : z = [y EXCEPT !.value = v]
  OBVIOUS
<1>3. PICK w : w = [z EXCEPT !.pending = x.pending - 1]
  OBVIOUS
<1>4. z.pending = x.pending
  BY <1>0, <1>1, <1>2
<1>5. PICK J : J = [H EXCEPT ![i].respQ[g] = q]
  OBVIOUS
<1>6. J = [H EXCEPT ![i] = y]
  BY <1>0, <1>1, <1>5
<1>7. PICK K : K = [J EXCEPT ![i].value = v]
  OBVIOUS
<1>8. K = [H EXCEPT ![i] = z]
  BY <1>2, <1>6, <1>7
<1>9. [K EXCEPT ![i].pending = @ - 1] = [H EXCEPT ![i] = w]
  <2>1. K[i] = z /\ i \in DOMAIN K
    BY <1>8
  <2>2. [K EXCEPT ![i].pending = @ - 1] = [K EXCEPT ![i] = w]
    BY <1>3, <1>4, <2>1
  <2> QED BY <1>8, <2>2
<1> QED BY <1>0, <1>1, <1>2, <1>3, <1>5, <1>7, <1>9

LEMMA RespRefines ==
  ASSUME Calm, Sound, Sound', NEW c \in Chan, RtrCommResp(c) \/ RtrOneResp(c)
  PROVE  PromiseStep
<1>0. RtrTypeOK
  BY DEF Sound
<1>1. PICK m : m = inq[c][1]
  OBVIOUS
<1>2. ResponseDone(m)
  BY <1>1, RespGoes
<1>3. PICK i, g, x, q :
        /\ i = m.info /\ g = m.grp /\ x = AsInfo(info[i]) /\ q = Append(x.respQ[g], m.obj)
        /\ CollectsAt(i, x, g, q) \/ CompletesAt(i, x, g, q) \/ RepliesAt(i, x, g, q)
  BY <1>2 DEF ResponseDone
<1>4. /\ kind[c] = "server" /\ inq[c] # <<>> /\ Head(inq[c]) = m /\ m.type = "CommResp"
      /\ inq' = [inq EXCEPT ![c] = Tail(inq[c])]
      /\ i \in InfoId /\ info[i] \in Info /\ info[i] # Free
      /\ kind[info[i].src] = "client" /\ UNCHANGED <<kind, want>>
  <2>1. /\ kind[c] = "server" /\ inq[c] # <<>> /\ Head(inq[c]) = m /\ m.type = "CommResp"
        /\ inq' = [inq EXCEPT ![c] = Tail(inq[c])]
        /\ m.info \in InfoId /\ info[m.info] \in Info /\ info[m.info] # Free
        /\ kind[info[m.info].src] = "client"
        /\ UNCHANGED <<kind, cliVars>>
    BY <1>1, RespHead
  <2> QED BY <1>3, <2>1 DEF cliVars
<1>5. PICK w \in Info : w = info[i]
  BY <1>4
<1>6. w # Free /\ x.src = w.src /\ w.src \in Chan /\ kind[x.src] = "client"
  <2>1. w # Free /\ x = AsInfo(w) /\ kind[w.src] = "client" /\ w.src \in Chan
    BY <1>3, <1>4, <1>5 DEF Info
  <2>2. x.src = w.src
    BY <2>1 DEF AsInfo
  <2> QED BY <2>1, <2>2
<1>7. PICK H : H = Heap
  OBVIOUS
<1>8. H[i] = x /\ i \in DOMAIN H
  BY <1>3, <1>4, <1>7 DEF Heap
<1>9. PICK t : t = [info |-> i, grp |-> g, obj |-> m.obj]
  OBVIOUS
<1>10. t \in Inward /\ Inward' = Inward \ {t} /\ Outward' = Outward
  <2>1. PICK u : u = Token(Head(inq[c]))
    OBVIOUS
  <2>2. OutTokens' = OutTokens /\ u \in InTokens /\ InTokens' = InTokens \ {u}
    BY <2>1, TakesResponse
  <2>3. Stripped(InTokens \ {u}) = Stripped(InTokens) \ {Strip(u)} /\ Strip(u) \in Stripped(InTokens)
    BY <2>2, StripLess
  <2>4. Strip(u) = t
    BY <1>3, <1>4, <1>9, <2>1 DEF Strip, Token
  <2> QED BY <2>2, <2>3, <2>4, FlightIs
<1>11. Requested' = Requested
  BY <1>0, <1>1, <1>4, RequestedRead
<1>12. /\ t.info = i /\ t.grp = g /\ Promise!Queued(t) = q
       /\ Promise!GroupReady(t) <=> Len(q) = x.grpInfo[g]
       /\ Promise!Summed(t) = [x.value EXCEPT ![g] = q]
  <2>1. t.info = i /\ t.grp = g /\ t.obj = m.obj
    BY <1>9
  <2>2. Promise!Queued(t) = q
    BY <1>3, <1>7, <1>8, <2>1 DEF Promise!Queued
  <2>3. Promise!GroupReady(t) <=> Len(q) = x.grpInfo[g]
    BY <1>7, <1>8, <2>1, <2>2 DEF Promise!GroupReady
  <2>4. Promise!Summed(t) = [x.value EXCEPT ![g] = q]
    BY <1>7, <1>8, <2>1, <2>2 DEF Promise!Summed
  <2> QED BY <2>1, <2>2, <2>3, <2>4
<1>13. \A y : info' = [info EXCEPT ![i] = y] => Heap' = [Heap EXCEPT ![i] = AsInfo(y)]
  <2>1. ASSUME NEW y, info' = [info EXCEPT ![i] = y] PROVE Heap' = [Heap EXCEPT ![i] = AsInfo(y)]
    BY <1>0, <1>4, <2>1, HeapWritten
  <2> QED BY <2>1
<1>14. CASE CollectsAt(i, x, g, q)
  <2>1. Len(q) # x.grpInfo[g] /\ outq' = outq
    BY <1>14 DEF CollectsAt
  <2>2. Heap' = [Heap EXCEPT ![i] = [x EXCEPT !.respQ = [x.respQ EXCEPT ![g] = q]]]
    BY <1>13, <1>14 DEF CollectsAt
  <2>3. Heap' = [Heap EXCEPT ![i].respQ[g] = q]
    BY <1>7, <1>8, <2>2, NestedQueue
  <2>4. Replies' = Replies
    BY <1>4, <2>1, RepliesToServers
  <2>5. Heap' = [Heap EXCEPT ![t.info].respQ[t.grp] = Promise!Queued(t)]
    BY <1>12, <2>3
  <2>6. Promise!Collect(t)
    BY <1>4, <1>10, <1>11, <1>12, <2>1, <2>4, <2>5 DEF Promise!Collect
  <2> QED BY <1>10, <2>6 DEF PromiseStep, Promise!Next
<1>15. CASE CompletesAt(i, x, g, q)
  <2>1. Len(q) = x.grpInfo[g] /\ x.pending > 1 /\ outq' = outq
    BY <1>15 DEF CompletesAt
  <2>2. PICK v : v = [x.value EXCEPT ![g] = q]
    OBVIOUS
  <2>3. Heap' = [Heap EXCEPT ![i] = [x EXCEPT !.respQ = [x.respQ EXCEPT ![g] = q],
                                              !.value = v, !.pending = x.pending - 1]]
    BY <1>13, <1>15, <2>2 DEF CompletesAt
  <2>4. "pending" \in DOMAIN x
    <3>1. PICK a, b, d : /\ a = IF w.op \in OneObj THEN <<1>> ELSE w.grpInfo
                         /\ b = IF w.op \in OneObj THEN <<<<>>>> ELSE w.respQ
                         /\ d = IF w.op \in OneObj THEN <<<<>>>> ELSE w.value
      OBVIOUS
    <3>2. x = AsInfo(w) /\ w # Free
      BY <1>3, <1>5, <1>6
    <3>3. x = [src |-> w.src, id |-> w.id, comm |-> w.comm, pending |-> w.pending,
               grpInfo |-> a, respQ |-> b, value |-> d]
      BY <3>1, <3>2 DEF AsInfo
    <3> QED BY <3>3
  <2>5. Heap' = [Heap EXCEPT ![i].respQ[g] = q, ![i].value = v, ![i].pending = @ - 1]
    <3>1. PICK F : F = [H EXCEPT ![i].respQ[g] = q, ![i].value = v, ![i].pending = @ - 1]
      OBVIOUS
    <3>2. F = [H EXCEPT ![i] = [H[i] EXCEPT !.respQ = [H[i].respQ EXCEPT ![g] = q], !.value = v,
                                            !.pending = H[i].pending - 1]]
      <4>1. i \in DOMAIN H /\ "pending" \in DOMAIN H[i]
        BY <1>8, <2>4
      <4>2. [H EXCEPT ![i].respQ[g] = q, ![i].value = v, ![i].pending = @ - 1]
            = [H EXCEPT ![i] = [H[i] EXCEPT !.respQ = [H[i].respQ EXCEPT ![g] = q], !.value = v,
                                            !.pending = H[i].pending - 1]]
        BY <4>1, NestedSum, Zenon
      <4> QED BY <3>1, <4>2, Zenon
    <3>3. Heap' = F
      BY <1>7, <1>8, <2>3, <3>2
    <3> QED BY <1>7, <3>1, <3>3
  <2>6. Replies' = Replies
    BY <1>4, <2>1, RepliesToServers
  <2>7. Heap' = [Heap EXCEPT ![t.info].respQ[t.grp] = Promise!Queued(t),
                             ![t.info].value = Promise!Summed(t),
                             ![t.info].pending = @ - 1]
    BY <1>12, <2>2, <2>5
  <2>8. Heap[t.info].pending > 1
    BY <1>7, <1>8, <1>12, <2>1
  <2>9. Promise!Complete(t)
    BY <1>4, <1>10, <1>11, <1>12, <2>1, <2>6, <2>7, <2>8 DEF Promise!Complete
  <2> QED BY <1>10, <2>9 DEF PromiseStep, Promise!Next
<1>16. CASE RepliesAt(i, x, g, q)
  <2>1. PICK v : v = [x.value EXCEPT ![g] = q]
    OBVIOUS
  <2>2. PICK d \in Chan : d = x.src
    BY <1>6
  <2>3. PICK a : a = [type |-> "Answer", id |-> x.id, value |-> v]
    OBVIOUS
  <2>4. PICK o \in Seq(ForServers \cup Answers) : o = outq[d]
    BY <1>0 DEF RtrTypeOK
  <2>5. /\ Len(q) = x.grpInfo[g] /\ x.pending = 1
        /\ info' = [info EXCEPT ![i] = Free] /\ outq' = [outq EXCEPT ![d] = Append(o, a)]
    BY <1>16, <2>1, <2>2, <2>3, <2>4 DEF RepliesAt
  <2>6. Heap' = [Heap EXCEPT ![i] = Free]
    <3>1. AsInfo(Free) = Free
      BY DEF AsInfo
    <3> QED BY <1>13, <2>5, <3>1
  <2>7. outq'[d] = Append(o, a) /\ \A e \in Chan : e # d => outq'[e] = outq[e]
    BY <1>0, <2>5 DEF RtrTypeOK
  <2>8. ToldBy(Append(o, a)) = Append(ToldBy(o), [id |-> x.id, value |-> v])
    <3>1. PICK T : T = ForServers \cup Answers \cup {a}
      OBVIOUS
    <3>2. o \in Seq(T) /\ a \in T
      BY <2>4, <3>1
    <3>3. ToldBy(Append(o, a)) = Append(ToldBy(o), [id |-> a.id, value |-> a.value])
      BY <3>2, ToldAdds
    <3> QED BY <2>3, <3>3
  <2>9. PICK R, S : R = Replies /\ S = Replies'
    OBVIOUS
  <2>10. R = [e \in Chan |-> ToldTo(kind[e], outq[e])] /\ S = [e \in Chan |-> ToldTo(kind'[e], outq'[e])]
    BY <2>9, RepliesBoth
  <2>11. PICK y : y = [id |-> x.id, value |-> v]
    OBVIOUS
  <2>12. R[d] = ToldBy(o) /\ S[d] = ToldBy(Append(o, a)) /\ \A e \in Chan : e # d => S[e] = R[e]
    BY <1>4, <1>6, <2>2, <2>4, <2>7, <2>10 DEF ToldTo
  <2>13. S = [R EXCEPT ![d] = Append(R[d], y)]
    <3>1. DOMAIN R = Chan /\ S = [e \in Chan |-> S[e]]
      BY <2>10
    <3>2. S[d] = Append(R[d], y)
      BY <2>8, <2>11, <2>12
    <3> QED BY <2>12, <3>1, <3>2
  <2>14. Heap[t.info].src = d /\ Heap[t.info].id = x.id /\ Heap[t.info].pending = 1
    BY <1>7, <1>8, <1>12, <2>2, <2>5
  <2>15. Replies' = [Replies EXCEPT ![Heap[t.info].src] =
                       Append(@, [id |-> Heap[t.info].id, value |-> Promise!Summed(t)])]
    BY <1>12, <2>1, <2>9, <2>11, <2>13, <2>14
  <2>16. Heap' = [Heap EXCEPT ![t.info] = Free]
    BY <1>12, <2>6
  <2>17. Promise!Reply(t)
    BY <1>4, <1>10, <1>11, <1>12, <2>5, <2>14, <2>15, <2>16 DEF Promise!Reply
  <2> QED BY <1>10, <2>17 DEF PromiseStep, Promise!Next
<1> QED BY <1>3, <1>14, <1>15, <1>16

LEMMA StepRefines ==
  ASSUME Calm, Sound, Sound', [Next]_vars
  PROVE  PromiseStep
<1>1. CASE UNCHANGED vars
  <2>1. UNCHANGED <<kind, info, want, inq, outq>>
    BY <1>1 DEF vars, rtrVars, cliVars
  <2>2. OutTokens' = OutTokens /\ InTokens' = InTokens
    BY <1>1, PeersTokens
  <2>3. Requested' = Requested /\ Replies' = Replies
    BY <2>1, RequestedSame, RepliesToServers
  <2> QED BY <2>1, <2>2, <2>3, Stutters
<1>2. ASSUME NEW c \in Chan, RtrStep(c) PROVE PromiseStep
  <2>1. CASE RtrCommCreate(c)
    BY <2>1, CreateStutters
  <2>2. CASE \E i \in InfoId : RtrCommReq(c, i)
    BY <2>2, RequestRefines
  <2>3. CASE RtrCommResp(c) \/ RtrOneResp(c)
    BY <2>3, RespRefines
  <2>4. CASE RtrServerConnect(c)
    BY <2>4, ConnectStutters
  <2> QED BY <1>2, <2>1, <2>2, <2>3, <2>4, NoneEnds DEF RtrStep
<1>3. ASSUME NEW s \in Server, SrvStep(s) PROVE PromiseStep
  <2>1. CASE SrvCommCreate(s) \/ SrvCommDestroy(s) \/ SrvCommReq(s)
    BY <2>1, ServerStutters
  <2>2. CASE \E w \in work[s] : SrvReply(s, w)
    BY <2>2, ReplyRefines
  <2> QED BY <1>3, <2>1, <2>2, NoneEnds DEF SrvStep
<1>4. ASSUME NEW c \in Chan, AcceptClient(c) \/ \E s \in Server : AcceptServer(c, s) PROVE PromiseStep
  BY <1>4, AcceptStutters
<1>5. ASSUME NEW c \in Chan, NEW q \in ReqId, NEW k \in CommId, NEW op \in ReqOp, CliAsk(c, q, k, op)
      PROVE  PromiseStep
  BY <1>5, AskRefines
<1>6. ASSUME NEW c \in Chan, CliRead(c) PROVE PromiseStep
  BY <1>6, ReadRefines
<1> QED BY <1>1, <1>2, <1>3, <1>4, <1>5, <1>6, NoneEnds DEF Next

LEMMA InitRefines ==
  ASSUME Init
  PROVE  Promise!Init
<1>1. /\ \A c \in Chan : kind[c] = "free" /\ inq[c] = <<>> /\ outq[c] = <<>>
      /\ want = [c \in Chan |-> Unused]
      /\ \A i \in InfoId : info[i] = Free
      /\ \A s \in Server : srvChan[s] = NoChan /\ pending[s] = <<>> /\ work[s] = {}
  BY DEF Init
<1>2. Sound
  <2>1. IInv
    BY TypesInit, PlacesInit, TallyInit DEF IInv
  <2> QED BY <2>1, SteadyInit, SoundIs DEF CalmIInv
<1>3. Requested = {}
  <2>1. \A c \in Chan : ReqsOf(c, <<>>) = {}
    BY NoReqs
  <2> QED BY <1>1, <2>1, RequestedIs
<1>4. Heap = [i \in InfoId |-> Free]
  BY <1>1 DEF Heap, AsInfo
<1>5. Outward = {} /\ Inward = {}
  <2>1. \A s \in Server : Queue(s) = <<>> /\ Back(s) = <<>>
    BY <1>1, <1>2 DEF Queue, Back, Sound, Linked
  <2>2. Tokens(<<>>, "CommReq") = {} /\ Tokens(<<>>, "CommResp") = {}
    BY DEF Tokens, Places
  <2>3. OutTokens = {} /\ InTokens = {}
    BY <1>1, <2>1, <2>2, OutAt DEF Asked, Returned
  <2> QED BY <1>2, <2>3, OutwardIs, InwardIs DEF Stripped
<1>6. Replies = [c \in Chan |-> <<>>]
  <2>1. \A c \in Chan : Replies[c] = <<>>
    BY <1>1, <1>2, RepliesAre DEF RepliesRight
  <2>2. Replies = [c \in Chan |-> Replies[c]]
    BY DEF Replies
  <2> QED BY <2>1, <2>2
<1> QED BY <1>1, <1>3, <1>4, <1>5, <1>6 DEF Promise!Init, Unused

(* The router keeps its promise: RtrCommReqEvent and RtrCommRespEvent with *)
(* their CommReqInfos, the clients and the servers, on their connections,  *)
(* through m_pendingEvents and with event ids that are addresses, do what  *)
(* Aggregation says and nothing else, while no client leaves, no server    *)
(* stops, and clients ask for what the router supports of objects with a   *)
(* route.                                                                  *)
THEOREM KeepsPromiseHolds ==
  ASSUME Calm
  PROVE  Spec => KeepsPromise
<1>1. Init => Promise!Init
  BY InitRefines
<1>2. CalmIInv /\ CalmIInv' /\ [Next]_vars => PromiseStep
  <2>1. ASSUME CalmIInv, CalmIInv', [Next]_vars PROVE PromiseStep
    <3>1. Sound
      BY <2>1, SoundIs
    <3>2. (CalmIInv => Sound)'
      BY SoundIs, PTL
    <3> QED BY <2>1, <3>1, <3>2, StepRefines
  <2> QED BY <2>1
<1>3. CalmIInv /\ CalmIInv' /\ [Next]_vars => [Promise!Next]_(Promise!vars)
  BY <1>2 DEF PromiseStep
<1> QED BY <1>1, <1>3, CalmInductive, PTL DEF Spec, KeepsPromise, Promise!Spec
=============================================================================
