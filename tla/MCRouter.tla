------------------------------ MODULE MCRouter ------------------------------
(* Objects oa and ob on servers 0 and 1; ox has no line in the route table. *)
EXTENDS Router, TLC

CONSTANTS oa, ob, ox, kAll, kGrp, kOne, kBad

MCHome == (oa :> 0) @@ (ob :> 1) @@ (ox :> NoRoute)
MCMembers == (kAll :> <<<<oa, ob>>>>) @@ (kGrp :> <<<<oa>>, <<ob, oa>>>>)
             @@ (kOne :> <<<<ob>>>>) @@ (kBad :> <<<<oa, ox>>>>)

AllOps == (kAll :> {"get", "set"}) @@ (kGrp :> {"get"}) @@ (kOne :> {"log", "samples"})
FewOps == (kAll :> {"get"}) @@ (kGrp :> {"get"}) @@ (kOne :> {"log"})
BadOps == [k \in CommId |-> {"set"}]

(* Either two clients, whose requests have one and the same id, may leave, *)
(* or a server stops under one client that stays and has two requests.     *)
Waiting     == {q \in ReqId : \E c \in Chan : want[c][q] # NoComm}
MayBeLeft   == NoneStopped /\ Cardinality(Waiting) <= 1
MayStop     == NoneLeft /\ clients <= 1
OneTrouble  == MayBeLeft \/ MayStop

Symmetry == Permutations(Chan) \cup Permutations(ReqId) \cup Permutations(InfoId)
=============================================================================
