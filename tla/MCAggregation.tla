--------------------------- MODULE MCAggregation ---------------------------
(* Two clients, up to two requests each, on a communicator with one group  *)
(* of two objects and on one with two groups.                              *)
EXTENDS Aggregation, TLC

CONSTANTS o1, o2, kAll, kGrp

MCObj == {o1, o2}
MCComm == {kAll, kGrp}
MCMembers == (kAll :> <<{o1, o2}>>) @@ (kGrp :> <<{o1}, {o1, o2}>>)

Symmetry == Permutations(Client) \cup Permutations(ReqId) \cup Permutations(InfoId)
=============================================================================
