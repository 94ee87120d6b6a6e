--------------------------- MODULE MCDistRequest ---------------------------
EXTENDS DistRequest

(* Calls of every kind, on remote objects, on local ones that work and     *)
(* that fail, and on groups of both.                                       *)
C(k, v, l, m) == [kind |-> k, via |-> v, local |-> l, remote |-> m]

MCCalls ==
  {C("get", "nb", "none", TRUE), C("get", "nb", "bad", FALSE), C("set", "nb", "good", FALSE),
   C("samples", "nb", "none", TRUE), C("log", "nb", "bad", FALSE),
   C("get", "object", "none", TRUE), C("set", "object", "bad", FALSE),
   C("log", "object", "none", TRUE),
   C("get", "group", "good", TRUE), C("set", "group", "bad", TRUE)}
=============================================================================
