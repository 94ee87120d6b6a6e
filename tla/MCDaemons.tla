---------------------------- MODULE MCDaemons ----------------------------
(***************************************************************************)
(* Three parts of a set of daemons, each in its own runs: a server with    *)
(* its two channels, routers connected as trees, and the launch of a job.  *)
(* A run picks its part and leaves the variables of the others alone.      *)
(***************************************************************************)
EXTENDS Server, RouterTree, Launch, TLC

VARIABLE part

daemonVars == <<srvVars, treeVars, launchVars, part>>

(* Trees: two leaves under a root, as examples/config/daemon.py has them;  *)
(* three levels; a range that goes from one digit to three; the links of a *)
(* root in descending order; and a host with a short name.                 *)
Link(l, o, a, b) ==
  [link |-> l, other |-> o, host |-> 9, port |-> 5, start |-> a, stop |-> b]

MCNets ==
  { (2 :> <<Link(0, 0, 0, 0), Link(1, 1, 1, 1)>>) @@ (0 :> <<Link(0, 2, 0, 0)>>)
      @@ (1 :> <<Link(0, 2, 0, 0)>>),
    (10 :> <<Link(0, 1, 0, 0), Link(1, 20, 20, 30)>>)
      @@ (20 :> <<Link(0, 10, 0, 0), Link(1, 30, 30, 30)>>)
      @@ (30 :> <<Link(0, 20, 0, 0)>>) @@ (1 :> <<Link(0, 10, 0, 0)>>),
    (9 :> <<Link(0, 1, 0, 0), Link(1, 123, 9, 200)>>) @@ (123 :> <<Link(0, 9, 0, 0)>>)
      @@ (1 :> <<Link(0, 9, 0, 0)>>),
    (2 :> <<Link(1, 1, 1, 1), Link(0, 0, 0, 0)>>) @@ (0 :> <<Link(0, 2, 0, 0)>>)
      @@ (1 :> <<Link(0, 2, 0, 0)>>),
    (1 :> <<Link(0, 0, 0, 0), Link(1, 0, 0, 0)>>)
      @@ (0 :> <<[Link(0, 1, 0, 0) EXCEPT !.host = 2]>>) }

MCServers == {[rtr |-> 1, srv |-> "a"], [rtr |-> 30, srv |-> "b"], [rtr |-> 123, srv |-> "c"]}

(* Allocations of two ranks: one host; two in the order of their names,   *)
(* plain and padded.                                                       *)
On(i, w) == [id |-> i, width |-> w]

MCJobs == {<<On(10, 2), On(10, 2)>>, <<On(9, 1), On(10, 2)>>,
           <<On(7, 2), On(10, 2)>>}

MCArgSets == [n \in 0..1 |-> IF n = 0 THEN {"rtr", "srvr", "lgr"} ELSE {"srvr", "srvr0"}]
MCUplink   == [n \in 0..1 |-> 0]

MCInit ==
  /\ part \in {"server", "routers", "launch"}
  /\ SrvInit /\ TreeInit /\ LaunchInit
  /\ part # "routers" => net = CHOOSE n \in MCNets : TRUE
  /\ part # "launch" => job = CHOOSE j \in MCJobs : TRUE

(* Two communicators are alike until one of them is asked: the first       *)
(* request goes to the first.                                              *)
FirstIsAsked == \A q \in asked' : q.id = 1 => q.comm = 1

MCNext ==
  \/ part = "server" /\ SrvNext /\ FirstIsAsked /\ UNCHANGED <<treeVars, launchVars, part>>
  \/ part = "routers" /\ TreeNext /\ UNCHANGED <<srvVars, launchVars, part>>
  \/ part = "launch" /\ LaunchNext /\ UNCHANGED <<srvVars, treeVars, part>>

(* SrvFair, TreeFair and LaunchFair, each for the runs that have the part. *)
MCFair ==
  /\ WF_srvVars(part = "server" /\ SrvWork)
  /\ WF_srvVars(part = "server" /\ \E f \in up : UpAnswers(f))
  /\ WF_treeVars(part = "routers" /\ TreeWork)
  /\ WF_launchVars(part = "launch" /\ LaunchWork)

MCSpec == MCInit /\ [][MCNext]_daemonVars /\ MCFair
=============================================================================
