------------------------------- MODULE Launch -------------------------------
(***************************************************************************)
(* How a job starts and ends its daemons.  In MPI_Init the first rank of   *)
(* each node forks a daemon, and where a client is wanted the client, and  *)
(* pauses after each fork until a signal; a daemon builds its router, its  *)
(* servers and its logger one after the other, each in its own thread, and *)
(* signals its parent; MPI_Finalize kills client and daemon.               *)
(***************************************************************************)
EXTENDS Naturals, Sequences, FiniteSets, FiniteSetsExt

CONSTANTS
  Size,       \* ranks of the job: 1..Size
  Jobs,       \* allocations: per rank, the number and the width of its host's name
  ArgSets,   \* per nid, the prefixes of the arguments of its daemon
  Uplink,     \* per nid, the nid whose router its servers connect to
  ClientNid,  \* the nid with a client, if it is one
  MaxDies     \* launches and forks that fail, daemons and clients that die

Rank == 1..Size
Host == [id : Nat, width : Nat]

(* The digits of a number, an int.                                         *)
Tens == <<10, 100, 1000, 10000, 100000, 1000000, 10000000, 100000000, 1000000000>>
Digits(n) == 1 + Cardinality({i \in 1..9 : Tens[i] <= n})

(* The number of a host is read off its name, which is wide enough for it. *)
ASSUME LaunchAssumption ==
  /\ Size \in Nat /\ MaxDies \in Nat /\ Jobs \subseteq [Rank -> Host]
  /\ \A j \in Jobs, r \in Rank : Digits(j[r].id) <= j[r].width

VARIABLES
  job,      \* where the ranks are
  mpi,      \* how far each rank is in MPI_Init and MPI_Finalize
  kid,      \* how many children a launcher has started and waited for
  handler,  \* per signal: "default", "ours", or "once"
  missed,   \* whether a signal came between a fork and its pause
  file,     \* whether the route file of a launcher is there
  dmn,      \* its daemon: "none", "runs", "dead", or "nofile"
  lock,     \* the mutex of the daemon
  thr,      \* its threads, as they were created
  told,     \* which children of a launcher have signalled
  clnt,     \* the client: "none", "runs", "dead"
  dies      \* of these, so far

dmnVars == <<lock, thr>>
launchVars == <<job, mpi, kid, handler, missed, file, dmn, lock, thr, told, clnt, dies>>

-----------------------------------------------------------------------------
(* createNidList.  The first rank on a node launches its daemon.           *)
FirstOn(r) == ~\E s \in 1..(r - 1) : job[s].id = job[r].id

Launchers == {r \in Rank : FirstOn(r)}

Nid(r) == Cardinality({s \in Launchers : s < r})

(* Mutant of Pads: pads whatever the other names look like.                *)
PadsAlways(r) == TRUE

(* Numbers are padded when no name before the launcher's is of another     *)
(* length; the search stops at the launcher itself.                        *)
Pads(r) == \A s \in 1..(r - 1) : job[s].width = job[r].width

(* The host of launcher s as launcher r writes it.                         *)
Written(r, s) ==
  [id |-> job[s].id,
   width |-> IF Pads(r) THEN Max({job[r].width, Digits(job[s].id)}) ELSE Digits(job[s].id)]

LaunchInit ==
  /\ job \in Jobs
  /\ mpi = [r \in Rank |-> "begins"] /\ kid = [r \in Rank |-> 0]
  /\ handler = [r \in Rank |-> [s \in {"usr1", "chld"} |-> "default"]]
  /\ missed = [r \in Rank |-> FALSE] /\ file = [r \in Rank |-> FALSE]
  /\ dmn = [r \in Rank |-> "none"] /\ clnt = [r \in Rank |-> "none"]
  /\ lock = [r \in Rank |-> FALSE] /\ thr = [r \in Rank |-> <<>>]
  /\ told = [r \in Rank |-> {}] /\ dies = 0

-----------------------------------------------------------------------------
(* powerrt: a rank of the job.                                             *)

(* PMPI_Init, and the rank's part of MPI_Allgather.                        *)
Enter(r) ==
  /\ mpi[r] = "begins"
  /\ mpi' = [mpi EXCEPT ![r] = "gathers"]
  /\ UNCHANGED <<job, kid, handler, missed, file, dmn, dmnVars, told, clnt, dies>>

Gathered(r) == mpi[r] = "gathers" /\ \A s \in Rank : mpi[s] # "begins"

(* A rank that is no launcher has nothing more to do.                      *)
Follows(r) ==
  /\ Gathered(r) /\ ~FirstOn(r)
  /\ mpi' = [mpi EXCEPT ![r] = "runs"]
  /\ UNCHANGED <<job, kid, handler, missed, file, dmn, dmnVars, told, clnt, dies>>

(* runtimeInit up to the first fork: the script writes the route file.     *)
(* The flags of the handler are never set, so that they may say that it is *)
(* good for one signal.                                                    *)
Prepares(r) ==
  /\ Gathered(r) /\ FirstOn(r)
  /\ mpi' = [mpi EXCEPT ![r] = "launches"]
  /\ \E h \in {"ours", "once"} : handler' = [handler EXCEPT ![r] = [s \in DOMAIN @ |-> h]]
  /\ file' = [file EXCEPT ![r] = TRUE]
  /\ UNCHANGED <<job, kid, missed, dmn, dmnVars, told, clnt, dies>>

(* The environment or the script is not as it should be.                   *)
LaunchFails(r) ==
  /\ Gathered(r) /\ FirstOn(r) /\ dies < MaxDies
  /\ mpi' = [mpi EXCEPT ![r] = "exited"] /\ dies' = dies + 1
  /\ UNCHANGED <<job, kid, handler, missed, file, dmn, dmnVars, told, clnt>>

Kids(r) == IF Nid(r) = ClientNid THEN 2 ELSE 1

Fork(r) ==
  /\ mpi[r] = "launches" /\ kid[r] < Kids(r)
  /\ mpi' = [mpi EXCEPT ![r] = "forked"]
  /\ IF kid[r] = 0 THEN dmn' = [dmn EXCEPT ![r] = "runs"] /\ UNCHANGED clnt
     ELSE clnt' = [clnt EXCEPT ![r] = "runs"] /\ UNCHANGED dmn
  /\ UNCHANGED <<job, kid, handler, missed, file, dmnVars, told, dies>>

(* fork() fails: -1 passes for the number of a child (powerrt.cc:239), and *)
(* the rank pauses although it has none.                                   *)
ForkFails(r) ==
  /\ mpi[r] = "launches" /\ kid[r] < Kids(r) /\ dies < MaxDies
  /\ mpi' = [mpi EXCEPT ![r] = "forked"] /\ dies' = dies + 1
  /\ UNCHANGED <<job, kid, handler, missed, file, dmn, dmnVars, told, clnt>>

Pause(r) ==
  /\ mpi[r] = "forked"
  /\ mpi' = [mpi EXCEPT ![r] = "paused"]
  /\ UNCHANGED <<job, kid, handler, missed, file, dmn, dmnVars, told, clnt, dies>>

Launched(r) ==
  /\ mpi[r] = "launches" /\ kid[r] = Kids(r)
  /\ mpi' = [mpi EXCEPT ![r] = "runs"]
  /\ UNCHANGED <<job, kid, handler, missed, file, dmn, dmnVars, told, clnt, dies>>

(* What signal s does to rank r: a paused rank goes on with the next child.*)
Deliver(r, s) ==
  LET mine == handler[r][s] # "default" \/ mpi[r] = "killed"
      kill == ~mine /\ s = "usr1"
      wake == mine /\ mpi[r] = "paused"
  IN
  /\ mpi' = IF kill THEN [mpi EXCEPT ![r] = "killed"]
            ELSE IF wake THEN [mpi EXCEPT ![r] = "launches"] ELSE mpi
  /\ kid' = IF wake THEN [kid EXCEPT ![r] = @ + 1] ELSE kid
  /\ missed' = IF mpi[r] = "forked" THEN [missed EXCEPT ![r] = TRUE] ELSE missed
  /\ handler' = IF handler[r][s] = "once" THEN [handler EXCEPT ![r][s] = "default"] ELSE handler

(* MPI_Finalize up to its barrier: the client is killed and waited for.    *)
Finalize(r) ==
  /\ mpi[r] = "runs"
  /\ mpi' = [mpi EXCEPT ![r] = "barrier"]
  /\ file' = [file EXCEPT ![r] = FALSE]
  /\ clnt' = [clnt EXCEPT ![r] = IF @ = "runs" THEN "dead" ELSE @]
  /\ UNCHANGED <<job, kid, handler, missed, dmn, dmnVars, told, dies>>

(* Mutant of Together: the barrier lets the rank through at once.          *)
TogetherNot == TRUE

Together == \A s \in Rank : mpi[s] \in {"barrier", "done"}

(* The daemon is killed.                                                   *)
Finishes(r) ==
  /\ mpi[r] = "barrier" /\ Together
  /\ mpi' = [mpi EXCEPT ![r] = "done"]
  /\ dmn' = [dmn EXCEPT ![r] = IF @ = "runs" THEN "dead" ELSE @]
  /\ UNCHANGED <<job, kid, handler, missed, file, dmnVars, told, clnt, dies>>

-----------------------------------------------------------------------------
(* pwrdaemon: the daemon of launcher r.                                    *)

(* The servers are srvr, srvr0, srvr1, and end at the first that has no    *)
(* arguments.                                                              *)
SrvrNames == <<"srvr", "srvr0", "srvr1">>

Plan(r) ==
  LET p   == ArgSets[Nid(r)]
      gap == {i \in DOMAIN SrvrNames : SrvrNames[i] \notin p} \union {Len(SrvrNames) + 1}
  IN (IF "rtr" \in p THEN <<"rtr">> ELSE <<>>)
     \o SubSeq(SrvrNames, 1, Min(gap) - 1)
     \o (IF "lgr" \in p THEN <<"lgr">> ELSE <<>>)

(* Mutant of CreateThread: main does not wait for the thread before.       *)
CreateThreadAtOnce(r) ==
  /\ dmn[r] = "runs" /\ Len(thr[r]) < Len(Plan(r))
  /\ thr' = [thr EXCEPT ![r] = Append(@, "builds")]
  /\ UNCHANGED <<job, mpi, kid, handler, missed, file, dmn, lock, told, clnt, dies>>

CreateThread(r) ==
  /\ dmn[r] = "runs" /\ ~lock[r] /\ Len(thr[r]) < Len(Plan(r))
  /\ lock' = [lock EXCEPT ![r] = TRUE]
  /\ thr' = [thr EXCEPT ![r] = Append(@, "builds")]
  /\ UNCHANGED <<job, mpi, kid, handler, missed, file, dmn, told, clnt, dies>>

(* Router n takes connections.                                             *)
Listens(n) ==
  \E r \in Launchers : Nid(r) = n /\ dmn[r] = "runs"
                       /\ \E i \in DOMAIN thr[r] : Plan(r)[i] = "rtr" /\ thr[r][i] # "builds"

(* The router reads the route file last, when it listens.                  *)
RtrListens(r, i) ==
  /\ dmn[r] = "runs" /\ thr[r][i] = "builds" /\ Plan(r)[i] = "rtr"
  /\ thr' = [thr EXCEPT ![r][i] = "listens"]
  /\ UNCHANGED <<job, mpi, kid, handler, missed, file, dmn, lock, told, clnt, dies>>

(* The router a thread connects to while it is built.                      *)
Needs(r, i) == IF Plan(r)[i] = "lgr" THEN Nid(r) ELSE Uplink[Nid(r)]

(* A constructor ends, and its thread unlocks.                             *)
Built(r, i) ==
  /\ dmn[r] = "runs"
  /\ \/ thr[r][i] = "listens" /\ file[r]
     \/ thr[r][i] = "builds" /\ Plan(r)[i] # "rtr" /\ Listens(Needs(r, i))
  /\ thr' = [thr EXCEPT ![r][i] = "works"]
  /\ lock' = [lock EXCEPT ![r] = FALSE]
  /\ UNCHANGED <<job, mpi, kid, handler, missed, file, dmn, told, clnt, dies>>

(* An end of the daemon, of which its parent is told.                      *)
Ends(r, how) == dmn' = [dmn EXCEPT ![r] = how] /\ Deliver(r, "chld")

(* A constructor fails: there is no route file, or 60 attempts to connect  *)
(* to the router have failed.                                              *)
BuildFails(r, i) ==
  /\ dmn[r] = "runs"
  /\ \/ thr[r][i] = "listens" /\ ~file[r] /\ Ends(r, "nofile")
     \/ thr[r][i] = "builds" /\ Plan(r)[i] # "rtr" /\ ~Listens(Needs(r, i)) /\ Ends(r, "dead")
  /\ UNCHANGED <<job, file, dmnVars, told, clnt, dies>>

(* Mutant of Ready: the daemon does not wait for its last thread.          *)
ReadySoon(r) ==
  /\ dmn[r] = "runs" /\ Len(thr[r]) = Len(Plan(r)) /\ "daemon" \notin told[r]
  /\ lock' = [lock EXCEPT ![r] = TRUE] /\ told' = [told EXCEPT ![r] = @ \union {"daemon"}]
  /\ Deliver(r, "usr1")
  /\ UNCHANGED <<job, file, dmn, thr, clnt, dies>>

(* Mutant of Ready: POWERRT_SIGNAL is not looked at.                       *)
ReadySilent(r) ==
  /\ dmn[r] = "runs" /\ ~lock[r] /\ Len(thr[r]) = Len(Plan(r)) /\ "daemon" \notin told[r]
  /\ lock' = [lock EXCEPT ![r] = TRUE] /\ told' = [told EXCEPT ![r] = @ \union {"daemon"}]
  /\ UNCHANGED <<job, mpi, kid, handler, missed, file, dmn, thr, clnt, dies>>

(* main has the lock once more, and signals.                               *)
Ready(r) ==
  /\ dmn[r] = "runs" /\ ~lock[r] /\ Len(thr[r]) = Len(Plan(r)) /\ "daemon" \notin told[r]
  /\ lock' = [lock EXCEPT ![r] = TRUE] /\ told' = [told EXCEPT ![r] = @ \union {"daemon"}]
  /\ Deliver(r, "usr1")
  /\ UNCHANGED <<job, file, dmn, thr, clnt, dies>>

(* A logger ends at the first call that fails, a server when its router    *)
(* has gone; a router never does.                                          *)
ThreadEnds(r, i) ==
  /\ dmn[r] = "runs" /\ thr[r][i] = "works" /\ Plan(r)[i] # "rtr"
  /\ (Plan(r)[i] = "lgr" \/ ~Listens(Needs(r, i)))
  /\ thr' = [thr EXCEPT ![r][i] = "ended"]
  /\ UNCHANGED <<job, mpi, kid, handler, missed, file, dmn, lock, told, clnt, dies>>

(* main has joined the servers and the router, and does not join the       *)
(* logger.                                                                 *)
MainReturns(r) ==
  /\ dmn[r] = "runs" /\ "daemon" \in told[r]
  /\ \A i \in DOMAIN thr[r] : Plan(r)[i] = "lgr" \/ thr[r][i] = "ended"
  /\ Ends(r, "dead")
  /\ UNCHANGED <<job, file, dmnVars, told, clnt, dies>>

DaemonDies(r) ==
  /\ dmn[r] = "runs" /\ dies < MaxDies /\ dies' = dies + 1
  /\ Ends(r, "dead")
  /\ UNCHANGED <<job, file, dmnVars, told, clnt>>

(* The client has its context and its object.                              *)
ClientReady(r) ==
  /\ clnt[r] = "runs" /\ "client" \notin told[r]
  /\ told' = [told EXCEPT ![r] = @ \union {"client"}]
  /\ Deliver(r, "usr1")
  /\ UNCHANGED <<job, file, dmn, dmnVars, clnt, dies>>

ClientDies(r) ==
  /\ clnt[r] = "runs" /\ dies < MaxDies /\ dies' = dies + 1
  /\ clnt' = [clnt EXCEPT ![r] = "dead"] /\ Deliver(r, "chld")
  /\ UNCHANGED <<job, file, dmn, dmnVars, told>>

-----------------------------------------------------------------------------
RankGoesOn(r) == Enter(r) \/ Follows(r) \/ Prepares(r) \/ Fork(r) \/ Pause(r) \/ Launched(r)

DaemonGoesOn(r) ==
  \/ CreateThread(r) \/ Ready(r) \/ MainReturns(r)
  \/ \E i \in DOMAIN thr[r] : RtrListens(r, i) \/ Built(r, i) \/ BuildFails(r, i)

LaunchNext ==
  \E r \in Rank :
    \/ RankGoesOn(r) \/ DaemonGoesOn(r) \/ ClientReady(r)
    \/ LaunchFails(r) \/ ForkFails(r) \/ Finalize(r) \/ Finishes(r) \/ DaemonDies(r) \/ ClientDies(r)
    \/ \E i \in DOMAIN thr[r] : ThreadEnds(r, i)

(* Every process and every thread is scheduled, and the attempts to        *)
(* connect are counted; nothing is said of how long the application runs.  *)
(* What they do ends, so that it is enough that one of them goes on.       *)
LaunchWork == \E r \in Rank : RankGoesOn(r) \/ DaemonGoesOn(r) \/ ClientReady(r)

LaunchFair == WF_launchVars(LaunchWork)

LaunchSpec == LaunchInit /\ [][LaunchNext]_launchVars /\ LaunchFair

-----------------------------------------------------------------------------
LaunchTypeOK ==
  /\ job \in Jobs /\ dies \in 0..MaxDies
  /\ mpi \in [Rank -> {"begins", "gathers", "launches", "forked", "paused", "runs", "barrier",
                       "done", "exited", "killed"}]
  /\ kid \in [Rank -> 0..2]
  /\ handler \in [Rank -> [{"usr1", "chld"} -> {"default", "ours", "once"}]]
  /\ missed \in [Rank -> BOOLEAN] /\ file \in [Rank -> BOOLEAN] /\ lock \in [Rank -> BOOLEAN]
  /\ dmn \in [Rank -> {"none", "runs", "dead", "nofile"}]
  /\ thr \in [Rank -> Seq({"builds", "listens", "works", "ended"})]
  /\ told \in [Rank -> SUBSET {"daemon", "client"}]
  /\ clnt \in [Rank -> {"none", "runs", "dead"}]

Building(r) == {i \in DOMAIN thr[r] : thr[r][i] \in {"builds", "listens"}}

(* At most one constructor of a daemon runs at a time, and none when the   *)
(* daemon has signalled: they share optind of getopt and the environment   *)
(* (pwrdaemon.cc).                                                         *)
OneBuilds ==
  \A r \in Rank : /\ Cardinality(Building(r)) <= 1
                  /\ "daemon" \in told[r] => Building(r) = {}

(* The application runs when the daemon of its node is ready, unless the   *)
(* daemon has died (pause in runtimeInit).                                 *)
StartedIsReady ==
  \A r \in Rank :
    /\ dmn[r] = "runs" /\ kid[r] > 0 => "daemon" \in told[r]
    /\ dmn[r] = "runs" /\ mpi[r] \in {"runs", "barrier"} =>
         Len(thr[r]) = Len(Plan(r)) /\ Building(r) = {}

(* No daemon of a job is killed while a client still runs on any node: the *)
(* barrier of MPI_Finalize.                                                *)
ClientsFirst ==
  \A r, s \in Rank : mpi[r] = "done" => clnt[s] # "runs" /\ mpi[s] \in {"barrier", "done"}

(* Every launcher writes the names of the hosts as they are and has the    *)
(* place in the list that the others give it, where names are padded or    *)
(* hosts come in the order of their numbers (createNidList).               *)
Padded == \A r, s \in Rank : job[r].width = job[s].width
Plain  == \A r \in Rank : job[r].width = Digits(job[r].id)
Sorted == \A r, s \in Rank : r <= s => job[r].id <= job[s].id

NamesRight ==
  Padded \/ (Plain /\ Sorted) =>
    \A r, s \in Launchers : mpi[r] \notin {"begins", "gathers"} => Written(r, s) = job[s]

(* The child a launcher waits for is not there.                            *)
Childless(r) == (IF kid[r] = 0 THEN dmn[r] ELSE clnt[r]) = "none"

(* A launcher that pauses goes on, unless the signal has come before the   *)
(* pause, the handler was good for one signal only, or the fork has failed *)
(* and there is no child to send one (pause in runtimeInit).               *)
GoesOn ==
  \A r \in Rank : mpi[r] = "paused"
    ~> (mpi[r] # "paused" \/ missed[r] \/ Childless(r)
        \/ \E s \in {"usr1", "chld"} : handler[r][s] = "default")
=============================================================================
