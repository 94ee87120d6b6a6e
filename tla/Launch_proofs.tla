--------------------------- MODULE Launch_proofs ---------------------------
(***************************************************************************)
(* Proofs, for any job and any arguments of its daemons, that one          *)
(* constructor runs at a time, that an application starts when its daemon  *)
(* is ready, that clients end before daemons, and that launchers write the *)
(* names of the hosts as they are.  The signals are what makes the second  *)
(* one hard: a rank is woken by whatever signal comes, so that it needs to *)
(* be known that none but the daemon's can come while it waits for it      *)
(* (Waits), and that none can kill it later (Ends).                        *)
(***************************************************************************)
EXTENDS Launch, FiniteSetTheorems, TLAPS

(* The mutex of main: locked while a constructor runs, and for good when   *)
(* the daemon has signalled.                                               *)
OneAtATime(r) ==
  /\ \A i, j \in Building(r) : i = j
  /\ ~lock[r] => Building(r) = {}
  /\ "daemon" \in told[r] => lock[r] /\ Building(r) = {} /\ Len(thr[r]) = Len(Plan(r))

(* Only launchers have children, and one after the other.                  *)
Launching(r) ==
  /\ mpi[r] \in {"launches", "forked", "paused"} \/ dmn[r] # "none" => FirstOn(r)
  /\ kid[r] <= Kids(r) /\ (mpi[r] \in {"forked", "paused"} => kid[r] < Kids(r))
  /\ clnt[r] # "none" => kid[r] > 0

Waits(r) ==
  /\ dmn[r] = "runs" /\ kid[r] > 0 => "daemon" \in told[r]
  /\ FirstOn(r) /\ mpi[r] \in {"runs", "barrier"} => kid[r] > 0

Ending(r) ==
  /\ mpi[r] \in {"barrier", "done"} => clnt[r] # "runs"
  /\ mpi[r] = "done" => dmn[r] # "runs"

EndTogether ==
  (\E r \in Rank : mpi[r] = "done") => \A s \in Rank : mpi[s] \in {"barrier", "done"}

RankInv(r) == OneAtATime(r) /\ Launching(r) /\ Waits(r) /\ Ending(r)

LaunchIInv == LaunchTypeOK /\ (\A r \in Rank : RankInv(r)) /\ EndTogether

-----------------------------------------------------------------------------
(* The job stays as it is, and with it what is computed from it.           *)
LEMMA JobStays ==
  ASSUME job' = job, NEW r
  PROVE  Plan(r)' = Plan(r) /\ Kids(r)' = Kids(r) /\ FirstOn(r)' = FirstOn(r)
<1>1. \A s : FirstOn(s)' = FirstOn(s)
  BY DEF FirstOn
<1>2. Launchers' = Launchers
  BY <1>1 DEF Launchers
<1>3. Nid(r)' = Nid(r)
  BY <1>2 DEF Nid
<1> QED BY <1>1, <1>3 DEF Plan, Kids

LEMMA KidsFacts ==
  ASSUME NEW r
  PROVE  Kids(r) \in 1..2
BY DEF Kids

(* What a rank's invariant depends on.                                     *)
LEMMA OthersStay ==
  ASSUME NEW r, job' = job, RankInv(r), mpi'[r] = mpi[r], kid'[r] = kid[r], dmn'[r] = dmn[r],
         clnt'[r] = clnt[r], lock'[r] = lock[r], thr'[r] = thr[r], told'[r] = told[r]
  PROVE  RankInv(r)'
<1>1. Plan(r)' = Plan(r) /\ Kids(r)' = Kids(r) /\ FirstOn(r)' = FirstOn(r)
  BY JobStays
<1>2. Building(r)' = Building(r)
  BY DEF Building
<1> QED BY <1>1, <1>2 DEF RankInv, OneAtATime, Launching, Waits, Ending

LEMMA LaunchInitInv == LaunchInit => LaunchIInv
<1> SUFFICES ASSUME LaunchInit PROVE LaunchIInv
  OBVIOUS
<1> USE DEF LaunchInit
<1>1. LaunchTypeOK
  BY LaunchAssumption DEF LaunchTypeOK
<1>2. ASSUME NEW r \in Rank PROVE RankInv(r)
  <2>1. Building(r) = {}
    BY DEF Building
  <2> QED BY <2>1, KidsFacts DEF RankInv, OneAtATime, Launching, Waits, Ending
<1> QED BY <1>1, <1>2 DEF LaunchIInv, EndTogether

-----------------------------------------------------------------------------
(* Steps of a rank alone.                                                  *)
LEMMA RankStepInv ==
  ASSUME LaunchIInv, NEW r \in Rank,
         Enter(r) \/ Follows(r) \/ Prepares(r) \/ LaunchFails(r) \/ Pause(r) \/ Launched(r)
  PROVE  LaunchIInv'
<1> USE DEF LaunchIInv
<1>1. /\ UNCHANGED <<job, kid, dmn, clnt, lock, thr, told>>
      /\ mpi[r] \in {"begins", "gathers", "launches", "forked"}
      /\ \E m \in {"gathers", "runs", "launches", "exited", "paused"} : mpi' = [mpi EXCEPT ![r] = m]
  BY DEF Enter, Follows, Prepares, LaunchFails, Pause, Launched, Gathered, dmnVars
<1>2. LaunchTypeOK'
  <2>1. handler' \in [Rank -> [{"usr1", "chld"} -> {"default", "ours", "once"}]]
    <3>1. CASE Prepares(r)
      BY <3>1 DEF Prepares, LaunchTypeOK
    <3>2. CASE ~Prepares(r)
      BY <3>2 DEF Enter, Follows, LaunchFails, Pause, Launched, LaunchTypeOK
    <3> QED BY <3>1, <3>2
  <2>2. missed' \in [Rank -> BOOLEAN] /\ file' \in [Rank -> BOOLEAN]
    BY DEF Enter, Follows, Prepares, LaunchFails, Pause, Launched, LaunchTypeOK
  <2>3. dies' \in 0..MaxDies
    <3>1. dies' = dies \/ (dies' = dies + 1 /\ dies < MaxDies)
      BY DEF Enter, Follows, Prepares, LaunchFails, Pause, Launched
    <3> QED BY <3>1, LaunchAssumption DEF LaunchTypeOK
  <2> QED BY <1>1, <2>1, <2>2, <2>3 DEF LaunchTypeOK
<1>3. RankInv(r)'
  <2>1. Plan(r)' = Plan(r) /\ Kids(r)' = Kids(r) /\ FirstOn(r)' = FirstOn(r) /\ Building(r)' = Building(r)
    BY <1>1, JobStays DEF Building
  <2>2. OneAtATime(r)'
    BY <1>1, <2>1 DEF RankInv, OneAtATime
  <2>3. mpi'[r] \in {"launches", "forked", "paused"} => FirstOn(r) /\ (mpi'[r] = "paused" => mpi[r] = "forked")
    BY DEF Enter, Follows, Prepares, LaunchFails, Pause, Launched, LaunchTypeOK, RankInv, Launching
  <2>4. mpi'[r] = "runs" => ~FirstOn(r) \/ kid[r] = Kids(r)
    BY DEF Enter, Follows, Prepares, LaunchFails, Pause, Launched, LaunchTypeOK
  <2>5. mpi'[r] \notin {"forked", "barrier", "done"}
    BY <1>1 DEF LaunchTypeOK
  <2>6. Launching(r)'
    BY <1>1, <2>1, <2>3, <2>5 DEF RankInv, Launching
  <2>7. Waits(r)'
    BY <1>1, <2>1, <2>4, <2>5, KidsFacts DEF RankInv, Waits
  <2> QED BY <2>2, <2>5, <2>6, <2>7 DEF RankInv, Ending
<1>4. ASSUME NEW q \in Rank, q # r PROVE RankInv(q)'
  BY <1>1, <1>4, OthersStay DEF LaunchTypeOK
<1>5. EndTogether'
  BY <1>1 DEF EndTogether, LaunchTypeOK
<1> QED BY <1>2, <1>3, <1>4, <1>5

LEMMA ForkInv ==
  ASSUME LaunchIInv, NEW r \in Rank, Fork(r) \/ ForkFails(r)
  PROVE  LaunchIInv'
<1> USE DEF LaunchIInv, Fork, ForkFails
<1>1. /\ UNCHANGED <<job, kid, lock, thr, told>> /\ mpi[r] = "launches" /\ kid[r] < Kids(r)
      /\ mpi' = [mpi EXCEPT ![r] = "forked"]
      /\ \A q \in Rank : q # r => dmn'[q] = dmn[q] /\ clnt'[q] = clnt[q] /\ mpi'[q] = mpi[q]
  BY DEF dmnVars, LaunchTypeOK
<1>2. LaunchTypeOK'
  <2>1. dies' \in 0..MaxDies
    BY LaunchAssumption DEF LaunchTypeOK
  <2> QED BY <1>1, <2>1 DEF LaunchTypeOK
<1>3. RankInv(r)'
  <2>1. Plan(r)' = Plan(r) /\ Kids(r)' = Kids(r) /\ FirstOn(r)' = FirstOn(r) /\ Building(r)' = Building(r)
    BY <1>1, JobStays DEF Building
  <2>2. OneAtATime(r)'
    BY <1>1, <2>1 DEF RankInv, OneAtATime
  <2>3. mpi'[r] = "forked" /\ FirstOn(r)
    BY <1>1 DEF LaunchTypeOK, RankInv, Launching
  <2>4. (kid[r] > 0 => dmn'[r] = dmn[r]) /\ (kid[r] = 0 => clnt'[r] = clnt[r]) /\ kid[r] \in Nat
    <3>1. kid[r] \in 0..2
      BY DEF LaunchTypeOK
    <3> QED BY <3>1
  <2>5. Launching(r)'
    BY <1>1, <2>1, <2>3, <2>4 DEF RankInv, Launching
  <2>6. Waits(r)'
    BY <1>1, <2>1, <2>3, <2>4 DEF RankInv, Waits
  <2> QED BY <2>2, <2>3, <2>5, <2>6 DEF RankInv, Ending
<1>4. ASSUME NEW q \in Rank, q # r PROVE RankInv(q)'
  BY <1>1, <1>4, OthersStay
<1>5. EndTogether'
  BY <1>1 DEF EndTogether, LaunchTypeOK
<1> QED BY <1>2, <1>3, <1>4, <1>5

(* The end of a job.                                                       *)
LEMMA FinalizeInv ==
  ASSUME LaunchIInv, NEW r \in Rank, Finalize(r) \/ Finishes(r)
  PROVE  LaunchIInv'
<1> USE DEF LaunchIInv
<1>1. /\ UNCHANGED <<job, kid, lock, thr, told>>
      /\ \/ /\ mpi[r] = "runs" /\ mpi' = [mpi EXCEPT ![r] = "barrier"] /\ dmn' = dmn
            /\ clnt' = [clnt EXCEPT ![r] = IF @ = "runs" THEN "dead" ELSE @]
         \/ /\ mpi[r] = "barrier" /\ Together /\ mpi' = [mpi EXCEPT ![r] = "done"] /\ clnt' = clnt
            /\ dmn' = [dmn EXCEPT ![r] = IF @ = "runs" THEN "dead" ELSE @]
  BY DEF Finalize, Finishes, dmnVars
<1>2. LaunchTypeOK'
  <2>1. handler' = handler /\ missed' = missed /\ dies' = dies /\ file' \in [Rank -> BOOLEAN]
    BY DEF Finalize, Finishes, LaunchTypeOK
  <2> QED BY <1>1, <2>1 DEF LaunchTypeOK
<1>3. RankInv(r)'
  <2>1. Plan(r)' = Plan(r) /\ Kids(r)' = Kids(r) /\ FirstOn(r)' = FirstOn(r) /\ Building(r)' = Building(r)
    BY <1>1, JobStays DEF Building
  <2>2. OneAtATime(r)'
    BY <1>1, <2>1 DEF RankInv, OneAtATime
  <2>3. /\ mpi'[r] \in {"barrier", "done"} /\ mpi[r] \in {"runs", "barrier"}
        /\ clnt'[r] # "runs" /\ (clnt'[r] = "none" <=> clnt[r] = "none")
        /\ (dmn'[r] = "none" <=> dmn[r] = "none") /\ (dmn'[r] = "runs" => dmn[r] = "runs")
        /\ (mpi'[r] = "done" => dmn'[r] # "runs")
    BY <1>1 DEF LaunchTypeOK, RankInv, Ending
  <2> QED BY <1>1, <2>1, <2>2, <2>3 DEF RankInv, Launching, Waits, Ending
<1>4. ASSUME NEW q \in Rank, q # r PROVE RankInv(q)'
  <2>1. dmn'[q] = dmn[q] /\ clnt'[q] = clnt[q] /\ mpi'[q] = mpi[q]
    BY <1>1, <1>4 DEF LaunchTypeOK
  <2> QED BY <1>1, <2>1, OthersStay
<1>5. EndTogether'
  BY <1>1 DEF EndTogether, LaunchTypeOK, Together
<1> QED BY <1>2, <1>3, <1>4, <1>5

-----------------------------------------------------------------------------
(* Signals.                                                                *)
LEMMA DeliverFacts ==
  ASSUME LaunchTypeOK, NEW r \in Rank, NEW s \in {"usr1", "chld"}, Deliver(r, s)
  PROVE  /\ handler' \in [Rank -> [{"usr1", "chld"} -> {"default", "ours", "once"}]]
         /\ missed' \in [Rank -> BOOLEAN]
         /\ \/ mpi' = mpi /\ kid' = kid
            \/ s = "usr1" /\ mpi' = [mpi EXCEPT ![r] = "killed"] /\ kid' = kid
            \/ /\ mpi[r] = "paused" /\ mpi' = [mpi EXCEPT ![r] = "launches"]
               /\ kid' = [kid EXCEPT ![r] = @ + 1]
<1>1. handler' \in [Rank -> [{"usr1", "chld"} -> {"default", "ours", "once"}]]
  BY DEF Deliver, LaunchTypeOK
<1>2. missed' \in [Rank -> BOOLEAN]
  BY DEF Deliver, LaunchTypeOK
<1>3. \/ mpi' = mpi /\ kid' = kid
      \/ s = "usr1" /\ mpi' = [mpi EXCEPT ![r] = "killed"] /\ kid' = kid
      \/ /\ mpi[r] = "paused" /\ mpi' = [mpi EXCEPT ![r] = "launches"]
         /\ kid' = [kid EXCEPT ![r] = @ + 1]
  BY DEF Deliver
<1> QED BY <1>1, <1>2, <1>3

(* A signal is harmless if the one that sends it does not run after it, or *)
(* has just said that it is ready; none comes by which a rank that waits   *)
(* for the others would be killed.                                         *)
LEMMA SignalInv ==
  ASSUME LaunchIInv, NEW r \in Rank, NEW s \in {"usr1", "chld"}, Deliver(r, s),
         UNCHANGED <<job, thr, file>>, dies' \in 0..MaxDies,
         \A q \in Rank : q # r => dmn'[q] = dmn[q] /\ clnt'[q] = clnt[q]
                                  /\ lock'[q] = lock[q] /\ told'[q] = told[q],
         dmn' \in [Rank -> {"none", "runs", "dead", "nofile"}], clnt' \in [Rank -> {"none", "runs", "dead"}],
         lock' \in [Rank -> BOOLEAN], told' \in [Rank -> SUBSET {"daemon", "client"}],
         OneAtATime(r)', dmn'[r] = "none" <=> dmn[r] = "none", clnt'[r] = "none" <=> clnt[r] = "none",
         dmn'[r] = "runs" => dmn[r] = "runs", clnt'[r] = "runs" => clnt[r] = "runs",
         told[r] \subseteq told'[r],
         dmn'[r] = "runs" => ("daemon" \in told'[r] \/ kid[r] > 0),
         s = "usr1" => mpi[r] \notin {"barrier", "done"}
  PROVE  LaunchIInv'
<1> USE DEF LaunchIInv
<1>1. /\ handler' \in [Rank -> [{"usr1", "chld"} -> {"default", "ours", "once"}]]
      /\ missed' \in [Rank -> BOOLEAN]
      /\ \/ mpi' = mpi /\ kid' = kid
         \/ s = "usr1" /\ mpi' = [mpi EXCEPT ![r] = "killed"] /\ kid' = kid
         \/ /\ mpi[r] = "paused" /\ mpi' = [mpi EXCEPT ![r] = "launches"]
            /\ kid' = [kid EXCEPT ![r] = @ + 1]
  BY DeliverFacts
<1>2. /\ mpi \in [Rank -> {"begins", "gathers", "launches", "forked", "paused", "runs", "barrier",
                           "done", "exited", "killed"}]
      /\ kid \in [Rank -> 0..2]
  BY DEF LaunchTypeOK
<1>3. \A q \in Rank : q # r => mpi'[q] = mpi[q] /\ kid'[q] = kid[q]
  BY <1>1, <1>2
<1>4. \/ mpi'[r] = mpi[r] /\ kid'[r] = kid[r]
      \/ s = "usr1" /\ mpi'[r] = "killed" /\ kid'[r] = kid[r]
      \/ mpi[r] = "paused" /\ mpi'[r] = "launches" /\ kid'[r] = kid[r] + 1
  BY <1>1, <1>2
<1>5. kid[r] \in 0..2 /\ Kids(r) \in 1..2 /\ (mpi[r] = "paused" => kid[r] < Kids(r))
  BY <1>2, KidsFacts DEF RankInv, Launching
<1>6. LaunchTypeOK'
  <2>1. mpi' \in [Rank -> {"begins", "gathers", "launches", "forked", "paused", "runs", "barrier",
                           "done", "exited", "killed"}]
    BY <1>1, <1>2
  <2>2. kid' \in [Rank -> 0..2]
    BY <1>1, <1>2, <1>5
  <2> QED BY <1>1, <2>1, <2>2 DEF LaunchTypeOK
<1>7. RankInv(r)'
  <2>1. Plan(r)' = Plan(r) /\ Kids(r)' = Kids(r) /\ FirstOn(r)' = FirstOn(r)
    BY JobStays
  <2>2. Launching(r)'
    BY <1>4, <1>5, <2>1 DEF RankInv, Launching
  <2>3. Waits(r)'
    BY <1>4, <1>5, <2>1 DEF RankInv, Waits
  <2>4. Ending(r)'
    BY <1>4 DEF RankInv, Ending
  <2> QED BY <2>2, <2>3, <2>4 DEF RankInv
<1>8. ASSUME NEW q \in Rank, q # r PROVE RankInv(q)'
  BY <1>3, <1>8, OthersStay
<1>9. EndTogether'
  BY <1>2, <1>3, <1>4 DEF EndTogether
<1> QED BY <1>6, <1>7, <1>8, <1>9

(* The threads of a daemon.                                                *)
LEMMA ThreadsInv ==
  ASSUME LaunchIInv, NEW r \in Rank, UNCHANGED <<job, mpi, kid, handler, missed, file, dmn, told, clnt, dies>>,
         lock' \in [Rank -> BOOLEAN],
         thr' \in [Rank -> Seq({"builds", "listens", "works", "ended"})],
         \A q \in Rank : q # r => lock'[q] = lock[q] /\ thr'[q] = thr[q],
         OneAtATime(r)'
  PROVE  LaunchIInv'
<1> USE DEF LaunchIInv
<1>1. LaunchTypeOK'
  BY DEF LaunchTypeOK
<1>2. RankInv(r)'
  <2>1. Plan(r)' = Plan(r) /\ Kids(r)' = Kids(r) /\ FirstOn(r)' = FirstOn(r)
    BY JobStays
  <2> QED BY <2>1 DEF RankInv, Launching, Waits, Ending
<1>3. ASSUME NEW q \in Rank, q # r PROVE RankInv(q)'
  BY <1>3, OthersStay
<1>4. EndTogether'
  BY DEF EndTogether
<1> QED BY <1>1, <1>2, <1>3, <1>4

LEMMA CreateThreadInv ==
  ASSUME LaunchIInv, NEW r \in Rank, CreateThread(r)
  PROVE  LaunchIInv'
<1> DEFINE S == {"builds", "listens", "works", "ended"}
<1> USE DEF LaunchIInv, CreateThread
<1>1. thr[r] \in Seq(S) /\ thr \in [Rank -> Seq(S)] /\ lock \in [Rank -> BOOLEAN]
  BY DEF LaunchTypeOK
<1>2. thr'[r] = Append(thr[r], "builds") /\ lock'[r] = TRUE
  BY <1>1
<1>3. /\ thr'[r] \in Seq(S) /\ DOMAIN thr'[r] = DOMAIN thr[r] \union {Len(thr[r]) + 1}
      /\ \A i \in DOMAIN thr[r] : thr'[r][i] = thr[r][i]
  BY <1>1, <1>2
<1>4. thr' \in [Rank -> Seq(S)] /\ \A q \in Rank : q # r => lock'[q] = lock[q] /\ thr'[q] = thr[q]
  BY <1>1, <1>3
<1>5. Building(r) = {} /\ "daemon" \notin told[r]
  BY <1>1 DEF RankInv, OneAtATime
<1>6. Building(r)' \subseteq {Len(thr[r]) + 1}
  BY <1>3, <1>5 DEF Building
<1>7. OneAtATime(r)'
  BY <1>2, <1>5, <1>6 DEF OneAtATime
<1> QED BY <1>1, <1>4, <1>7, ThreadsInv DEF LaunchTypeOK

(* A thread goes on: what it has been and what it is.                      *)
LEMMA ThreadGoesOn ==
  ASSUME LaunchIInv, NEW r \in Rank, NEW i \in DOMAIN thr[r], NEW to \in {"listens", "works", "ended"},
         thr' = [thr EXCEPT ![r][i] = to]
  PROVE  /\ thr' \in [Rank -> Seq({"builds", "listens", "works", "ended"})]
         /\ \A q \in Rank : q # r => thr'[q] = thr[q]
         /\ Len(thr'[r]) = Len(thr[r])
         /\ Building(r)' = IF to = "listens" THEN Building(r) \union {i} ELSE Building(r) \ {i}
<1> DEFINE S == {"builds", "listens", "works", "ended"}
<1>1. thr[r] \in Seq(S) /\ thr \in [Rank -> Seq(S)]
  BY DEF LaunchIInv, LaunchTypeOK
<1>2. thr'[r] = [thr[r] EXCEPT ![i] = to]
  BY <1>1
<1>3. /\ thr'[r] \in Seq(S) /\ Len(thr'[r]) = Len(thr[r]) /\ DOMAIN thr'[r] = DOMAIN thr[r]
      /\ thr'[r][i] = to /\ \A j \in DOMAIN thr[r] : j # i => thr'[r][j] = thr[r][j]
  BY <1>1, <1>2
<1>4. thr' \in [Rank -> Seq(S)] /\ \A q \in Rank : q # r => thr'[q] = thr[q]
  BY <1>1, <1>3
<1>5. Building(r)' = IF to = "listens" THEN Building(r) \union {i} ELSE Building(r) \ {i}
  BY <1>3 DEF Building
<1> QED BY <1>3, <1>4, <1>5

LEMMA ThreadInv ==
  ASSUME LaunchIInv, NEW r \in Rank, NEW i \in DOMAIN thr[r],
         RtrListens(r, i) \/ Built(r, i) \/ ThreadEnds(r, i)
  PROVE  LaunchIInv'
<1> USE DEF LaunchIInv
<1>1. UNCHANGED <<job, mpi, kid, handler, missed, file, dmn, told, clnt, dies>>
  BY DEF RtrListens, Built, ThreadEnds
<1>2. lock \in [Rank -> BOOLEAN]
  BY DEF LaunchTypeOK
<1>3. Plan(r)' = Plan(r)
  BY <1>1, JobStays
<1>4. CASE RtrListens(r, i)
  <2>1. thr' = [thr EXCEPT ![r][i] = "listens"] /\ lock' = lock /\ i \in Building(r)
    BY <1>4 DEF RtrListens, Building
  <2>2. Building(r)' = Building(r) \union {i} /\ Len(thr'[r]) = Len(thr[r])
    BY <2>1, ThreadGoesOn
  <2>3. Building(r)' = Building(r)
    BY <2>1, <2>2
  <2>4. OneAtATime(r)'
    BY <1>1, <1>3, <2>1, <2>2, <2>3 DEF RankInv, OneAtATime
  <2> QED BY <1>1, <1>2, <2>1, <2>4, ThreadGoesOn, ThreadsInv
<1>5. CASE Built(r, i)
  <2>1. /\ thr' = [thr EXCEPT ![r][i] = "works"] /\ lock' = [lock EXCEPT ![r] = FALSE]
        /\ i \in Building(r)
    BY <1>5 DEF Built, Building
  <2>2. Building(r)' = {}
    <3>1. Building(r)' = Building(r) \ {i}
      BY <2>1, ThreadGoesOn
    <3> QED BY <2>1, <3>1 DEF RankInv, OneAtATime
  <2>3. OneAtATime(r)'
    BY <1>1, <2>1, <2>2 DEF RankInv, OneAtATime
  <2> QED BY <1>1, <1>2, <2>1, <2>3, ThreadGoesOn, ThreadsInv
<1>6. CASE ThreadEnds(r, i)
  <2>1. thr' = [thr EXCEPT ![r][i] = "ended"] /\ lock' = lock
    BY <1>6 DEF ThreadEnds
  <2>2. Building(r)' \subseteq Building(r) /\ Len(thr'[r]) = Len(thr[r])
    BY <2>1, ThreadGoesOn
  <2>3. OneAtATime(r)'
    BY <1>1, <1>3, <2>1, <2>2 DEF RankInv, OneAtATime
  <2> QED BY <1>1, <1>2, <2>1, <2>3, ThreadGoesOn, ThreadsInv
<1> QED BY <1>4, <1>5, <1>6

(* The daemon is ready: it is what its parent waits for.                   *)
LEMMA ReadyInv ==
  ASSUME LaunchIInv, NEW r \in Rank, Ready(r)
  PROVE  LaunchIInv'
<1> USE DEF LaunchIInv, Ready
<1>1. lock \in [Rank -> BOOLEAN] /\ told \in [Rank -> SUBSET {"daemon", "client"}]
  BY DEF LaunchTypeOK
<1>2. /\ lock'[r] = TRUE /\ told'[r] = told[r] \union {"daemon"}
      /\ lock' \in [Rank -> BOOLEAN] /\ told' \in [Rank -> SUBSET {"daemon", "client"}]
      /\ \A q \in Rank : q # r => lock'[q] = lock[q] /\ told'[q] = told[q]
  BY <1>1
<1>3. Building(r)' = Building(r) /\ Building(r) = {} /\ Plan(r)' = Plan(r)
  BY JobStays DEF Building, RankInv, OneAtATime
<1>4. OneAtATime(r)'
  BY <1>2, <1>3 DEF OneAtATime
<1>5. mpi[r] \notin {"barrier", "done"}
  BY DEF RankInv, Waits, Ending, Launching
<1> QED BY <1>2, <1>4, <1>5, SignalInv DEF LaunchTypeOK

(* Ends of the daemon.                                                     *)
LEMMA EndsInv ==
  ASSUME LaunchIInv, NEW r \in Rank, dmn[r] = "runs", NEW how \in {"dead", "nofile"}, Ends(r, how),
         UNCHANGED <<job, file, lock, thr, told, clnt>>, dies' \in 0..MaxDies
  PROVE  LaunchIInv'
<1> USE DEF LaunchIInv, Ends
<1>1. /\ dmn' \in [Rank -> {"none", "runs", "dead", "nofile"}] /\ dmn'[r] = how
      /\ \A q \in Rank : q # r => dmn'[q] = dmn[q]
  BY DEF LaunchTypeOK
<1>2. OneAtATime(r)'
  BY JobStays DEF RankInv, OneAtATime, Building
<1> QED BY <1>1, <1>2, SignalInv DEF LaunchTypeOK

LEMMA DaemonEndsInv ==
  ASSUME LaunchIInv, NEW r \in Rank,
         MainReturns(r) \/ DaemonDies(r) \/ (\E i \in DOMAIN thr[r] : BuildFails(r, i))
  PROVE  LaunchIInv'
<1>1. /\ dmn[r] = "runs" /\ UNCHANGED <<job, file, lock, thr, told, clnt>>
      /\ \E how \in {"dead", "nofile"} : Ends(r, how)
  BY DEF MainReturns, DaemonDies, BuildFails, dmnVars
<1>2. dies' \in 0..MaxDies
  <2>1. dies' = dies \/ (dies' = dies + 1 /\ dies < MaxDies)
    BY DEF MainReturns, DaemonDies, BuildFails
  <2> QED BY <2>1, LaunchAssumption DEF LaunchIInv, LaunchTypeOK
<1> QED BY <1>1, <1>2, EndsInv

LEMMA ClientInv ==
  ASSUME LaunchIInv, NEW r \in Rank, ClientReady(r) \/ ClientDies(r)
  PROVE  LaunchIInv'
<1> USE DEF LaunchIInv
<1>1. clnt[r] = "runs" /\ UNCHANGED <<job, file, dmn, lock, thr>>
  BY DEF ClientReady, ClientDies, dmnVars
<1>2. kid[r] > 0 /\ mpi[r] \notin {"barrier", "done"}
  BY <1>1 DEF RankInv, Launching, Ending
<1>3. /\ told' \in [Rank -> SUBSET {"daemon", "client"}] /\ told[r] \subseteq told'[r]
      /\ "daemon" \in told'[r] => "daemon" \in told[r]
      /\ clnt' \in [Rank -> {"none", "runs", "dead"}] /\ clnt'[r] # "none"
      /\ \A q \in Rank : q # r => told'[q] = told[q] /\ clnt'[q] = clnt[q]
  <2>1. CASE ClientReady(r)
    BY <1>1, <2>1 DEF ClientReady, LaunchTypeOK
  <2>2. CASE ClientDies(r)
    BY <1>1, <2>2 DEF ClientDies, LaunchTypeOK
  <2> QED BY <2>1, <2>2
<1>4. OneAtATime(r)'
  BY <1>1, <1>3, JobStays DEF RankInv, OneAtATime, Building
<1>5. dies' \in 0..MaxDies
  <2>1. dies' = dies \/ (dies' = dies + 1 /\ dies < MaxDies)
    BY DEF ClientReady, ClientDies
  <2> QED BY <2>1, LaunchAssumption DEF LaunchTypeOK
<1>6. Deliver(r, "usr1") \/ Deliver(r, "chld")
  BY DEF ClientReady, ClientDies
<1> QED BY <1>1, <1>2, <1>3, <1>4, <1>5, <1>6, SignalInv DEF LaunchTypeOK

-----------------------------------------------------------------------------
LEMMA LaunchStep == LaunchIInv /\ [LaunchNext]_launchVars => LaunchIInv'
<1> SUFFICES ASSUME LaunchIInv, [LaunchNext]_launchVars PROVE LaunchIInv'
  OBVIOUS
<1>1. ASSUME NEW r \in Rank, RankGoesOn(r) \/ LaunchFails(r) \/ ForkFails(r) PROVE LaunchIInv'
  BY <1>1, RankStepInv, ForkInv DEF RankGoesOn
<1>2. ASSUME NEW r \in Rank, DaemonGoesOn(r) PROVE LaunchIInv'
  BY <1>2, CreateThreadInv, ReadyInv, DaemonEndsInv, ThreadInv DEF DaemonGoesOn
<1>3. ASSUME NEW r \in Rank, ClientReady(r) \/ ClientDies(r) PROVE LaunchIInv'
  BY <1>3, ClientInv
<1>4. ASSUME NEW r \in Rank, Finalize(r) \/ Finishes(r) PROVE LaunchIInv'
  BY <1>4, FinalizeInv
<1>5. ASSUME NEW r \in Rank, DaemonDies(r) PROVE LaunchIInv'
  BY <1>5, DaemonEndsInv
<1>6. ASSUME NEW r \in Rank, NEW i \in DOMAIN thr[r], ThreadEnds(r, i) PROVE LaunchIInv'
  BY <1>6, ThreadInv
<1>7. CASE UNCHANGED launchVars
  <2>1. LaunchTypeOK' /\ EndTogether'
    BY <1>7 DEF launchVars, dmnVars, LaunchIInv, LaunchTypeOK, EndTogether
  <2>2. ASSUME NEW r \in Rank PROVE RankInv(r)'
    BY <1>7, OthersStay DEF launchVars, dmnVars, LaunchIInv
  <2> QED BY <2>1, <2>2 DEF LaunchIInv
<1> QED BY <1>1, <1>2, <1>3, <1>4, <1>5, <1>6, <1>7 DEF LaunchNext

(* LaunchIInv holds of every job, whatever dies and whenever a signal      *)
(* comes (powerrt.cc, pwrdaemon.cc).                                       *)
THEOREM LaunchInductive == LaunchSpec => []LaunchIInv
BY LaunchInitInv, LaunchStep, PTL DEF LaunchSpec

(* Two constructors of a daemon never run at a time, and none runs when    *)
(* the daemon has signalled.                                               *)
THEOREM OneBuildsAtATime == LaunchSpec => []OneBuilds
<1>1. LaunchIInv => OneBuilds
  <2> SUFFICES ASSUME LaunchIInv, NEW r \in Rank
               PROVE  Cardinality(Building(r)) <= 1 /\ ("daemon" \in told[r] => Building(r) = {})
    BY DEF OneBuilds
  <2>1. OneAtATime(r)
    BY DEF LaunchIInv, RankInv
  <2>2. CASE Building(r) = {}
    BY <2>1, <2>2, FS_EmptySet DEF OneAtATime
  <2>3. CASE Building(r) # {}
    <3>1. PICK i : Building(r) = {i}
      BY <2>1, <2>3 DEF OneAtATime
    <3>2. Cardinality({i}) = 1
      BY FS_Singleton
    <3> QED BY <2>1, <3>1, <3>2 DEF OneAtATime
  <2> QED BY <2>2, <2>3
<1> QED BY LaunchInductive, <1>1, PTL

(* An application runs when the daemon of its node is ready, unless the    *)
(* daemon has died, although any signal wakes the rank that waits for it.  *)
THEOREM StartedWhenReady == LaunchSpec => []StartedIsReady
<1>1. LaunchIInv => StartedIsReady
  <2> SUFFICES ASSUME LaunchIInv, NEW r \in Rank
               PROVE  /\ dmn[r] = "runs" /\ kid[r] > 0 => "daemon" \in told[r]
                      /\ dmn[r] = "runs" /\ mpi[r] \in {"runs", "barrier"} =>
                           Len(thr[r]) = Len(Plan(r)) /\ Building(r) = {}
    BY DEF StartedIsReady
  <2> QED BY DEF LaunchIInv, RankInv, OneAtATime, Launching, Waits
<1> QED BY LaunchInductive, <1>1, PTL

(* No daemon of the job is killed while a client runs on any node: no rank *)
(* that waits at the barrier of MPI_Finalize is killed by a late signal.   *)
THEOREM ClientsEndFirst == LaunchSpec => []ClientsFirst
<1>1. LaunchIInv => ClientsFirst
  BY DEF LaunchIInv, RankInv, Ending, EndTogether, ClientsFirst
<1> QED BY LaunchInductive, <1>1, PTL

-----------------------------------------------------------------------------
(* A larger number has at least as many digits.                            *)
LEMMA DigitsMonotone ==
  ASSUME NEW m \in Nat, NEW n \in Nat, m <= n
  PROVE  Digits(m) \in Nat /\ Digits(m) <= Digits(n)
<1> DEFINE T(x) == {i \in 1..9 : Tens[i] <= x}
<1>1. \A i \in 1..9 : Tens[i] \in Nat
  BY SMT DEF Tens
<1>2. IsFiniteSet(1..9)
  <2>1. 1 \in Int /\ 9 \in Int
    OBVIOUS
  <2> QED BY <2>1, FS_Interval
<1>3. T(n) \subseteq 1..9
  OBVIOUS
<1>4. T(m) \subseteq T(n)
  BY <1>1
<1>5. IsFiniteSet(T(n))
  BY <1>2, <1>3, FS_Subset
<1>6. /\ Cardinality(T(m)) <= Cardinality(T(n))
      /\ Cardinality(T(m)) \in Nat /\ Cardinality(T(n)) \in Nat
  BY <1>4, <1>5, FS_Subset, FS_CardinalityType
<1> HIDE DEF T
<1>7. Digits(m) = 1 + Cardinality(T(m)) /\ Digits(n) = 1 + Cardinality(T(n))
  BY DEF Digits, T
<1> QED BY <1>6, <1>7

(* A launcher writes the names of all hosts as they are, if they are all   *)
(* padded or hosts come in the order of their numbers (createNidList).     *)
THEOREM NamesAsTheyAre == LaunchSpec => []NamesRight
<1>1. LaunchTypeOK => NamesRight
  <2> SUFFICES ASSUME LaunchTypeOK, Padded \/ (Plain /\ Sorted), NEW r \in Launchers, NEW s \in Launchers
               PROVE  Written(r, s) = job[s]
    BY DEF NamesRight
  <2>1. /\ job \in [Rank -> Host] /\ r \in Rank /\ s \in Rank
        /\ \A q \in Rank : Digits(job[q].id) <= job[q].width
    BY LaunchAssumption DEF LaunchTypeOK, Launchers
  <2>2. /\ job[s] = [id |-> job[s].id, width |-> job[s].width]
        /\ \A q \in Rank : job[q].id \in Nat /\ job[q].width \in Nat /\ Digits(job[q].id) \in Nat
    BY <2>1, DigitsMonotone DEF Host
  <2>3. \A a, b \in Nat : (a >= b => Max({a, b}) = a) /\ (a <= b => Max({a, b}) = b)
    BY DEF Max
  <2>4. CASE Padded
    <3>1. Pads(r) /\ job[r].width = job[s].width /\ Digits(job[s].id) <= job[r].width
      <4>1. \A q \in 1..(r - 1) : q \in Rank
        BY <2>1, LaunchAssumption DEF Rank
      <4> QED BY <2>1, <2>4, <4>1 DEF Pads, Padded
    <3>2. Max({job[r].width, Digits(job[s].id)}) = job[s].width
      BY <2>1, <2>2, <2>3, <3>1
    <3> QED BY <2>2, <3>1, <3>2 DEF Written
  <2>5. CASE Plain /\ Sorted /\ Pads(r)
    <3>1. job[r].width = Digits(job[r].id) /\ job[s].width = Digits(job[s].id)
      BY <2>1, <2>5 DEF Plain
    <3>2. Digits(job[r].id) <= Digits(job[s].id)
      <4>1. CASE r <= s
        <5>1. job[r].id <= job[s].id
          BY <2>1, <2>5, <4>1 DEF Sorted
        <5> QED BY <2>1, <2>2, <5>1, DigitsMonotone
      <4>2. CASE s < r
        <5>1. s \in 1..(r - 1)
          BY <2>1, <4>2 DEF Rank
        <5>2. job[s].width = job[r].width
          BY <2>5, <5>1 DEF Pads
        <5> QED BY <2>2, <2>1, <3>1, <5>2
      <4> QED BY <2>1, <4>1, <4>2 DEF Rank
    <3>3. Max({job[r].width, Digits(job[s].id)}) = job[s].width
      BY <2>1, <2>2, <2>3, <3>1, <3>2
    <3> QED BY <2>2, <2>5, <3>3 DEF Written
  <2>6. CASE Plain /\ ~Pads(r)
    BY <2>1, <2>2, <2>6 DEF Written, Plain
  <2> QED BY <2>4, <2>5, <2>6
<1>2. LaunchIInv => LaunchTypeOK
  BY DEF LaunchIInv
<1> QED BY LaunchInductive, <1>1, <1>2, PTL
=============================================================================
