---------------------------- MODULE DistRequest ----------------------------
(***************************************************************************)
(* A client process of the library: the operations on objects and groups,  *)
(* blocking or not, their DistRequests, and the one event channel that all *)
(* of them share.  Whoever reads the channel, wait() on one request or     *)
(* makeProgress(), handles the answer at its head, whichever request it is *)
(* for: the event id is the address of a CommReq, which points to its      *)
(* DistRequest, which points to the caller's buffer and Status.            *)
(*                                                                         *)
(* The other end of the channel, a router, answers requests in any order,  *)
(* with or without errors, and may close the connection.  The application  *)
(* is any program with one thread that keeps to what the DistRequest can   *)
(* record: it gives a request one operation at a time, destroys it when    *)
(* nothing is under way any more, and does not wait for a request that has *)
(* called back.                                                            *)
(***************************************************************************)
EXTENDS Integers, Sequences

CONSTANTS
  Op,         \* the operations an application performs, each with its buffer
  Req,        \* addresses of DistRequests, on the heap or on the stack
  CReq,       \* addresses of DistCommReqs
  Calls,      \* the forms of calls, see Call
  NoOp, NoReq, Free

Kind  == {"get", "set", "log", "samples"}
Reads == {"get", "samples"}

(* A call: its kind; whether it is non-blocking, or a blocking one on an   *)
(* object or a group; whether local devices take part, and fail; whether   *)
(* remote objects do.                                                      *)
Call == [kind : Kind, via : {"nb", "object", "group"},
         local : {"none", "good", "bad"}, remote : BOOLEAN]

(* An attribute of an object has devices or a communicator: with neither   *)
(* it is invalid, which ends like a failing device, and the constructor of *)
(* DistObject asserts that it has not both.  Only groups, which are read   *)
(* and set only, mix local and remote objects.                             *)
ASSUME CallsAssumption ==
  /\ Calls \subseteq Call
  /\ \A x \in Calls : IF x.via = "group"
                      THEN x.kind \in {"get", "set"} /\ (x.local = "none" => x.remote)
                      ELSE x.local = "none" <=> x.remote

VARIABLES
  up,         \* FALSE once the process was ended, by an assert or a signal
  req,        \* the DistRequests
  creq,       \* the heap of DistCommReqs
  pc,         \* the request that is waited for, or NoReq
  call,       \* per operation, the call that performs it
  result,     \* per operation, what the application was told
  called,     \* per operation, how often its callback ran
  buffer,     \* per operation, whose values its buffer holds
  asked,      \* requests at the other end
  chan,       \* answers to read
  link,       \* the state of the connection
  outcome     \* per operation, what the other end answered

appVars == <<call, result, called, buffer>>
vars == <<up, req, creq, pc, appVars, asked, chan, link, outcome>>

(* m_commReqs, value[0] and whether m_status has errors; op, the operation *)
(* under way, is not in the code.                                          *)
Request == [op : Op \cup {NoOp}, val : Op \cup {NoOp}, out : SUBSET CReq,
            cb : BOOLEAN, err : BOOLEAN]
CommReq == [req : Req, op : Op, kind : Kind]
Answer  == [id : CReq, op : Op, bad : BOOLEAN]

ASSUME DistinctAssumption ==
  /\ NoReq \notin Req /\ NoOp \notin Op
  /\ Free \notin Request /\ Free \notin CommReq /\ Free \notin Call

NewRequest(cb) == [op |-> NoOp, val |-> NoOp, out |-> {}, cb |-> cb, err |-> FALSE]

Init ==
  /\ up = TRUE
  /\ req = [r \in Req |-> Free]
  /\ creq = [q \in CReq |-> Free]
  /\ pc = NoReq
  /\ call = [o \in Op |-> Free]
  /\ result = [o \in Op |-> "none"]
  /\ called = [o \in Op |-> 0]
  /\ buffer = [o \in Op |-> "unset"]
  /\ asked = {}
  /\ chan = <<>>
  /\ link = "open"
  /\ outcome = [o \in Op |-> "none"]

Running == up /\ pc = NoReq
Reset(r) == req' = [req EXCEPT ![r] = Free]

-----------------------------------------------------------------------------
(* Starting an operation.                                                  *)

(* Object::attrStartLog and its kin return on the first device that fails; *)
(* a get or set leaves the error in a Status and goes on.                  *)
EndsEarly(x) == x.local = "bad" /\ x.kind \in {"log", "samples"}

Refuse(o, x) ==
  /\ EndsEarly(x)
  /\ call' = [call EXCEPT ![o] = x]
  /\ result' = [result EXCEPT ![o] = "error"]
  /\ UNCHANGED <<up, req, creq, pc, called, buffer, asked, chan, link, outcome>>

(* DistComm's calls: a write to a closed connection is lost, or ends the   *)
(* process.                                                                *)
Write(o, q) ==
  \/ link = "open" /\ asked' = asked \cup {[id |-> q, op |-> o]} /\ UNCHANGED up
  \/ link # "open" /\ up' \in BOOLEAN /\ UNCHANGED asked

(* DistObject's calls with a Status and a Request; the request was R.      *)
(* Mutant of Inserted: the CommReq is sent and not inserted.               *)
NotInserted(q, x, R) == R.out

Inserted(q, x, R) == IF x.remote THEN R.out \cup {q} ELSE R.out

Launch(o, r, q, x, R) ==
  /\ ~ EndsEarly(x)
  /\ call' = [call EXCEPT ![o] = x]
  /\ buffer' = [buffer EXCEPT ![o] = IF x.kind \in Reads /\ x.local = "good"
                                     THEN "local" ELSE @]
  /\ req' = [req EXCEPT ![r] = [R EXCEPT !.op = o,
                                         !.val = IF x.kind = "get" \/ (x.kind = "samples" /\ x.remote)
                                                 THEN o ELSE @,
                                         !.out = Inserted(q, x, R)]]
  /\ \/ /\ x.remote
        /\ creq[q] = Free
        /\ creq' = [creq EXCEPT ![q] = [req |-> r, op |-> o, kind |-> x.kind]]
        /\ Write(o, q)
     \/ ~ x.remote /\ UNCHANGED <<creq, asked, up>>

(* PWR_ReqCreate and PWR_ReqCreateCallback.                                *)
ReqCreate(r, cb) ==
  /\ Running
  /\ req[r] = Free
  /\ req' = [req EXCEPT ![r] = NewRequest(cb)]
  /\ UNCHANGED <<up, creq, pc, appVars, asked, chan, link, outcome>>

(* A non-blocking call.  A local error is returned, and is in no Status of *)
(* the request, which the application has emptied before.  With nothing    *)
(* remote the callback runs at once.                                       *)
(* Mutant of Finished: not asked whether anything is under way.            *)
AlwaysFinished(r, x) == x.local # "bad"

Finished(r, x) == req[r].out = {} /\ ~ x.remote /\ x.local # "bad"

Issue(o, r, q, x) ==
  /\ Running
  /\ call[o] = Free /\ x.via = "nb"
  /\ req[r] # Free /\ req[r].out = {}
  /\ \/ Refuse(o, x)
     \/ /\ Launch(o, r, q, x, [req[r] EXCEPT !.err = FALSE])
        /\ LET back == Finished(r, x) /\ req[r].cb
           IN  /\ called' = [called EXCEPT ![o] = IF back THEN @ + 1 ELSE @]
               /\ result' = [result EXCEPT ![o] = IF x.local = "bad" THEN "error"
                                                  ELSE IF back THEN "ok" ELSE @]
        /\ UNCHANGED <<pc, chan, link, outcome>>

(* A blocking call: the DistRequest is on the stack.                       *)
Block(o, r, q, x) ==
  /\ Running
  /\ call[o] = Free /\ x.via # "nb"
  /\ req[r] = Free
  /\ \/ Refuse(o, x)
     \/ /\ Launch(o, r, q, x, [NewRequest(FALSE) EXCEPT !.err = (x.local = "bad")])
        /\ pc' = r
        /\ UNCHANGED <<result, called, chan, link, outcome>>

(* PWR_ReqWait, of a request that has an operation and has not called back *)
ReqWait(r) ==
  /\ Running
  /\ req[r] # Free /\ req[r].op # NoOp
  /\ called[req[r].op] = 0
  /\ pc' = r
  /\ UNCHANGED <<up, req, creq, appVars, asked, chan, link, outcome>>

(* PWR_ReqDestroy.                                                         *)
Drained == link # "open" /\ chan = <<>>

ReqDestroy(r) ==
  /\ Running
  /\ req[r] # Free
  /\ req[r].out = {} \/ Drained
  /\ Reset(r)
  /\ UNCHANGED <<up, creq, pc, appVars, asked, chan, link, outcome>>

-----------------------------------------------------------------------------
(* An answer: CommReq::process, then getValue, setValue, setRetval or      *)
(* getSamples of its DistRequest; getSamples drops the errors.             *)
Dangling(a) == creq[a.id] = Free \/ req[creq[a.id].req] = Free

(* Mutants of Process: the CommReq stays in m_commReqs; errors are dropped *)
(* for all kinds.                                                          *)
ProcessKeeps(a, r) ==
  /\ req' = [req EXCEPT ![r].err = @ \/ (a.bad /\ creq[a.id].kind # "samples")]
  /\ buffer' = IF creq[a.id].kind \in Reads
               THEN [buffer EXCEPT ![req[r].val] = a.op] ELSE buffer

ProcessDropsErrors(a, r) ==
  /\ req' = [req EXCEPT ![r].out = @ \ {a.id}]
  /\ buffer' = IF creq[a.id].kind \in Reads
               THEN [buffer EXCEPT ![req[r].val] = a.op] ELSE buffer

Process(a, r) ==
  /\ req' = [req EXCEPT ![r].out = @ \ {a.id},
                        ![r].err = @ \/ (a.bad /\ creq[a.id].kind # "samples")]
  /\ buffer' = IF creq[a.id].kind \in Reads
               THEN [buffer EXCEPT ![req[r].val] = a.op] ELSE buffer

(* What the application learns from a request that has finished.           *)
Verdict(o, err) ==
  IF result[o] # "none" THEN result[o] ELSE IF err THEN "error" ELSE "ok"

(* wait(): one turn of its loop.                                           *)
WaitRead ==
  /\ up /\ pc # NoReq
  /\ req[pc].out # {}
  /\ chan # <<>>
  /\ chan' = Tail(chan)
  /\ IF Dangling(Head(chan))
     THEN up' = FALSE /\ UNCHANGED <<req, buffer>>
     ELSE Process(Head(chan), creq[Head(chan).id].req) /\ UNCHANGED up
  /\ UNCHANGED <<creq, pc, call, result, called, asked, link, outcome>>

(* A blocking call gives up its DistRequest, a get of a group its CommReq  *)
(* too.                                                                    *)
Release(r) ==
  LET x == call[req[r].op]
  IN  IF x.via = "nb" THEN UNCHANGED <<req, creq>>
      ELSE /\ Reset(r)
           /\ creq' = IF x.via = "group" /\ x.kind = "get"
                      THEN [q \in CReq |-> IF creq[q] # Free /\ creq[q].op = req[r].op
                                           THEN Free ELSE creq[q]]
                      ELSE creq

WaitDone ==
  /\ up /\ pc # NoReq
  /\ req[pc].out = {}
  /\ pc' = NoReq
  /\ Release(pc)
  /\ LET o == req[pc].op
     IN  /\ called' = [called EXCEPT ![o] = IF req[pc].cb THEN @ + 1 ELSE @]
         /\ result' = [result EXCEPT ![o] = Verdict(o, req[pc].err)]
  /\ UNCHANGED <<up, call, buffer, asked, chan, link, outcome>>

(* The end of the channel: wait() returns PWR_RET_IPC, which groups and    *)
(* blocking calls for logs and samples do not look at.                     *)
TellsIPC(x) == x.via = "nb" \/ (x.via = "object" /\ x.kind \in {"get", "set"})

Broken(o, err) ==
  IF TellsIPC(call[o]) /\ result[o] = "none" THEN "ipc" ELSE Verdict(o, err)

WaitBroken ==
  /\ up /\ pc # NoReq
  /\ req[pc].out # {}
  /\ chan = <<>> /\ link = "eof"
  /\ pc' = NoReq
  /\ Release(pc)
  /\ LET o == req[pc].op
     IN  result' = [result EXCEPT ![o] = Broken(o, req[pc].err)]
  /\ UNCHANGED <<up, call, called, buffer, asked, chan, link, outcome>>

(* A connection that was reset fails an assert of getEvent.                *)
WaitReset ==
  /\ up /\ pc # NoReq
  /\ req[pc].out # {}
  /\ chan = <<>> /\ link = "reset"
  /\ up' = FALSE
  /\ UNCHANGED <<req, creq, pc, appVars, asked, chan, link, outcome>>

(* PWR_CntxtMakeProgress, when the channel is ready.  It calls back after  *)
(* any answer; at the end of the channel it uses a NULL event.             *)
MakeProgress ==
  /\ Running
  /\ chan # <<>>
  /\ ~ Dangling(Head(chan))
  /\ chan' = Tail(chan)
  /\ LET a == Head(chan)
         r == creq[a.id].req
         o == req[r].op
     IN  /\ Process(a, r)
         /\ called' = [called EXCEPT ![o] = IF req[r].cb THEN @ + 1 ELSE @]
         /\ result' = [result EXCEPT ![o] = IF req[r].cb THEN Verdict(o, req'[r].err) ELSE @]
  /\ UNCHANGED <<up, creq, pc, call, asked, link, outcome>>

ProgressFails ==
  /\ Running
  /\ Drained \/ (chan # <<>> /\ Dangling(Head(chan)))
  /\ up' = FALSE
  /\ UNCHANGED <<req, creq, pc, appVars, asked, chan, link, outcome>>

-----------------------------------------------------------------------------
(* The other end.                                                          *)
Reply(a, bad) ==
  /\ link = "open"
  /\ asked' = asked \ {a}
  /\ chan' = Append(chan, [id |-> a.id, op |-> a.op, bad |-> bad])
  /\ outcome' = [outcome EXCEPT ![a.op] = IF bad THEN "bad" ELSE "good"]
  /\ UNCHANGED <<up, req, creq, pc, appVars, link>>

Close(how) ==
  /\ link = "open"
  /\ link' = how
  /\ asked' = {}
  /\ UNCHANGED <<up, req, creq, pc, appVars, chan, outcome>>

Wait == WaitRead \/ WaitDone \/ WaitBroken \/ WaitReset

Next ==
  \/ \E r \in Req, cb \in BOOLEAN : ReqCreate(r, cb)
  \/ \E o \in Op, r \in Req, q \in CReq, x \in Calls : Issue(o, r, q, x) \/ Block(o, r, q, x)
  \/ \E r \in Req : ReqWait(r) \/ ReqDestroy(r)
  \/ Wait
  \/ MakeProgress
  \/ ProgressFails
  \/ \E a \in asked, bad \in BOOLEAN : Reply(a, bad)
  \/ \E how \in {"eof", "reset"} : Close(how)

Spec == Init /\ [][Next]_vars

(* wait() runs on, and the other end answers what it has been asked.       *)
Fairness ==
  /\ WF_vars(Wait)
  /\ WF_vars(\E a \in asked, bad \in BOOLEAN : Reply(a, bad))

FairSpec == Spec /\ Fairness

-----------------------------------------------------------------------------
TypeOK ==
  /\ up \in BOOLEAN
  /\ req \in [Req -> Request \cup {Free}]
  /\ creq \in [CReq -> CommReq \cup {Free}]
  /\ pc \in Req \cup {NoReq}
  /\ call \in [Op -> Calls \cup {Free}]
  /\ result \in [Op -> {"none", "ok", "error", "ipc"}]
  /\ called \in [Op -> Nat]
  /\ buffer \in [Op -> Op \cup {"unset", "local"}]
  /\ asked \in SUBSET [id : CReq, op : Op]
  /\ chan \in Seq(Answer)
  /\ link \in {"open", "eof", "reset"}
  /\ outcome \in [Op -> {"none", "good", "bad"}]

(* An answer under way finds the CommReq it was asked with, not one that   *)
(* has taken its address, and that finds the DistRequest of the operation, *)
(* which waits for it and has not been destroyed or used again.            *)
Expects(q, o) ==
  /\ creq[q] # Free
  /\ creq[q].op = o
  /\ req[creq[q].req] # Free
  /\ req[creq[q].req].op = o
  /\ req[creq[q].req].out = {q}

AnswersExpected ==
  /\ \A a \in asked : Expects(a.id, a.op)
  /\ \A n \in DOMAIN chan : Expects(chan[n].id, chan[n].op)

(* A caller that is told of success has all there is: devices of its own   *)
(* and the remote objects have succeeded, and a buffer to read into has    *)
(* this operation's values.  The code's exceptions are a lost connection   *)
(* that groups and logs do not report, and errors of samples.              *)
Whole(o) ==
  result[o] = "ok" =>
    /\ call[o].local # "bad"
    /\ call[o].remote =>
         \/ outcome[o] = "good" /\ (call[o].kind \in Reads => buffer[o] = o)
         \/ outcome[o] = "bad" /\ call[o].kind = "samples"
         \/ link # "open" /\ ~ TellsIPC(call[o])

SuccessIsWhole == \A o \in Op : Whole(o)

(* A callback runs once, after the answer of its operation was handled,    *)
(* whichever of wait and makeProgress read it.                             *)
CallbackOnce ==
  \A o \in Op :
    /\ called[o] <= 1
    /\ called[o] = 1 /\ call[o].remote => outcome[o] # "none" /\ result[o] # "none"
    /\ called[o] = 1 => \A n \in DOMAIN chan : chan[n].op # o

(* Every wait returns, unless the process is ended by a lost connection.   *)
WaitReturns == pc # NoReq ~> pc = NoReq \/ ~ up

-----------------------------------------------------------------------------
(* The inductive invariant.                                                *)

(* An id is under way once, as a request or as an answer.                  *)
OnceUnderWay ==
  /\ \A m, n \in DOMAIN chan : chan[m].id = chan[n].id => m = n
  /\ \A a \in asked, n \in DOMAIN chan : a.id # chan[n].id
  /\ link # "open" => asked = {}

(* What is known of an operation before it is performed, and while its     *)
(* request or its answer is under way.                                     *)
OutcomesOK ==
  /\ \A o \in Op : call[o] = Free =>
       result[o] = "none" /\ called[o] = 0 /\ outcome[o] = "none"
  /\ \A a \in asked : outcome[a.op] = "none"
  /\ \A n \in DOMAIN chan : outcome[chan[n].op] = IF chan[n].bad THEN "bad" ELSE "good"
  /\ \A q \in CReq : creq[q] # Free => /\ call[creq[q].op] # Free
                                       /\ creq[q].kind = call[creq[q].op].kind

(* An operation belongs to one DistRequest.                                *)
OneOwner ==
  \A r \in Req : req[r] # Free =>
    IF req[r].op = NoOp THEN req[r].out = {}
    ELSE /\ call[req[r].op] # Free
         /\ \A s \in Req : req[s] # Free /\ req[s].op = req[r].op => s = r

(* A DistRequest is settled as far as its answers have come: values are in *)
(* the buffer, errors are in the Status, and the callback has not run      *)
(* before.                                                                 *)
Settled(r) ==
  req[r] # Free /\ req[r].op # NoOp =>
    LET o == req[r].op
        x == call[o]
    IN  /\ req[r].out # {} => /\ called[o] = 0
                              /\ x.kind \in Reads => req[r].val = o
        /\ req[r].out = {} /\ x.remote => /\ outcome[o] # "none"
                                          /\ x.kind \in Reads => buffer[o] = o
        /\ result[o] = "none" =>
             /\ x.local = "bad" => req[r].err
             /\ req[r].out = {} /\ x.remote /\ outcome[o] = "bad" /\ x.kind # "samples"
                  => req[r].err

SettledOK == \A r \in Req : Settled(r)

WaitingOK ==
  pc # NoReq => req[pc] # Free /\ req[pc].op # NoOp /\ called[req[pc].op] = 0

IInv ==
  /\ TypeOK
  /\ AnswersExpected
  /\ OnceUnderWay
  /\ OutcomesOK
  /\ OneOwner
  /\ SettledOK
  /\ WaitingOK
  /\ SuccessIsWhole
  /\ CallbackOnce
=============================================================================
