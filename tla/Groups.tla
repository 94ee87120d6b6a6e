------------------------------- MODULE Groups -------------------------------
(***************************************************************************)
(* The groups and statistics of the client library, as an application uses *)
(* them through the C API.  There are two kinds of groups: a DistGrp keeps *)
(* local members, remote members and all members in three lists and makes  *)
(* a communicator of the remote ones at its first call; the children of an *)
(* object are a plain Grp that the object keeps.  A statistic keeps an     *)
(* object or a group and turns on the log of each member's device.         *)
(*                                                                         *)
(* What a remote member answers is Aggregation's and DistRequest's         *)
(* business: here it is the member's own value, and its log is off when it *)
(* has been asked to turn it off.  A device either has no logs, or starts  *)
(* and stops them without fail (Device::startLog, dummy_dev.c:129-140).    *)
(***************************************************************************)
EXTENDS Integers, Sequences, FiniteSets, SequencesExt

CONSTANTS
  Root, Leaf,  \* the entry point and the objects below it
  Where,       \* an object's source: "local", "remote", or "none"
  NoLog,       \* objects whose device can neither start a log nor stop one
  Kids,        \* Config::findChildren of the entry point
  TypeOf,      \* the type of each leaf
  GrpId,       \* heap addresses of groups
  StatId,      \* heap addresses of statistics
  MaxSize,     \* members of a group
  MaxMade,     \* groups that the application has made and not destroyed
  Careless     \* whether the application also destroys groups that are not its own

NULL == "NULL"

ASSUME GroupsAssumption ==
  /\ NULL \notin GrpId
  /\ Where \in [Leaf -> {"local", "remote", "none"}]
  /\ Kids \in Seq(Leaf) /\ Root \notin Leaf
  /\ NoLog \subseteq {o \in Leaf : Where[o] = "local"}

VARIABLES
  heap,       \* the groups
  kids,       \* m_children of the entry point: NULL or an address
  stat,       \* the statistics
  left,       \* objects that log for a statistic that is gone
  lib,        \* "runs", "aborted", or "undefined": memory that is not a group was used
  told,       \* what the last call has told the application
  blame       \* what the application has done that it should not have

grpVars == <<heap, kids, stat, left, lib, told, blame>>

NoGrp  == [kind |-> NULL]
NoStat == [logging |-> NULL]
Silent == [op |-> NULL]
DistGrp == [kind |-> "dist", list |-> <<>>, dist |-> <<>>, all |-> <<>>, comm |-> <<>>, odd |-> {}]
Nothing == "0"

GrpInit ==
  /\ heap = [g \in GrpId |-> NoGrp]
  /\ kids = NULL
  /\ stat = [s \in StatId |-> NoStat]
  /\ left = {} /\ lib = "runs" /\ told = Silent /\ blame = {}

Remote(o)  == Where[o] = "remote"
(* The address of a new group: a free one that nothing points to.          *)
Unused     == {g \in GrpId : heap[g] = NoGrp /\ g # kids
                             /\ \A s \in StatId : stat[s] # NoStat => stat[s].grp # g}
New(g)     == Unused # {} /\ g = CHOOSE u \in Unused : TRUE
Groups     == {g \in GrpId : heap[g] # NoGrp}
Members(g) == IF g.kind = "dist" THEN g.all ELSE g.list     \* getObj, size

-----------------------------------------------------------------------------
(* Grp::add and DistGrp::add.  The group's odd field notes what its lists  *)
(* are no longer good for.                                                 *)
BaseAdd(s, o) == IF o \in Range(s) THEN s ELSE Append(s, o)

AddTo(g, o) ==
  CASE g.kind = "kids" -> [g EXCEPT !.list = BaseAdd(@, o)]
    [] g.kind = "dist" /\ ~Remote(o) ->
         [g EXCEPT !.list = BaseAdd(@, o), !.all = Append(@, o),
                   !.odd = @ \union (IF o \in Range(g.list) THEN {"twice"} ELSE {})
                             \union (IF g.dist # <<>> THEN {"mixed"} ELSE {})]
    [] g.kind = "dist" /\ Remote(o) ->
         IF o \in Range(g.dist) THEN g
         ELSE [g EXCEPT !.dist = Append(@, o), !.all = Append(@, o),
                        !.odd = @ \union (IF g.comm # <<>> THEN {"late"} ELSE {})
                                  \union (IF g.list # <<>> THEN {"mixed"} ELSE {})]

(* A group with those of the given objects added that are in ok.           *)
AddEach(g, os, ok) ==
  LET into[n \in 0..Len(os)] ==
        IF n = 0 THEN g ELSE IF os[n] \in ok THEN AddTo(into[n-1], os[n]) ELSE into[n-1]
  IN into[Len(os)]

(* The application errs once, if it does.                                  *)
MayErr == Careless /\ blame = {}

Runs == lib = "runs" /\ told' = Silent

(* An application that has erred makes its groups no larger: a bound.      *)
MayMake == blame = {} /\ Cardinality({g \in Groups : heap[g].kind = "dist"}) < MaxMade

GrpCreate(g) ==
  /\ Runs /\ MayMake /\ New(g)
  /\ heap' = [heap EXCEPT ![g] = DistGrp]
  /\ UNCHANGED <<kids, stat, left, lib, blame>>

(* Cntxt::getGrp: every object of the type, or no group.                   *)
GetGrpByType(t, g) ==
  /\ Runs /\ MayMake /\ New(g)
  /\ LET found == AddEach(DistGrp, Kids, {o \in Leaf : TypeOf[o] = t})
     IN heap' = IF Members(found) = <<>> THEN heap ELSE [heap EXCEPT ![g] = found]
  /\ UNCHANGED <<kids, stat, left, lib, blame>>

(* Object::children of the entry point: made once, then kept.              *)
Children(g) ==
  IF kids # NULL THEN g = kids /\ UNCHANGED <<heap, kids>>
  ELSE /\ New(g)
       /\ heap' = [heap EXCEPT ![g] = AddEach([DistGrp EXCEPT !.kind = "kids"], Kids, Leaf)]
       /\ kids' = g

Dangling == kids # NULL /\ heap[kids] = NoGrp

ObjGetChildren(g) ==
  /\ Runs /\ Children(g)
  /\ UNCHANGED <<stat, left, lib, blame>>

(* DistCntxt::destroyGrp deletes whatever group it is given.               *)
GrpDestroy(g) ==
  /\ Runs /\ g \in Groups
  /\ LET wrong == (IF g = kids THEN {"children destroyed"} ELSE {})
                  \union (IF \E s \in StatId : stat[s] # NoStat /\ stat[s].grp = g
                          THEN {"group of a statistic destroyed"} ELSE {})
     IN /\ wrong # {} => MayErr
        /\ blame' = blame \union wrong
  /\ heap' = [heap EXCEPT ![g] = NoGrp]
  /\ UNCHANGED <<kids, stat, left, lib>>

GrpAddObj(g, o) ==
  /\ Runs /\ blame = {} /\ g \in Groups /\ Len(Members(heap[g])) < MaxSize
  /\ heap' = [heap EXCEPT ![g] = AddTo(@, o)]
  /\ UNCHANGED <<kids, stat, left, lib, blame>>

(* A list without the first place of one of its objects.                   *)
Erased(s, o) ==
  LET i == CHOOSE i \in DOMAIN s : s[i] = o /\ \A j \in 1..(i-1) : s[j] # o
  IN [j \in 1..(Len(s)-1) |-> IF j < i THEN s[j] ELSE s[j+1]]

(* Grp::remove, which DistGrp's does not override: the first list only.    *)
GrpRemoveObj(g, o) ==
  /\ Runs /\ g \in Groups /\ o \in Range(heap[g].list)
  /\ heap' = [heap EXCEPT ![g].list = Erased(@, o),
                          ![g].odd = @ \union (IF heap[g].kind = "dist" THEN {"removed"} ELSE {})]
  /\ blame' = blame \union
       (IF heap[g].kind = "kids" /\ \E s \in StatId : stat[s] # NoStat /\ stat[s].grp = g
        THEN {"member of a statistic removed"} ELSE {})
  /\ blame' # blame => MayErr
  /\ UNCHANGED <<kids, stat, left, lib>>

-----------------------------------------------------------------------------
(* The local members of a call: those without a source fail, and of the    *)
(* others any may.                                                         *)
CallFails(g) == {bad \in SUBSET Range(g.list) :
               /\ {o \in Leaf : Where[o] = "none"} \cap Range(g.list) \subseteq bad
               /\ \A o \in bad : ~Remote(o)}

(* Mutant of Buffer: a member that fails leaves its place to the next.     *)
BufferPacked(g, bad) ==
  LET good == SelectSeq(g.list, LAMBDA o : o \notin bad)
  IN [i \in 1..Len(Members(g)) |->
        IF g.kind = "dist" /\ i \in DOMAIN g.dist THEN g.dist[i]
        ELSE IF i \in DOMAIN good THEN good[i] ELSE Nothing]

(* The caller's buffer after a get: the local members one after the other, *)
(* and then the remote ones over them, by their index in m_distObjs.       *)
Buffer(g, bad) ==
  [i \in 1..Len(Members(g)) |->
     IF g.kind = "dist" /\ i \in DOMAIN g.dist THEN g.dist[i]
     ELSE IF i \in DOMAIN g.list /\ g.list[i] \notin bad THEN g.list[i]
     ELSE Nothing]

(* The communicator is made of the remote members of the first call.       *)
WithComm(g) == IF g.kind = "dist" /\ g.comm = <<>> THEN [g EXCEPT !.comm = g.dist] ELSE g

(* Mutant of Expected: a place for every member of the group.              *)
ExpectedAll(g) == Len(g.all)

(* The places a get has for remote members (DistRequest::value).           *)
Expected(g) == Len(g.dist)

(* A get asserts that the answer has as many members as the request.       *)
GrpAttrGetValues(g) ==
  /\ lib = "runs" /\ g \in Groups /\ Members(heap[g]) # <<>>
  /\ heap' = [heap EXCEPT ![g] = WithComm(@)]
  /\ \E bad \in CallFails(heap[g]) :
       IF heap[g].kind = "dist" /\ heap[g].dist # <<>> /\ Expected(heap[g]) # Len(heap'[g].comm)
       THEN lib' = "aborted" /\ told' = Silent
       ELSE /\ UNCHANGED lib
            /\ told' = [op |-> "get", want |-> Members(heap[g]), got |-> Buffer(heap[g], bad),
                        errs |-> bad, odd |-> heap[g].odd]
  /\ UNCHANGED <<kids, stat, left, blame>>

(* Mutant of SetOn: the remote members are forgotten once there are local. *)
SetOnOneKind(g, bad) == IF g.list # <<>> THEN Range(g.list) \ bad ELSE Range(WithComm(g).comm)

(* The objects that a set has reached.                                     *)
SetOn(g, bad) == (Range(g.list) \ bad) \union Range(WithComm(g).comm)

GrpAttrSetValues(g) ==
  /\ lib = "runs" /\ g \in Groups /\ Members(heap[g]) # <<>>
  /\ heap' = [heap EXCEPT ![g] = WithComm(@)]
  /\ \E bad \in CallFails(heap[g]) :
       told' = [op |-> "set", want |-> Members(heap[g]), got |-> SetOn(heap[g], bad),
                errs |-> bad, odd |-> heap[g].odd]
  /\ UNCHANGED <<kids, stat, left, lib, blame>>

-----------------------------------------------------------------------------
(* Cntxt::createStat of an object: only a leaf with one source.  Asking    *)
(* for the children of the object is what makes the entry point keep them. *)
NewStat(g, o) == [grp |-> g, obj |-> o, logging |-> FALSE, has |-> {}]

Undefined == lib' = "undefined" /\ UNCHANGED <<heap, kids, stat, left, blame>>

ObjCreateStat(s, o) ==
  /\ Runs /\ stat[s] = NoStat
  /\ \/ /\ o \in Leaf
        /\ stat' = IF Where[o] = "none" THEN stat ELSE [stat EXCEPT ![s] = NewStat(NULL, o)]
        /\ UNCHANGED <<heap, kids, left, lib, blame>>
     \/ o = Root /\ Dangling /\ Undefined
     \/ o = Root /\ ~Dangling /\ (\E g \in GrpId : Children(g)) /\ UNCHANGED <<stat, left, lib, blame>>

(* Cntxt::createStat of a group asks its first member before it asks for   *)
(* its size; every member needs a device of its own.                       *)
GrpCreateStat(s, g) ==
  /\ Runs /\ stat[s] = NoStat /\ g \in Groups
  /\ LET members == Members(heap[g]) IN
       IF members = <<>>
       THEN /\ MayErr
            /\ lib' = "undefined" /\ blame' = blame \union {"statistic of an empty group"}
            /\ UNCHANGED <<heap, kids, stat, left>>
       ELSE /\ stat' = IF \A i \in DOMAIN members : Where[members[i]] = "local"
                       THEN [stat EXCEPT ![s] = NewStat(g, NULL)] ELSE stat
            /\ UNCHANGED <<heap, kids, left, lib, blame>>

(* The members a statistic turns on or off: up to the first that fails.    *)
Covered(s) == IF s.grp = NULL THEN <<s.obj>> ELSE Members(heap[s.grp])

UpToFailure(os) ==
  LET bad == {i \in DOMAIN os : os[i] \in NoLog}
  IN {os[i] : i \in {j \in DOMAIN os : \A b \in bad : j < b}}

UsesGone(s) == s.grp # NULL /\ heap[s.grp] = NoGrp

(* DeviceStat::start, stop.                                                *)
StatStart(s) ==
  /\ Runs /\ stat[s] # NoStat
  /\ \/ UsesGone(stat[s]) /\ Undefined
     \/ /\ ~UsesGone(stat[s])
        /\ stat' = [stat EXCEPT ![s].logging = TRUE,
                                ![s].has = @ \union UpToFailure(Covered(stat[s]))]
        /\ UNCHANGED <<heap, kids, left, lib, blame>>

(* What a stop leaves on.                                                  *)
StillOn(s) == s.has \ UpToFailure(Covered(s))

(* PWR_StatStop, and PWR_StatClear, which calls stop too.                  *)
StatStop(s) ==
  /\ Runs /\ stat[s] # NoStat
  /\ \/ UsesGone(stat[s]) /\ Undefined
     \/ /\ ~UsesGone(stat[s])
        /\ stat' = [stat EXCEPT ![s].logging = FALSE, ![s].has = StillOn(stat[s])]
        /\ UNCHANGED <<heap, kids, left, lib, blame>>

(* Mutant of StatDestroy: a statistic that logs is just deleted.           *)
StatDestroyOnly(s) ==
  /\ Runs /\ stat[s] # NoStat
  /\ left' = left \union stat[s].has
  /\ stat' = [stat EXCEPT ![s] = NoStat]
  /\ UNCHANGED <<heap, kids, lib, blame>>

(* ~DeviceStat stops a statistic that logs.                                *)
StatDestroy(s) ==
  /\ Runs /\ stat[s] # NoStat
  /\ \/ stat[s].logging /\ UsesGone(stat[s]) /\ Undefined
     \/ /\ stat[s].logging => ~UsesGone(stat[s])
        /\ left' = left \union (IF stat[s].logging THEN StillOn(stat[s]) ELSE stat[s].has)
        /\ stat' = [stat EXCEPT ![s] = NoStat]
        /\ UNCHANGED <<heap, kids, lib, blame>>

(* DeviceStat::getValue asks m_obj, which a group's statistic has not got. *)
StatGetValue(s) ==
  /\ lib = "runs" /\ stat[s] # NoStat
  /\ \/ /\ stat[s].grp # NULL /\ MayErr
        /\ told' = Silent /\ lib' = "undefined"
        /\ blame' = blame \union {"one value of a group"}
        /\ UNCHANGED <<heap, kids, stat, left>>
     \/ /\ stat[s].grp = NULL
        /\ told' = [op |-> "get", want |-> <<stat[s].obj>>, got |-> <<stat[s].obj>>,
                    errs |-> {}, odd |-> {}]
        /\ UNCHANGED <<heap, kids, stat, left, lib, blame>>

(* DeviceStat::getValues: a member without samples ends it, with nothing   *)
(* in the places behind it.                                                *)
StatGetValues(s) ==
  /\ lib = "runs" /\ stat[s] # NoStat /\ stat[s].grp # NULL
  /\ \/ UsesGone(stat[s]) /\ told' = Silent /\ Undefined
     \/ /\ ~UsesGone(stat[s])
        /\ LET os == Members(heap[stat[s].grp])  ok == UpToFailure(os) IN
           told' = [op |-> "get", want |-> os,
                    got |-> [i \in DOMAIN os |-> IF os[i] \in ok THEN os[i] ELSE Nothing],
                    errs |-> Range(os) \ ok, odd |-> {}]
        /\ UNCHANGED <<heap, kids, stat, left, lib, blame>>

GrpNext ==
  \/ \E g \in GrpId : GrpCreate(g) \/ ObjGetChildren(g) \/ GrpDestroy(g)
                      \/ GrpAttrGetValues(g) \/ GrpAttrSetValues(g)
  \/ \E t \in Range(TypeOf), g \in GrpId : GetGrpByType(t, g)
  \/ \E g \in GrpId, o \in Leaf : GrpAddObj(g, o) \/ GrpRemoveObj(g, o)
  \/ \E s \in StatId : StatStart(s) \/ StatStop(s) \/ StatDestroy(s)
                       \/ StatGetValue(s) \/ StatGetValues(s)
  \/ \E s \in StatId, o \in Leaf \union {Root} : ObjCreateStat(s, o)
  \/ \E s \in StatId, g \in GrpId : GrpCreateStat(s, g)

GrpSpec == GrpInit /\ [][GrpNext]_grpVars

-----------------------------------------------------------------------------
(* After a get of a group, or of the values of a statistic, the place of   *)
(* each member holds that member's value, or nothing and an error names    *)
(* the member (DistGrp::attrGetValues).  Three kinds of groups are none of *)
(* this: those with local and remote members, whose places overlap, and    *)
(* those with a local member twice or a member removed, whose m_list no    *)
(* longer has the places of m_allObjs.                                     *)
Placed ==
  told.op = "get" /\ told.odd \subseteq {"late"} =>
    \A i \in DOMAIN told.want :
      told.got[i] = told.want[i] \/ (told.got[i] = Nothing /\ told.want[i] \in told.errs)

(* A set of a group reaches every member that no error is reported of, the *)
(* remote ones too (DistGrp::attrSetValues), but for one that was added    *)
(* after the communicator was made or is still in m_allObjs only.          *)
SetReaches ==
  told.op = "set" /\ told.odd \subseteq {"twice", "mixed"} =>
    Range(told.want) \ told.errs \subseteq told.got

(* A statistic that is not logging, or is gone, has turned off every log   *)
(* it has turned on, even when the start of a group failed half way        *)
(* (DeviceStat::start, stop and its destructor), unless the application    *)
(* took a member out of the group meanwhile.  The log of a remote object   *)
(* is asked to be turned off.                                              *)
LogsEnd ==
  lib = "runs" /\ "member of a statistic removed" \notin blame =>
    left = {} /\ \A s \in StatId : stat[s] # NoStat /\ ~stat[s].logging => stat[s].has = {}

(* The library aborts or uses memory that is no longer a group only for an *)
(* application that has destroyed a group in use, asked a statistic for    *)
(* what it has not, or, with no fault of its own, added a remote member    *)
(* after the first call on a group (the assert of DistRequest::getValue).  *)
Blameless ==
  /\ lib = "undefined" => blame # {}
  /\ lib = "aborted" => \E g \in Groups : "late" \in heap[g].odd

-----------------------------------------------------------------------------
(* Why they hold.  A group's lists are each other's images until its odd   *)
(* field says that they no longer are, and its communicator is made of its *)
(* remote members until one comes too late.                                *)
GrpOf == [kind : {"dist", "kids"}, list : Seq(Leaf), dist : Seq(Leaf), all : Seq(Leaf),
          comm : Seq(Leaf), odd : SUBSET {"twice", "mixed", "late", "removed"}]

ListsAgree(g) ==
  /\ {"twice", "mixed", "removed"} \cap g.odd = {} =>
       (g.list = <<>> /\ g.all = g.dist) \/ (g.dist = <<>> /\ g.all = g.list)
  /\ "removed" \notin g.odd => Range(g.all) \subseteq Range(g.list) \union Range(g.dist)
  /\ "late" \notin g.odd => g.comm = <<>> \/ g.comm = g.dist

HeapOK == \A g \in Groups : heap[g] \in GrpOf /\ (heap[g].kind = "dist" => ListsAgree(heap[g]))

(* A statistic has turned on no more than a stop of it would turn off.     *)
StatOf == [grp : GrpId, obj : {NULL}, logging : BOOLEAN, has : SUBSET Leaf]
          \union [grp : {NULL}, obj : Leaf, logging : BOOLEAN, has : SUBSET Leaf]

StatOK(t) ==
  /\ t \in StatOf
  /\ UsesGone(t) => blame # {}
  /\ "member of a statistic removed" \notin blame =>
       /\ ~t.logging => t.has = {}
       /\ t.logging /\ ~UsesGone(t) => t.has \subseteq UpToFailure(Covered(t))

StatsOK == \A s \in StatId : stat[s] # NoStat => StatOK(stat[s])

(* What an application without fault never sees.                           *)
NoneGone ==
  /\ Dangling => blame # {}
  /\ "member of a statistic removed" \notin blame => left = {}

(* The inductive invariant of groups and statistics: besides the           *)
(* properties above, that the lists of a group agree, that no statistic    *)
(* has turned on more than it will turn off, and that what is gone is the  *)
(* application's fault (DistGrp::add, DeviceStat, DistCntxt::destroyGrp).  *)
GrpIInv ==
  /\ DOMAIN heap = GrpId /\ kids \in GrpId \union {NULL} /\ DOMAIN stat = StatId
  /\ HeapOK /\ StatsOK /\ NoneGone
  /\ Placed /\ SetReaches /\ Blameless
=============================================================================
