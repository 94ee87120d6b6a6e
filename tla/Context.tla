------------------------------ MODULE Context ------------------------------
(***************************************************************************)
(* How a context of the client library turns a configuration into objects: *)
(* what the document says of an object (XmlConfig), which devices the      *)
(* context opens for an attribute and which objects it leaves to servers   *)
(* (DistCntxt::traverse), and which objects it has made.  The server of an *)
(* object is a context whose entry point is that object.                   *)
(*                                                                         *)
(* A name is the sequence of its parts: <<"plat", "node0">> is plat.node0. *)
(***************************************************************************)
EXTENDS Naturals, Sequences, FiniteSets, SequencesExt

CONSTANTS
  Docs,       \* documents: per name, what the <obj> element has in it
  CtxAttr     \* names of attributes

CtxOps   == {"SUM", "AVG", ""}
CtxTypes == {"Platform", "Cabinet", "Node", "Core", "Memory"}

(* An object: whether it has a location of its own, its devices, its       *)
(* children, and its attributes, each with the names of its sources of     *)
(* either type in the document's order.                                    *)
CtxElem == [loc : BOOLEAN, type : CtxTypes, devs : SUBSET STRING, kids : Seq(STRING),
            attrs : [CtxAttr -> [op : CtxOps, src : [{"device", "child"} -> Seq(STRING)]]]]

VARIABLES
  ctxDoc,     \* the document
  ctxRoot,    \* POWERAPI_ROOT: the entry point
  ctxState,   \* "none", "runs", "exited" or "aborted"
  ctxObjs     \* m_objMap: what each object was made of

ASSUME DocsAssumption ==
  \A d \in Docs : /\ IsFiniteSet(DOMAIN d) /\ DOMAIN d \subseteq Seq(STRING)
                  /\ \A o \in DOMAIN d : d[o] \in CtxElem

ctxVars == <<ctxDoc, ctxRoot, ctxState, ctxObjs>>

NoObjs == [o \in {} |-> 0]

CtxInit ==
  /\ ctxDoc \in Docs
  /\ ctxRoot = <<>> /\ ctxState = "none" /\ ctxObjs = NoObjs

-----------------------------------------------------------------------------
(* XmlConfig.                                                              *)
Has(o) == o \in DOMAIN ctxDoc

TypeStrToInt(t) == IF t = "Memory" THEN "Core" ELSE t

ParentName(o) == Front(o)

(* findObjLocation goes up to the first object with a location, and every  *)
(* object on the way has to be there.                                      *)
Above(o)    == {SubSeq(o, 1, n) : n \in 1..Len(o)}
Hidden(o)   == {p \in Above(o) : \E q \in Above(o) : Len(q) > Len(p) /\ Has(q) /\ ctxDoc[q].loc}
LocationOk(o) == \A p \in Above(o) \ Hidden(o) : Has(p)

HasServer(o) == \E p \in Above(o) : Has(p) /\ ctxDoc[p].loc

Sources(o, a, t) == ctxDoc[o].attrs[a].src[t]

(* findObjDevs: every device has to be one of the object's.                *)
ObjDevs(o, a)   == LET d == Sources(o, a, "device") IN [i \in DOMAIN d |-> <<o, d[i]>>]
ObjDevsOk(o, a) == Range(Sources(o, a, "device")) \subseteq ctxDoc[o].devs

(* findAttrChildren: an object with a child for a source has children,     *)
(* whether or not it is one of them.                                       *)
AttrChildren(o, a)   == LET c == Sources(o, a, "child") IN [i \in DOMAIN c |-> Append(o, c[i])]
AttrChildrenOk(o, a) == Sources(o, a, "child") # <<>> => ctxDoc[o].kids # <<>>

Childs(o) == [i \in DOMAIN ctxDoc[o].kids |-> Append(o, ctxDoc[o].kids[i])]

-----------------------------------------------------------------------------
(* DistCntxt::traverse, which ends at an object that a server has, unless  *)
(* it is the entry point.  A document that is not as it should be fails an *)
(* assert.                                                                 *)
Resolved(ok, l, r) == [ok |-> ok, local |-> l, remote |-> r]

(* Mutant of Elsewhere: the entry point is compared as a prefix.           *)
ElsewhereNotBelow(root, o) == HasServer(o) /\ ~IsPrefix(root, o)

Elsewhere(root, o) == HasServer(o) /\ o # root

(* One object, when subs is what its children for the attribute come to.   *)
TraverseOne(root, o, a, subs) ==
  IF ~Has(o) \/ ~LocationOk(o) THEN Resolved(FALSE, <<>>, {})
  ELSE IF Elsewhere(root, o) THEN Resolved(TRUE, <<>>, {o})
  ELSE Resolved(ObjDevsOk(o, a) /\ AttrChildrenOk(o, a) /\ \A i \in DOMAIN subs : subs[i].ok,
                ObjDevs(o, a) \o FlattenSeq([i \in DOMAIN subs |-> subs[i].local]),
                UNION {subs[i].remote : i \in DOMAIN subs})

Traverse(root, name, a) ==
  LET trav[o \in Seq(STRING)] ==
        LET kids == AttrChildren(o, a)
        IN TraverseOne(root, o, a, [i \in DOMAIN kids |-> trav[kids[i]]])
  IN trav[name]

(* initAttr: without an operation there is nothing to resolve.             *)
InitAttr(root, o, a) ==
  IF ctxDoc[o].attrs[a].op = "" THEN Resolved(TRUE, <<>>, {}) ELSE Traverse(root, o, a)

(* DistObject: no attribute has devices and a communicator, and there are  *)
(* no two communicators.                                                   *)
OneWay(info) ==
  /\ \A a \in CtxAttr : info[a].remote = {} \/ info[a].local = <<>>
  /\ \A a, b \in CtxAttr : info[a].remote = {} \/ info[b].remote \in {{}, info[a].remote}

NewObj(root, o) == [a \in CtxAttr |-> InitAttr(root, o, a)]
Works(info)     == (\A a \in CtxAttr : info[a].ok) /\ OneWay(info)

(* findObject of each of a set of names: those that are new are made.      *)
Finds(root, os) ==
  LET new == {o \in os : Has(o)} \ DOMAIN ctxObjs IN
  IF \A o \in new : Works(NewObj(root, o))
  THEN /\ ctxObjs' = [o \in DOMAIN ctxObjs \union new |->
                        IF o \in new THEN NewObj(root, o) ELSE ctxObjs[o]]
       /\ ctxState' = "runs"
  ELSE ctxState' = "aborted" /\ UNCHANGED ctxObjs

(* The constructor of the context.                                         *)
CntxtInit(r) ==
  /\ ctxState = "none"
  /\ ctxRoot' = r
  /\ IF Has(r) THEN Finds(r, {r}) ELSE ctxState' = "exited" /\ UNCHANGED ctxObjs
  /\ UNCHANGED ctxDoc

(* What the application asks for; NULL when there is no such object.       *)
GetObjByName(o) ==
  /\ ctxState = "runs"
  /\ Finds(ctxRoot, {o})
  /\ UNCHANGED <<ctxDoc, ctxRoot>>

(* Cntxt::getParent: the entry point has none; any other must have.        *)
GetParent(o) ==
  /\ ctxState = "runs" /\ o \in DOMAIN ctxObjs /\ o # ctxRoot /\ ParentName(o) # <<>>
  /\ IF Has(ParentName(o)) THEN Finds(ctxRoot, {ParentName(o)})
     ELSE ctxState' = "aborted" /\ UNCHANGED ctxObjs
  /\ UNCHANGED <<ctxDoc, ctxRoot>>

(* Cntxt::getChildren: a child that is not there is an assert.             *)
GetChildren(o) ==
  /\ ctxState = "runs" /\ o \in DOMAIN ctxObjs
  /\ IF \A k \in Range(Childs(o)) : Has(k) THEN Finds(ctxRoot, Range(Childs(o)))
     ELSE ctxState' = "aborted" /\ UNCHANGED ctxObjs
  /\ UNCHANGED <<ctxDoc, ctxRoot>>

(* findAllObjType: every object on the way is made, down to those of the   *)
(* type, whose children are not looked at.                                 *)
Visited(name, t) ==
  LET below[o \in Seq(STRING)] ==
        {o} \union (IF ~Has(o) \/ TypeStrToInt(ctxDoc[o].type) = t THEN {}
                    ELSE UNION {below[k] : k \in Range(Childs(o))})
  IN below[name]

GetGrp(t) ==
  /\ ctxState = "runs"
  /\ IF \A o \in Visited(ctxRoot, t) : Has(o) THEN Finds(ctxRoot, Visited(ctxRoot, t))
     ELSE ctxState' = "aborted" /\ UNCHANGED ctxObjs
  /\ UNCHANGED <<ctxDoc, ctxRoot>>

CtxNames == UNION {DOMAIN d : d \in Docs}

CtxNext ==
  \/ \E o \in CtxNames : CntxtInit(o) \/ GetObjByName(o) \/ GetParent(o) \/ GetChildren(o)
  \/ \E t \in CtxTypes : GetGrp(t)

CtxSpec == CtxInit /\ [][CtxNext]_ctxVars

-----------------------------------------------------------------------------
(* What the document lists for an attribute at or below an object: the     *)
(* objects on ways from child to child, and their devices.                 *)
Listed(o, a) ==
  {p \in DOMAIN ctxDoc :
     /\ IsPrefix(o, p)
     /\ \A n \in Len(o)..(Len(p)-1) :
          LET q == SubSeq(p, 1, n) IN Has(q) /\ p[n+1] \in Range(Sources(q, a, "child"))}

Devices(o, a) ==
  UNION {{<<p, d>> : d \in Range(Sources(p, a, "device"))} : p \in Listed(o, a)}

(* The object whose server is to open the devices of an object: the        *)
(* nearest one at or above it with a location, or else the entry point.    *)
Owner(root, o) ==
  LET placed == {p \in Above(o) : p = root \/ (Has(p) /\ ctxDoc[p].loc)}
  IN IF placed = {} THEN root ELSE CHOOSE p \in placed : \A q \in placed : Len(q) <= Len(p)

(* What a context with the entry point root makes of an object: it reads   *)
(* each device once, if it is its own, and leaves every other to one of    *)
(* the objects below that others have.                                     *)
Splits(root, o, a, t) ==
  /\ IsInjective(t.local) /\ \A d \in Range(t.local) : Owner(root, d[1]) = root
  /\ t.remote \subseteq Listed(o, a) \ {root}
  /\ Devices(o, a) = Range(t.local) \union UNION {Devices(r, a) : r \in t.remote}
  /\ \A r \in t.remote : /\ Devices(r, a) \cap Range(t.local) = {}
                         /\ \A q \in t.remote \ {r} : Devices(q, a) \cap Devices(r, a) = {}

(* The document places everything: an object below one with a location has *)
(* one too.  (findObjLocation takes the place of one that has none from    *)
(* above; traverse then asks a server for it that there may not be.)       *)
EachPlaced ==
  \A o \in DOMAIN ctxDoc : (\E p \in Above(o) : Has(p) /\ ctxDoc[p].loc) => ctxDoc[o].loc

(* The document lists no source of an attribute twice.                     *)
ListsOnce ==
  \A o \in DOMAIN ctxDoc, a \in CtxAttr, t \in {"device", "child"} : IsInjective(Sources(o, a, t))

(* Every device that the document lists for an attribute is read once, by  *)
(* the context that the document places it at: a context reads its own and *)
(* asks the servers of objects below, which have nothing in common, for    *)
(* the others.  The server of an object is a context with that object as   *)
(* its entry point, so that it does the same, and being further down, ends *)
(* it.  If the document places everything, what is asked for has a server, *)
(* and the server places what it is asked for as the context does          *)
(* (DistCntxt::traverse, XmlConfig).                                       *)
CountedOnce ==
  ListsOnce =>
    \A o \in DOMAIN ctxObjs, a \in CtxAttr :
      ctxDoc[o].attrs[a].op # "" =>
        /\ Splits(ctxRoot, o, a, ctxObjs[o][a])
        /\ EachPlaced => \A r \in ctxObjs[o][a].remote :
             ctxDoc[r].loc /\ \A d \in Devices(r, a) : Owner(r, d[1]) = Owner(ctxRoot, d[1])

(* The inductive invariant: what the context has made of an object is what *)
(* the document says of it now.                                            *)
CtxIInv ==
  /\ ctxDoc \in Docs
  /\ ctxState = "none" => ctxObjs = NoObjs
  /\ \A o \in DOMAIN ctxObjs : Has(o) /\ ctxObjs[o] = NewObj(ctxRoot, o) /\ Works(ctxObjs[o])
=============================================================================
