----------------------------- MODULE MCLibrary -----------------------------
(***************************************************************************)
(* Six parts of the client library, each in its own runs: the devices of  *)
(* a configuration; a WattsUp meter; two threads that read a PowerInsight  *)
(* agent; an application with its groups and statistics; a context with    *)
(* its document; and the daemon's logger.  A behaviour picks its part and  *)
(* leaves the variables of the others alone.                               *)
(***************************************************************************)
EXTENDS PlugIns, WuDev, PiapiDev, Groups, Context, Logger

VARIABLE part

C(i, os) == [init |-> i, opens |-> os]

(* Every plug-in; rapldev as examples/config has it, and with the layers   *)
(* behind the core in the init string, next to a plug-in whose open cuts   *)
(* up another string.                                                      *)
MCConfigs ==
  {[k \in {"pmc"} |-> C(<<"0">>, {<<"0", "1">>, <<"1">>})]}
  \union {[k \in {p} |-> C(<<"0">>, {<<"0">>})] : p \in {"cpu", "xtpm", "dummy", "pid"}}
  \union {[k \in {"pg"} |-> C(<<>>, {<<"0", "0">>, <<"1", "0">>})],
          [k \in {"apm"} |-> C(<<"1">>, {<<"0">>})],
          [k \in {"rapl"} |-> C(<<"0">>, {<<"pkg">>})],
          [k \in {"rapl", "pmc"} |-> IF k = "pmc" THEN C(<<>>, {<<"1">>})
                                     ELSE C(<<"0", "pkg", "dram">>, {<<"pkg">>})]}

(* Power Gadget alone.                                                     *)
MCPgConfigs == {[k \in {"pg"} |-> C(<<>>, {<<"0", "0">>, <<"1", "0">>})]}

(* An entry point with a local and a remote child, and a local object.      *)
MCWhere  == [o \in Leaf |-> IF o \in {"a", "b"} THEN "local" ELSE "remote"]
MCTypeOf == [o \in Leaf |-> IF o \in {"a", "b"} THEN "Node" ELSE "Cabinet"]
MCKids   == <<"b", "r">>

(* A platform, a cabinet with two leaves, and every way to place them; the *)
(* cabinet adds up its leaves, reads a device, or both; it may list no     *)
(* children, and a leaf or the platform may be missing.                    *)
Src(ds, cs)      == [t \in {"device", "child"} |-> IF t = "device" THEN ds ELSE cs]
NoSrc            == Src(<<>>, <<>>)
Elem(l, t, k, s) == [loc |-> l, type |-> t, devs |-> {"d"}, kids |-> k,
                     attrs |-> [a \in CtxAttr |-> [op |-> IF s[a] = NoSrc THEN "" ELSE "SUM",
                                                  src |-> s[a]]]]
Both             == Src(<<>>, <<"n0", "n1">>)
Dev              == Src(<<"d">>, <<>>)
CabSources       == {Both, Dev, Src(<<"d">>, <<"n0">>)} \X {NoSrc, Src(<<>>, <<"n0">>), Both}

MCDoc(at, below, cab, gone) ==
  LET all == (<<"p">> :> Elem(FALSE, "Platform", <<"c">>, [a \in CtxAttr |-> Src(<<>>, <<"c">>)]))
             @@ (<<"p", "c">> :> Elem(1 \in at, "Cabinet", below,
                                      [a \in CtxAttr |-> IF a = "energy" THEN cab[1] ELSE cab[2]]))
             @@ (<<"p", "c", "n0">> :> Elem(2 \in at, "Node", <<>>, [a \in CtxAttr |-> Dev]))
             @@ (<<"p", "c", "n1">> :> Elem(3 \in at, "Memory", <<>>, [a \in CtxAttr |-> Dev]))
  IN [o \in DOMAIN all \ gone |-> all[o]]

MCDocs == {MCDoc(at, below, cab, gone) :
             at \in SUBSET (1..3), below \in {<<"n0", "n1">>, <<>>}, cab \in CabSources,
             gone \in {{}, {<<"p">>}, {<<"p", "c", "n1">>}}}
          \union {<<>>}

(* A logger of each kind, of one object or of a type, with up to three      *)
(* attributes; and what ends it before it has begun.                       *)
Arg(k, t, n, as) == [kind |-> k, type |-> t, name |-> n, attrs |-> as, context |-> TRUE, logfile |-> TRUE]
MCArgs ==
  {Arg(k, t, n, as) : k \in LgrKinds, t \in BOOLEAN, n \in {"a", "Node", "none"},
                      as \in {<<>>, <<"energy">>, <<"power", "energy">>, <<"power", "max">>,
                              <<"power", "energy", "power">>}}
  \union {[Arg("energy", FALSE, "a", <<"energy">>) EXCEPT !.context = FALSE],
          [Arg("energy", FALSE, "a", <<"energy">>) EXCEPT !.logfile = FALSE]}
MCObj  == <<"a", "b">>

MCInit ==
  /\ part \in {"devices", "meter", "agent", "groups", "context", "logger"}
  /\ Init /\ (part # "devices" => cfg = CHOOSE c \in Configs : TRUE)
  /\ CtxInit /\ (part # "context" => ctxDoc = <<>>)
  /\ LgrInit /\ (part # "logger" => lgrEnergy = 0 /\ lgrArgs = Arg("energy", FALSE, "a", <<"energy">>))
  /\ WuInit /\ PiInit /\ GrpInit

MCNext ==
  \/ part = "devices" /\ Next /\ UNCHANGED <<part, wuVars, piVars, grpVars, ctxVars, lgrVars>>
  \/ part = "meter" /\ WuNext /\ UNCHANGED <<part, vars, piVars, grpVars, ctxVars, lgrVars>>
  \/ part = "agent" /\ PiNext /\ UNCHANGED <<part, vars, wuVars, grpVars, ctxVars, lgrVars>>
  \/ part = "groups" /\ GrpNext /\ UNCHANGED <<part, vars, wuVars, piVars, ctxVars, lgrVars>>
  \/ part = "context" /\ CtxNext /\ UNCHANGED <<part, vars, wuVars, piVars, grpVars, lgrVars>>
  \/ part = "logger" /\ LgrNext /\ UNCHANGED <<part, vars, wuVars, piVars, grpVars, ctxVars>>

MCSpec == MCInit /\ [][MCNext]_<<part, vars, wuVars, piVars, grpVars, ctxVars, lgrVars>> /\ PiFair
=============================================================================
