------------------------------ MODULE Sidecars ------------------------------
(***************************************************************************)
(* The managed sidecars of `bench run`: a metering proxy on the metered    *)
(* and the egress network and a trace collector on the metered one only.   *)
(* Runs are processes of one host and share the docker daemon and the two  *)
(* networks; each docker command is a step, and any of them may fail.      *)
(***************************************************************************)
EXTENDS Naturals, Sequences, FiniteSets

CONSTANTS Runs

VARIABLES
  networks,    \* the docker networks that exist
  containers,  \* running containers: name, kind (its ownership label), networks
  rawlog,      \* the runs whose collector log is on the host
  managed,     \* per run: the sidecars its settings ask the run to manage
  pc,          \* per run: the sidecar it works on, the phase, the network
  spoiled      \* a kill, a failed teardown command or `bench ... down` so far

vars == <<networks, containers, rawlog, managed, pc, spoiled>>

Kinds == {"proxy", "collector"}
(* metering.py and tracing.py, _stand_up: networks in the order created.   *)
Nets(kind) == IF kind = "proxy" THEN <<"metered", "egress">> ELSE <<"metered">>
(* sidecar.py, _instance_suffix: a name no other instance has.             *)
Name_Fixed(r, kind) == <<kind>>
Name(r, kind) == <<kind, r>>

At(r, kind, phase) == pc[r].kind = kind /\ pc[r].phase = phase
State(kind, phase, n) == [kind |-> kind, phase |-> phase, n |-> n]
Goto(r, s) == pc' = [pc EXCEPT ![r] = s]
Phase(r, phase) == Goto(r, [pc[r] EXCEPT !.phase = phase])

Init ==
  /\ networks = {} /\ containers = {} /\ rawlog = {} /\ spoiled = FALSE
  /\ managed = [r \in Runs |-> {}]
  /\ pc = [r \in Runs |-> State("run", "idle", 0)]

(***************************************************************************)
(* run/api.py: the proxy's context encloses the collector's, and each is   *)
(* a passthrough unless it is managed on an engine with real               *)
(* infrastructure.                                                         *)
(***************************************************************************)
Enter(r, kind) ==
  IF kind \in managed'[r] THEN State(kind, "inspect", 1)
  ELSE IF kind = "proxy" /\ "collector" \in managed'[r] THEN State("collector", "inspect", 1)
  ELSE State("run", "up", 0)
Exit(r, kind) ==
  IF kind \in managed[r] THEN State(kind, "remove", 0)
  ELSE IF kind = "collector" /\ "proxy" \in managed[r] THEN State("proxy", "remove", 0)
  ELSE State("run", "done", 0)
Leave(r, kind) == IF kind = "collector" THEN Exit(r, "proxy") ELSE State("run", "done", 0)

BeginRun(r, realInfra, asked) ==
  /\ At(r, "run", "idle")
  /\ managed' = [managed EXCEPT ![r] = IF realInfra THEN asked ELSE {}]
  /\ Goto(r, Enter(r, "proxy"))
  /\ UNCHANGED <<networks, containers, rawlog, spoiled>>
FinishSchedule(r) ==
  /\ At(r, "run", "up") /\ Goto(r, Exit(r, "collector"))
  /\ UNCHANGED <<networks, containers, rawlog, managed, spoiled>>

(***************************************************************************)
(* ManagedSidecar.start. The first step also provisions the log and        *)
(* removes a stale container of this very name.                            *)
(***************************************************************************)
Named(name) == {c \in containers : c.name = name}
Removed(cs) == containers' = containers \ cs
Provision(r, kind) ==
  /\ rawlog' = IF kind = "collector" THEN rawlog \cup {r} ELSE rawlog
  /\ Removed(Named(Name(r, kind)))
NextNet(r, kind) ==
  IF pc[r].n < Len(Nets(kind)) THEN State(kind, "inspect", pc[r].n + 1)
  ELSE State(kind, "run", 0)
Inspect(r, kind) ==
  /\ At(r, kind, "inspect")
  /\ IF Nets(kind)[pc[r].n] \in networks THEN Goto(r, NextNet(r, kind))
     ELSE Phase(r, "create")
  /\ IF pc[r].n = 1 THEN Provision(r, kind) ELSE UNCHANGED <<containers, rawlog>>
  /\ UNCHANGED <<networks, managed, spoiled>>
(* docker refuses a second network of one name: the start fails loudly.    *)
CreateNetwork(r, kind) ==
  /\ At(r, kind, "create") /\ Nets(kind)[pc[r].n] \notin networks
  /\ networks' = networks \cup {Nets(kind)[pc[r].n]}
  /\ Goto(r, NextNet(r, kind))
  /\ UNCHANGED <<containers, rawlog, managed, spoiled>>
RunContainer(r, kind) ==
  /\ At(r, kind, "run") /\ "metered" \in networks /\ Named(Name(r, kind)) = {}
  /\ containers' = containers \cup
       {[name |-> Name(r, kind), kind |-> kind, nets |-> {"metered"}]}
  /\ Phase(r, IF kind = "proxy" THEN "connect" ELSE "ready")
  /\ UNCHANGED <<networks, rawlog, managed, spoiled>>
ConnectEgress(r) ==
  /\ At(r, "proxy", "connect") /\ "egress" \in networks
  /\ \E c \in Named(Name(r, "proxy")) :
       containers' = (containers \ {c}) \cup {[c EXCEPT !.nets = @ \cup {"egress"}]}
  /\ Phase(r, "ready")
  /\ UNCHANGED <<networks, rawlog, managed, spoiled>>
AwaitReady(r, kind) ==
  /\ At(r, kind, "ready") /\ Named(Name(r, kind)) # {}
  /\ Phase(r, "config")
  /\ UNCHANGED <<networks, containers, rawlog, managed, spoiled>>
(* The proxy's configuration needs its address on the metered network: the *)
(* reverse endpoints a client is steered to name it.                       *)
ReverseEndpoints(r) == \E c \in Named(Name(r, "proxy")) : "metered" \in c.nets
Config(r, kind) ==
  /\ At(r, kind, "config")
  /\ kind = "proxy" => ReverseEndpoints(r)
  /\ Goto(r, IF kind = "proxy" /\ "collector" \in managed[r]
             THEN State("collector", "inspect", 1) ELSE State("run", "up", 0))
  /\ UNCHANGED <<networks, containers, rawlog, managed, spoiled>>
(* __enter__: a start that fails at any command stops what it stood up.    *)
StartFails(r, kind) ==
  /\ \E phase \in {"inspect", "create", "run", "connect", "ready", "config"} : At(r, kind, phase)
  /\ Goto(r, State(kind, "remove", 0))
  /\ UNCHANGED <<networks, containers, rawlog, managed, spoiled>>

(***************************************************************************)
(* ManagedSidecar.stop: the container, then its networks (a network with a *)
(* container on it stays), then the raw log. Nothing in it raises.         *)
(***************************************************************************)
Attached(net) == \E c \in containers : net \in c.nets
RemoveNetwork(net) == networks' = IF Attached(net) THEN networks ELSE networks \ {net}
RemoveContainer(r, kind) ==
  /\ At(r, kind, "remove")
  /\ Removed(Named(Name(r, kind)))
  /\ Goto(r, State(kind, "networks", Len(Nets(kind))))
  /\ UNCHANGED <<networks, rawlog, managed, spoiled>>
TeardownNetworks(r, kind) ==
  /\ At(r, kind, "networks")
  /\ RemoveNetwork(Nets(kind)[pc[r].n])
  /\ Goto(r, IF pc[r].n > 1 THEN State(kind, "networks", pc[r].n - 1)
             ELSE State(kind, "log", 0))
  /\ UNCHANGED <<containers, rawlog, managed, spoiled>>
PreTeardown(r, kind) ==
  /\ At(r, kind, "log")
  /\ rawlog' = IF kind = "collector" THEN rawlog \ {r} ELSE rawlog
  /\ Goto(r, Leave(r, kind))
  /\ UNCHANGED <<networks, containers, managed, spoiled>>
TeardownFails(r, kind) ==
  /\ \/ At(r, kind, "remove") /\ Goto(r, State(kind, "networks", Len(Nets(kind))))
     \/ At(r, kind, "networks") /\ Goto(r, State(kind, "log", 0))
  /\ spoiled' = TRUE
  /\ UNCHANGED <<networks, containers, rawlog, managed>>

Kill(r) ==
  /\ pc[r].phase \notin {"idle", "done"}
  /\ Goto(r, State("run", "done", 0)) /\ spoiled' = TRUE
  /\ UNCHANGED <<networks, containers, rawlog, managed>>
(* `bench proxy|otlp down` sweeps by label, whoever owns the container.    *)
Down(kind) ==
  /\ \E c \in containers : c.kind = kind
  /\ Removed({c \in containers : c.kind = kind})
  /\ networks' = {n \in networks : \/ \A i \in DOMAIN Nets(kind) : Nets(kind)[i] # n
                                   \/ \E c \in containers' : n \in c.nets}
  /\ spoiled' = TRUE
  /\ UNCHANGED <<rawlog, managed, pc>>

RunStep(r) ==
  \/ \E realInfra \in BOOLEAN, asked \in SUBSET Kinds : BeginRun(r, realInfra, asked)
  \/ FinishSchedule(r) \/ ConnectEgress(r) \/ Kill(r)
  \/ \E kind \in Kinds :
       \/ Inspect(r, kind) \/ CreateNetwork(r, kind) \/ RunContainer(r, kind)
       \/ AwaitReady(r, kind) \/ Config(r, kind) \/ StartFails(r, kind) \/ RemoveContainer(r, kind)
       \/ TeardownNetworks(r, kind) \/ PreTeardown(r, kind) \/ TeardownFails(r, kind)
Next == (\E r \in Runs : RunStep(r)) \/ (\E kind \in Kinds : Down(kind))
Spec == Init /\ [][Next]_vars

(***************************************************************************)
(* While a run's schedule executes, each sidecar it manages is attached to *)
(* every network it needs and those networks exist, however other runs     *)
(* start, fail and tear down beside it (sidecar.py, incident 2026-07-10:   *)
(* "a concurrent e2e cleanup removed a live harbor run's proxy"). Only a   *)
(* `down` or a kill is outside the promise.                                *)
(***************************************************************************)
Needs(kind) == {Nets(kind)[i] : i \in DOMAIN Nets(kind)}
UpMeansReachable ==
  ~spoiled => \A r \in Runs : At(r, "run", "up") =>
    \A kind \in managed[r] :
      /\ Needs(kind) \subseteq networks
      /\ \E c \in Named(Name(r, kind)) : c.nets = Needs(kind)

(***************************************************************************)
(* When the last run has left, nothing it or a failed start stood up is    *)
(* still there: no container, no network, and no raw span log (D-09-1),    *)
(* although each run's removal of a shared network fails while another     *)
(* run's container is on it.                                               *)
(***************************************************************************)
NothingLeaks ==
  ~spoiled /\ (\A r \in Runs : pc[r].phase \in {"idle", "done"}) =>
    containers = {} /\ networks = {} /\ rawlog = {}
=============================================================================
