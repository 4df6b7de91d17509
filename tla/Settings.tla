------------------------------ MODULE Settings ------------------------------
(***************************************************************************)
(* What a run may reach and with which credentials: experiment.yaml as     *)
(* src/harness/schema reads it, run.config.yaml and the environment as     *)
(* src/harness/run/settings.py resolves them against the locked spec, the  *)
(* sidecars that run/api.py puts under them, and what run/seam.py and      *)
(* run/egress.py make of the result for one trial.                         *)
(***************************************************************************)
EXTENDS Naturals, Sequences, SequencesExt, FiniteSets

CONSTANTS Null

Ok(value)   == [ok |-> TRUE, value |-> value]
Error(name) == [ok |-> FALSE, value |-> name]

(***************************************************************************)
(* schema/experiment.py. A spec is a record of its blocks; a model is      *)
(* [id, vendor], hosts a function from the model ids they are declared     *)
(* for to sequences of hosts, "" a blank host. Errors come in the order    *)
(* the validators run; the first named one is what from_dict raises.       *)
(***************************************************************************)
Blank == ""
DeclaredModels(arm) == <<arm.model>> \o arm.aux
ModelIds(arm)  == {m.id : m \in ToSet(DeclaredModels(arm))}
AuxErrors(aux) ==
  [i \in DOMAIN aux |-> IF ~aux[i].vendor THEN "AuxModelError"
                        ELSE IF ~aux[i].cutoff THEN "structural" ELSE "fine"]
ModelError(arm) == IF arm.model.vendor THEN "fine" ELSE "ArmModelError"
CutoffError(arm) == IF arm.model.cutoff THEN "fine" ELSE "structural"
DeclaredSetError(arm) ==
  IF Cardinality(ModelIds(arm)) # Len(DeclaredModels(arm)) THEN "AuxModelError"
  ELSE IF ~(DOMAIN arm.hosts \subseteq ModelIds(arm)) THEN "ModelHostsError"
  ELSE IF \E m \in DOMAIN arm.hosts : arm.hosts[m] = <<>> \/ Blank \in ToSet(arm.hosts[m])
       THEN "ModelHostsError" ELSE "fine"
Faults(errors) == SelectSeq(errors, LAMBDA e : e # "fine")
ArmErrors(arm) ==
  LET fields == Faults(<<ModelError(arm), CutoffError(arm)>> \o AuxErrors(arm.aux))
  IN  IF fields # <<>> THEN fields ELSE Faults(<<DeclaredSetError(arm)>>)
UniqueArmNames(arms) == Cardinality({a.name : a \in ToSet(arms)}) = Len(arms)
ArmsErrors(arms) ==
  LET each == FlattenSeq([i \in DOMAIN arms |-> ArmErrors(arms[i])])
  IN  IF Len(arms) < 2 THEN <<"structural">>
      ELSE IF each # <<>> THEN each
      ELSE Faults(<<IF UniqueArmNames(arms) THEN "fine" ELSE "ArmNameError">>)
MetricError(spec) ==
  IF spec.metric \in {"pass_rate", "cost"} THEN "fine" ELSE "CompositePrimaryMetricError"
JudgeErrors(judge) ==
  <<IF judge.versioned THEN "fine" ELSE "AliasJudgeIdError",
    IF judge.panel THEN "JudgePanelUnsupportedError" ELSE "fine">>
EffectError(spec) == IF spec.effect \in {"absent", "fraction"} THEN "fine" ELSE "structural"
InfraError(spec)  == IF Blank \in ToSet(spec.infra) THEN "InfraHostsError" ELSE "fine"
HostsFullyDeclared(spec) ==
  \/ spec.infra = <<>> /\ \A a \in ToSet(spec.arms) : DOMAIN a.hosts = {}
  \/ \A a \in ToSet(spec.arms) : DOMAIN a.hosts # {}
(* DecisionRule.parse: `==` and a metric other than the primary are named. *)
RuleParses(spec) == spec.rule.op \in {">", ">="} /\ spec.rule.metric = spec.metric
FromDict(spec) ==
  LET fields == ArmsErrors(spec.arms) \o Faults(<<MetricError(spec)>> \o JudgeErrors(spec.judge)
                                                \o <<EffectError(spec), InfraError(spec)>>)
      named  == SelectSeq(fields, LAMBDA e : e # "structural")
  IN  IF ~spec.ceiling THEN Error("MissingCostCeilingError")
      ELSE IF fields # <<>> THEN Error(IF named = <<>> THEN "SpecValidationError" ELSE named[1])
      ELSE IF ~HostsFullyDeclared(spec) THEN Error("ModelHostsError")
      ELSE IF ~RuleParses(spec) THEN Error("DecisionRuleError")
      ELSE Ok(spec)

(***************************************************************************)
(* run/egress.py. A host matches a declared one that is itself or a domain *)
(* above it; the blank host is above every name that ends in a dot.        *)
(***************************************************************************)
Above(h) == CASE h = "eu.m1" -> {"eu.m1", "m1"} [] h = "evil." -> {"evil.", Blank} [] OTHER -> {h}
HostMatches(h, declared) == Above(h) \cap declared # {}
ArmDeclaredHosts(arm) == UNION {ToSet(arm.hosts[m]) : m \in DOMAIN arm.hosts}
TaskExtraHosts(tasks) == UNION {ToSet(t) : t \in ToSet(tasks)} \ {Blank}
SpecAllowlist(spec, tasks) ==
  LET hosts == ToSet(spec.infra) \cup UNION {ArmDeclaredHosts(a) : a \in ToSet(spec.arms)}
  IN  IF hosts = {} THEN {} ELSE hosts \cup TaskExtraHosts(tasks)
DEFAULT_MODEL_API_HOSTS == {"m1", "m2"}
ProxyConfig(allow, url, log, infra) ==
  [allow |-> IF allow = Null THEN DEFAULT_MODEL_API_HOSTS ELSE allow,
   url |-> url, log |-> log, infra |-> infra, reverse |-> {}]
UndeclaredModelEgress(proxy, arm, attempts) ==
  IF DOMAIN arm.hosts = {} THEN {}
  ELSE {h \in attempts : /\ HostMatches(h, proxy.allow)
                         /\ ~HostMatches(h, proxy.infra \cup ArmDeclaredHosts(arm))}

(***************************************************************************)
(* run/settings.py. A block of run.config.yaml is Null, "scalar" where a   *)
(* mapping was meant, or a record; the whole file may be absent (Null).    *)
(***************************************************************************)
BlockError(block) == block.shape = "scalar"
Absent == [shape |-> "absent"]
RunConfigFile(config) ==
  ~\E b \in {config.proxy, config.otlp, config.quotas} : BlockError(b)
ResolveProxy(config, spec, tasks) ==
  LET declared == SpecAllowlist(spec, tasks)
      p == config.proxy
  IN  IF p.shape = "absent"
      THEN IF declared = {} THEN Ok(Null) ELSE Error("no proxy for the declared hosts")
      ELSE IF p.managed /\ p.url # Null THEN Error("managed with a url")
      ELSE IF declared # {} /\ p.allow # Null THEN Error("a second allowlist")
      ELSE Ok(ProxyConfig(IF declared # {} THEN declared ELSE p.allow, p.url, p.log, ToSet(spec.infra)))
ResolveOtlp(config) ==
  LET o == config.otlp
  IN  IF o.shape = "absent" THEN Ok(Null)
      ELSE IF o.managed THEN IF o.endpoint # Null THEN Error("managed with an endpoint") ELSE Ok(Null)
      ELSE IF o.endpoint = Null \/ o.log = Null THEN Error("half a collector")
      ELSE Ok([endpoint |-> o.endpoint, log |-> o.log])
ResolveQuotas(config) ==
  IF config.quotas.shape = "absent" \/ config.quotas.cpus = Null THEN "default" ELSE config.quotas.cpus
(* The union of the names, each of which must be in the environment.       *)
ProviderKeys(config, env) ==
  LET names == config.keys \cup (IF config.byArm = Null THEN {} ELSE UNION {config.byArm[a] : a \in DOMAIN config.byArm})
  IN  IF names \subseteq env THEN Ok(names) ELSE Error("MissingProviderKeyError")
ReuseBundle(config, flag) == IF flag # Null THEN flag ELSE config.reuse   \* not a mapping: Null
Defaults == [proxy |-> Null, proxyManaged |-> FALSE, otlp |-> Null, otlpManaged |-> FALSE,
             quotas |-> "default", keys |-> {}, byArm |-> Null]
Managed(block) == block.shape = "mapping" /\ block.managed
LoadRunSettings(config, env, spec, tasks) ==
  IF config = Null
  THEN IF SpecAllowlist(spec, tasks) = {} THEN Ok(Defaults) ELSE Error("no run.config.yaml")
  ELSE LET proxy == ResolveProxy(config, spec, tasks)
           otlp  == ResolveOtlp(config)
           keys  == ProviderKeys(config, env)
       IN  IF ~RunConfigFile(config) THEN Error("not a mapping")
           ELSE IF ~proxy.ok THEN proxy ELSE IF ~otlp.ok THEN otlp ELSE IF ~keys.ok THEN keys
           ELSE Ok([proxy |-> proxy.value, proxyManaged |-> Managed(config.proxy),
                    otlp |-> otlp.value, otlpManaged |-> Managed(config.otlp),
                    quotas |-> ResolveQuotas(config), keys |-> keys.value, byArm |-> config.byArm])

(***************************************************************************)
(* run/api.py: the sidecars wrap a schedule of an engine with real         *)
(* infrastructure, and otlp arms need a collector. The refusals before any *)
(* trial, in their order; the tasks that the corpus manifest admits.       *)
(***************************************************************************)
ReverseEndpoints(allow) == allow
ManagedProxy(s, real) ==
  IF ~s.proxyManaged \/ ~real THEN s.proxy
  ELSE [s.proxy EXCEPT !.url = "managed", !.reverse = ReverseEndpoints(s.proxy.allow),
                       !.log = IF s.proxy.log # Null THEN s.proxy.log ELSE "metering"]
ManagedCollector(s, real) ==
  IF ~s.otlpManaged \/ ~real THEN s.otlp ELSE [endpoint |-> "managed", log |-> "otlp"]
OtlpCoherent(spec, otlp) == otlp # Null \/ \A a \in ToSet(spec.arms) : a.platform # "otlp"
RunExperiment(c) ==
  LET s == LoadRunSettings(c.config, c.env, c.spec, c.tasks)
      collector == ManagedCollector(s.value, c.real)
  IN  IF ~FromDict(c.spec).ok THEN FromDict(c.spec)
      ELSE IF c.tasks = <<>> THEN Error("NoTasksError")
      ELSE IF ~c.commitment THEN Error("TaskCommitmentError")
      ELSE IF ~s.ok THEN s
      ELSE IF ~OtlpCoherent(c.spec, collector) THEN Error("OtlpCoherenceError")
      ELSE Ok([proxy |-> ManagedProxy(s.value, c.real), otlp |-> collector, quotas |-> s.value.quotas,
               keys |-> s.value.keys, byArm |-> s.value.byArm])

(* run/seam.py: the keys of one arm's container.                           *)
ArmKeys(run, arm) ==
  IF run.byArm = Null THEN Ok(run.keys)
  ELSE IF arm.name \notin DOMAIN run.byArm THEN Error("MissingProviderKeyError")
  ELSE Ok(run.keys \cap run.byArm[arm.name])

-----------------------------------------------------------------------------
(* Inputs: two arms with their models and hosts, an infrastructure host, a *)
(* task's own host; each block of either file varied in turn.              *)
Model(id) == [id |-> id, vendor |-> TRUE, cutoff |-> TRUE]
NoHosts   == [m \in {} |-> <<>>]
HostsOf(id, hosts) == [m \in {id} |-> hosts]
Arm(n, id, hosts) == [name |-> n, model |-> Model(id), aux |-> <<>>, hosts |-> hosts, platform |-> "log"]
Spec0 == [arms |-> <<Arm("a", "x", HostsOf("x", <<"m1">>)), Arm("b", "y", HostsOf("y", <<"m2">>))>>,
          infra |-> <<"infra">>, metric |-> "pass_rate", ceiling |-> TRUE, effect |-> "absent",
          judge |-> [versioned |-> TRUE, panel |-> FALSE], rule |-> [op |-> ">", metric |-> "pass_rate"]]
HostSets(id) == {NoHosts, HostsOf(id, <<>>), HostsOf(id, <<Blank>>), HostsOf(id, <<"m1">>),
                 HostsOf(id, <<"m2", "eu.m1">>), HostsOf("z", <<"m1">>)}
ArmChoices == {Arm("a", "x", h) : h \in HostSets("x")}
              \cup {[Arm("a", "x", HostsOf("x", <<"m1">>)) EXCEPT !.aux = aux] :
                      aux \in {<<Model("x")>>, <<Model("w")>>, <<[Model("w") EXCEPT !.vendor = FALSE]>>,
                               <<[Model("w") EXCEPT !.cutoff = FALSE]>>}}
Specs ==
  {[Spec0 EXCEPT !.arms = <<a, b>>, !.infra = i] : a \in ArmChoices,
     b \in {Arm("b", "y", h) : h \in HostSets("y")} \cup {Arm("a", "y", HostsOf("y", <<"m2">>))},
     i \in {<<>>, <<"infra">>, <<Blank>>}}
  \cup {[Spec0 EXCEPT !.metric = m, !.ceiling = c, !.effect = e, !.judge = j, !.rule = r] :
          m \in {"pass_rate", "composite"}, c \in BOOLEAN, e \in {"absent", "fraction", "negative"},
          j \in [versioned : BOOLEAN, panel : BOOLEAN], r \in [op : {">", "=="}, metric : {"pass_rate", "cost"}]}
Undeclared == [Spec0 EXCEPT !.arms = <<Arm("a", "x", NoHosts), Arm("b", "y", NoHosts)>>, !.infra = <<>>]
Otlp == [Spec0 EXCEPT !.arms[2].platform = "otlp"]
Proxies == {Absent, [shape |-> "scalar"]}
  \cup [shape : {"mapping"}, url : {Null, "url"}, allow : {Null, {}, {"m1", Blank}}, log : {Null, "log"}, managed : BOOLEAN]
Collectors == {Absent, [shape |-> "scalar"]}
  \cup [shape : {"mapping"}, endpoint : {Null, "endpoint"}, log : {Null, "log"}, managed : BOOLEAN]
QuotaBlocks == {Absent, [shape |-> "scalar"]} \cup [shape : {"mapping"}, cpus : {Null, "4"}]
ByArms == {Null} \cup UNION {[d -> SUBSET {"ka", "kb"}] : d \in {{"a"}, {"a", "b"}}}
UrlProxy == [shape |-> "mapping", url |-> "url", allow |-> Null, log |-> "log", managed |-> FALSE]
Config0 == [proxy |-> UrlProxy, otlp |-> Absent, quotas |-> Absent, keys |-> {}, byArm |-> Null, reuse |-> Null]
Configs ==
  {Null} \cup {[Config0 EXCEPT !.proxy = p, !.otlp = o] : p \in Proxies, o \in Collectors}
  \cup {[Config0 EXCEPT !.quotas = q, !.keys = k, !.byArm = b] :
          q \in QuotaBlocks, k \in {{}, {"ka"}, {"ka", "kb"}}, b \in ByArms}
TaskLists == {<<<<>>>>, <<<<"task", Blank>>, <<>>>>}
Case0 == [spec |-> Spec0, config |-> Config0, env |-> {"ka", "kb"}, tasks |-> <<<<>>>>, commitment |-> TRUE,
          real |-> TRUE, attempts |-> {"m1", "m2", "eu.m1", "infra", "task", "evil."}]
SpecCases == {[Case0 EXCEPT !.spec = s, !.tasks = t] : s \in Specs, t \in TaskLists}
ConfigCases ==
  {[Case0 EXCEPT !.spec = s, !.config = c, !.real = r, !.tasks = t] :
     s \in {Spec0, Undeclared, Otlp}, c \in Configs, r \in BOOLEAN, t \in TaskLists}
KeyCases ==
  {[Case0 EXCEPT !.config = c, !.env = e, !.commitment = ok, !.tasks = t] : c \in Configs,
     e \in {{}, {"ka"}}, ok \in BOOLEAN, t \in {<<>>, <<<<>>>>}}

-----------------------------------------------------------------------------
(***************************************************************************)
(* settings.py, egress.py, EVAL-20 AC-6: an accepted run of a spec that    *)
(* declares hosts reaches exactly what the spec and its tasks declare,     *)
(* whichever arm, proxy, sidecar or engine it is: no arm's own endpoint is *)
(* denied, nothing is widened by run.config.yaml or by a blank host, and a *)
(* task cannot switch a spec that declares nothing over to its own list.   *)
(***************************************************************************)
EgressAsLocked(c, run) ==
  LET declares == c.spec.infra # <<>> \/ \E a \in ToSet(c.spec.arms) : DOMAIN a.hosts # {}
      locked   == {"task"} \cap UNION {ToSet(t) : t \in ToSet(c.tasks)}
  IN  /\ declares =>
           /\ run.proxy # Null /\ Blank \notin run.proxy.allow
           /\ \A a \in ToSet(c.spec.arms) : ArmDeclaredHosts(a) # {}
           /\ run.proxy.allow = ToSet(c.spec.infra) \cup locked
                                  \cup UNION {ArmDeclaredHosts(a) : a \in ToSet(c.spec.arms)}
      /\ ~declares /\ run.proxy # Null =>
           run.proxy.allow \in {DEFAULT_MODEL_API_HOSTS, {}, {"m1", Blank}}
      /\ c.config # Null /\ c.real /\ Managed(c.config.proxy) =>
           run.proxy.url # Null /\ run.proxy.log # Null /\ run.proxy.reverse = run.proxy.allow

(***************************************************************************)
(* settings.py, seam.py, PRA-M2, D-P3-1: the containers of an accepted run *)
(* hold only keys that the environment has; without a list by arm all arms *)
(* hold every named key, with one each arm holds its own names and no      *)
(* other arm's; no quota is unpinned, and a collector has a log to read.   *)
(***************************************************************************)
ArmsEquipped(c, run) ==
  /\ run.quotas # Null
  /\ run.otlp # Null => run.otlp.log # Null /\ run.otlp.endpoint # Null
  /\ (\E a \in ToSet(c.spec.arms) : a.platform = "otlp") => run.otlp # Null
  /\ \A a \in ToSet(c.spec.arms) :
       LET k == ArmKeys(run, a) IN
       /\ k.ok => k.value \subseteq c.env
       /\ c.config # Null /\ c.config.byArm = Null => k.ok /\ k.value = c.config.keys
       /\ c.config # Null /\ c.config.byArm # Null =>
            (k.ok <=> a.name \in DOMAIN c.config.byArm) /\ (k.ok => k.value = c.config.byArm[a.name])

(***************************************************************************)
(* egress.py, EVAL-20 D003: an arm is flagged for the other arm's endpoint *)
(* and never for its own, a domain under it, or the shared infrastructure. *)
(***************************************************************************)
FlagsAttribute(c, run) ==
  \A a, b \in ToSet(c.spec.arms) :
    LET flags == UndeclaredModelEgress(run.proxy, a, c.attempts) IN
    run.proxy # Null =>
      /\ flags \subseteq run.proxy.allow \cup {"eu.m1"}
      /\ DOMAIN a.hosts = {} => flags = {}
      /\ flags \cap (ArmDeclaredHosts(a) \cup ToSet(c.spec.infra)) = {}
      /\ "m1" \in ArmDeclaredHosts(a) => "eu.m1" \notin flags
      /\ DOMAIN a.hosts # {} =>
           \A h \in c.attempts \cap ArmDeclaredHosts(b) :
             h \in flags \/ HostMatches(h, ArmDeclaredHosts(a) \cup ToSet(c.spec.infra))

SettingsSound(c) ==
  LET run == RunExperiment(c) IN
  run.ok => /\ EgressAsLocked(c, run.value) /\ ArmsEquipped(c, run.value) /\ FlagsAttribute(c, run.value)
            /\ c.tasks # <<>> /\ c.commitment

(***************************************************************************)
(* settings.py says that flat key names go to every arm and names by arm   *)
(* only to that arm: every key that is named reaches some arm's container. *)
(***************************************************************************)
FlatKeysReachEveryArm(c) ==
  LET run == RunExperiment(c) IN
  run.ok /\ c.config # Null =>
    \A a \in ToSet(c.spec.arms) :
      ArmKeys(run.value, a).ok => c.config.keys \subseteq ArmKeys(run.value, a).value
=============================================================================
