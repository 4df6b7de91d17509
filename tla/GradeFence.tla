----------------------------- MODULE GradeFence -----------------------------
(***************************************************************************)
(* src/harness/grade below the pass that module Grade models: how one      *)
(* trial is graded. What a container prints and how it exits, what the     *)
(* no-daemon runners find, what plugins answer, and the event that comes   *)
(* of it; then the flake baseline, which runs the same holdouts k times.   *)
(***************************************************************************)
EXTENDS Naturals, Sequences, SequencesExt, FiniteSets

CONSTANTS Null

(***************************************************************************)
(* fence.py. Output is a sequence of markers, JSON documents and noise. A  *)
(* marker has the tag of its tier and a nonce: "ours" is the one this run  *)
(* minted. A document is `list` when it has an `assertions` list (and, for *)
(* a plugin, is one), whose items are results or "bad".                    *)
(***************************************************************************)
Marker(kind, tag, nonce) == [kind |-> kind, tag |-> tag, nonce |-> nonce]
FencePair(tag, nonce) == <<Marker("begin", tag, nonce), Marker("end", tag, nonce)>>
Doc(list, items) == [kind |-> "json", list |-> list, items |-> items]
Noise == [kind |-> "noise"]
Malformed == Doc(FALSE, <<>>)

IndicesOf(out, token) == {i \in DOMAIN out : out[i] = token}
ExtractFence_AnyNonce(out, pair) ==
  LET begins == {i \in DOMAIN out : out[i].kind = "begin"}
      ends   == {i \in DOMAIN out : out[i].kind = "end"}
  IN  IF begins = {} \/ ends = {} THEN [status |-> "absent", body |-> <<>>]
      ELSE LET i == CHOOSE i \in begins : \A j \in begins : i <= j
               k == CHOOSE k \in ends : \A j \in ends : k >= j
           IN  [status |-> "ok", body |-> SubSeq(out, i + 1, k - 1)]
ExtractFence(out, pair) ==
  LET begins == IndicesOf(out, pair[1])
      ends   == IndicesOf(out, pair[2])
  IN  IF begins = {} /\ ends = {} THEN [status |-> "absent", body |-> <<>>]
      ELSE IF Cardinality(begins) # 1 \/ Cardinality(ends) # 1
           THEN [status |-> "ambiguous", body |-> <<>>]
      ELSE LET start == CHOOSE i \in begins : TRUE
               stop  == CHOOSE i \in ends : TRUE
           IN  IF stop < start THEN [status |-> "ambiguous", body |-> <<>>]
               ELSE [status |-> "ok", body |-> SubSeq(out, start + 1, stop - 1)]
(* json.loads: the body is one document and nothing else.                  *)
IsJson(body) == Len(body) = 1 /\ body[1].kind = "json"

Raised(error) == [how |-> "raised", error |-> error]
Ran(value)    == [how |-> "ran", value |-> value]

(* run_holdouts.py prints the block of what it found once, if at all; what *)
(* the agent's code prints goes before it, into it and after it.           *)
Block(tag, doc, noisy) ==
  <<Marker("begin", tag, "ours"), doc>> \o (IF noisy THEN <<Noise>> ELSE <<>>)
     \o <<Marker("end", tag, "ours")>>
Printed(box) ==
  CASE box.printed = "never" -> <<>>
    [] box.printed = "once"  -> Block(box.tag, box.genuine, box.noisy)
    [] box.printed = "twice" -> Block(box.tag, box.genuine, box.noisy) \o Block(box.tag, box.genuine, box.noisy)
Stdout(box) == box.before \o Printed(box) \o box.after

(* isolation.py: the throwaway copy, with the entry of the results' name   *)
(* removed; then the container over it, and what its exit says. The output *)
(* of a process that ended is decoded before its exit is looked at, and    *)
(* what does not decode raises an error that is not caught here.           *)
FreshWorkspaceCopy(box) == box.copy # "OSError"
RunGradingContainer(box) ==
  CASE box.exit \in {"OSError", "timeout"} -> Raised("unavailable")
    [] box.exit \notin {"OSError", "timeout"} /\ ~box.decodes -> Raised("UnicodeDecodeError")
    [] box.exit = "125" /\ box.decodes -> Raised("unavailable")
    [] box.exit = "0" /\ box.decodes -> Ran(Stdout(box))
    [] OTHER -> Raised("container")
RunContainer(box) == IF FreshWorkspaceCopy(box) THEN RunGradingContainer(box) ELSE Raised("container")

ParseFencedStdout(run) ==
  LET x == ExtractFence(run.value, FencePair("holdout", "ours"))
  IN  CASE run.how = "raised" -> run
        [] run.how = "ran" /\ x.status = "absent" -> Raised("container")
        [] run.how = "ran" /\ x.status = "ambiguous" -> Ran(Malformed)
        [] OTHER -> Ran(IF IsJson(x.body) THEN x.body[1] ELSE Malformed)
RunPluginsInContainer(run) ==
  LET x == ExtractFence(run.value, FencePair("plugin", "ours"))
  IN  CASE run.how = "raised" -> run
        [] run.how = "ran" /\ x.status # "ok" -> Raised("container")
        [] OTHER -> IF IsJson(x.body) /\ x.body[1].list /\ ~Contains(x.body[1].items, "bad")
                    THEN Ran(x.body[1].items) ELSE Raised("container")

(***************************************************************************)
(* holdouts.py: what a holdouts directory declares ("absent", "opaque"     *)
(* without a kind, "invalid", or a kind), how its execution ends ("bytes": *)
(* with output that is no UTF-8), and whether the file of a pytest holdout *)
(* lies there. A file of the same name in the workspace is never the one   *)
(* that is run.                                                            *)
(***************************************************************************)
LoadDeclaredHoldout(dir) ==
  CASE dir.file \in {"absent", "opaque"} -> Ran(Null)
    [] dir.file = "invalid" -> Raised("ValidationError")
    [] OTHER -> Ran(dir)
GradeArgv(exit) ==
  CASE exit = "OSError" -> Raised("OSError")
    [] exit = "bytes"   -> Raised("UnicodeDecodeError")
    [] OTHER -> Ran(Doc(TRUE, <<IF exit = "0" THEN "pass" ELSE "fail">>))
ExecuteAssertion(dir) == GradeArgv(dir.exit)
ExecutePytest(dir)    == GradeArgv(IF dir.test THEN dir.exit ELSE "4")   \* pytest finds no file
ExecuteCommand(dir)   == GradeArgv(IF dir.binary THEN dir.exit ELSE "OSError")

(***************************************************************************)
(* runners.py: the three runners, two of which grade the workspace itself. *)
(* Of `local-exec`, what loading and execution raise is no                 *)
(* GradingContainerError, but for the missing declaration; and `local`     *)
(* catches only what is wrong with the JSON of the results, not a file     *)
(* that cannot be read or decoded.                                         *)
(***************************************************************************)
Unreadable(error) == [kind |-> "unreadable", error |-> error]
DockerRun(t) == ParseFencedStdout(RunContainer(t.box))
LocalRun(t)  ==
  IF t.results = Null THEN Raised("results_missing")
  ELSE IF t.results.kind = "unreadable" THEN Raised(t.results.error) ELSE Ran(t.results)
LocalExecRun(t) ==
  LET loaded == LoadDeclaredHoldout(t.dir)
  IN  IF loaded.how = "raised" THEN loaded
      ELSE IF loaded.value = Null THEN Raised("container")
      ELSE CASE t.dir.file = "assertion" -> ExecuteAssertion(t.dir)
             [] t.dir.file = "pytest"    -> ExecutePytest(t.dir)
             [] t.dir.file = "command"   -> ExecuteCommand(t.dir)
RunHoldouts(t) ==
  CASE t.grader = "docker"     -> DockerRun(t)
    [] t.grader = "local"      -> LocalRun(t)
    [] t.grader = "local-exec" -> LocalExecRun(t)

(***************************************************************************)
(* groundwork_shell.py: the two binaries, each "found", "missing", or      *)
(* "mispinned" by a variable that names no file; the trusted assets below  *)
(* the holdouts root, never the workspace; the graph of the workspace on   *)
(* the policy's own substrate; the review; the versions, which may fail.   *)
(***************************************************************************)
ResolveBinary(bin) == bin = "found"
HoldoutsRoot(g)    == IF g.mount THEN "mount" ELSE IF g.declared THEN "declared" ELSE Null
ResolveAssets(g)   == HoldoutsRoot(g) # Null /\ g.assets = "committed"
PolicySubstrate(g) == g.substrate     \* Null: no readable JSON object with a string
RegenerateBranchGraph(g, algo) ==
  IF ~ResolveBinary(g.flowmap.bin) \/ g.flowmap.exit = "OSError" THEN Raised("unavailable_tool")
  ELSE IF g.flowmap.exit # "0" THEN Raised("shell") ELSE Ran(algo)
RunReview(g, algo) ==
  IF ~ResolveBinary(g.groundwork.bin) \/ g.groundwork.exit = "OSError" THEN Raised("unavailable_tool")
  ELSE IF g.groundwork.exit \notin {"0", "1"} \/ ~g.json THEN Raised("shell")
  ELSE Ran([verdict |-> g.review[algo], violations |-> g.violations, cautions |-> g.cautions])
CaptureVersion(probe) == IF probe = "0" THEN "version" ELSE Null
CaptureToolchain(g)   == IF CaptureVersion(g.versions[1]) = Null \/ CaptureVersion(g.versions[2]) = Null
                         THEN <<Null, Null>> ELSE <<"version", "version">>
ReviewArtifact(g) ==
  IF ~ResolveAssets(g) \/ PolicySubstrate(g) = Null THEN Raised("unavailable_tool")
  ELSE LET graph == RegenerateBranchGraph(g, PolicySubstrate(g))
           review == RunReview(g, PolicySubstrate(g))
       IN  IF graph.how = "raised" THEN graph
           ELSE IF review.how = "raised" THEN review
           ELSE Ran([artifact |-> review.value, toolchain |-> CaptureToolchain(g)])

(* plugins/groundwork.py: the review as assertions.                        *)
VerdictMap(v) ==
  CASE v \in {"BLOCK", "fail"} -> "fail"
    [] v \in {"STRUCTURALLY-CLEAR", "pass"} -> "pass"
    [] OTHER -> "abstain"
MapReview(a) ==
  <<VerdictMap(a.verdict)>> \o [i \in 1..a.violations |-> "fail"]
                            \o [i \in 1..a.cautions |-> "abstain"]
GroundworkGrade(g) ==
  LET r == ReviewArtifact(g) IN IF r.how = "raised" THEN r ELSE Ran(MapReview(r.value.artifact))
(* In the container a plugin that raises is an exit 1.                     *)
RunPlugins(t) ==
  CASE t.plugin = Null -> Ran(<<>>)
    [] t.plugin # Null /\ t.grader = "docker" -> RunPluginsInContainer(RunContainer(t.plugbox))
    [] OTHER -> IF t.plugin = "unregistered" THEN Raised("plugin") ELSE GroundworkGrade(t.ground)

(***************************************************************************)
(* deterministic.py: parse, score, and the one event. Three errors of the  *)
(* holdouts are caught by nobody and end the pass, as does one of hashing  *)
(* the workspace, t.hash: a file that cannot be read, or a name that       *)
(* cannot be encoded. Of the plugins every error is caught.                *)
(***************************************************************************)
ParseHoldoutOutput(doc) == doc.list /\ ~Contains(doc.items, "bad")
BinaryScore(holdout) == holdout # <<>> /\ \A i \in DOMAIN holdout : holdout[i] = "pass"
Count(items, r) == Cardinality({i \in DOMAIN items : items[i] = r})
FractionalScore(all) ==
  [passed |-> Count(all, "pass"), scored |-> Count(all, "pass") + Count(all, "fail")]

CantGrade(why) == [event |-> "cant_grade", reason |-> why]
Ends(error)    == [event |-> "none", reason |-> error]
Escaping       == {"ValidationError", "UnicodeDecodeError", "OSError"}
TRANSIENT_CANT_GRADE == {"grader_unavailable"}
Reason(error) ==
  CASE error = "unavailable" -> "grader_unavailable"
    [] error = "results_missing" -> "holdout_results_missing"
    [] error = "container" -> "container_failure"
GradeTrial(t) ==
  LET run == RunHoldouts(t)
      extra == RunPlugins(t)
  IN  IF ~t.workspace THEN CantGrade("workspace_missing")
      ELSE IF run.how = "raised"
           THEN IF run.error \in Escaping THEN Ends(run.error) ELSE CantGrade(Reason(run.error))
      ELSE IF ~ParseHoldoutOutput(run.value) THEN CantGrade("malformed_holdout_output")
      ELSE IF extra.how = "raised"
           THEN CantGrade(IF extra.error = "unavailable" THEN "grader_unavailable"
                          ELSE "plugin_error")
      ELSE IF t.hash # "ok" THEN Ends(t.hash)
      ELSE [event |-> "grade", reason |-> Null, grader |-> t.grader,
            holdout |-> run.value.items, plugins |-> extra.value,
            binary |-> BinaryScore(run.value.items),
            fractional |-> FractionalScore(run.value.items \o extra.value)]

(* baseline.py: k runs; an outage ends it with nothing ledgered, and so    *)
(* does an OSError. What does not validate or decode is a ValueError, and  *)
(* counts as a run that failed.                                            *)
FlakeBaseline(runs) ==
  LET Bad(r)  == r.how = "raised" \/ ~ParseHoldoutOutput(r.value) \/ ~BinaryScore(r.value.items)
      Aborts(r) == r.how = "raised" /\ r.error \in {"unavailable", "OSError"}
  IN  IF runs = <<>> THEN "ValueError"
      ELSE IF \E i \in DOMAIN runs : Aborts(runs[i]) THEN "inconclusive"
      ELSE IF \E i \in DOMAIN runs : Bad(runs[i]) THEN "quarantined" ELSE "clean"
LoadQuarantine(events) ==
  LET latest(v) == events[Max({i \in DOMAIN events : events[i].version = v})]
  IN  {v \in {events[i].version : i \in DOMAIN events} : latest(v).verdict = "quarantined"}

-----------------------------------------------------------------------------
(* Inputs. The block is printed once, not at all (the agent's code closed  *)
(* the descriptor) or twice, and perhaps with the agent's noise in it; the *)
(* agent's code prints blocks of its own around it, with a guessed nonce.  *)
(* A container that does not run to its end, whose code fails or prints    *)
(* what is no UTF-8, is of the second kind.                                *)
Forged(tag, nonce, doc) == <<Marker("begin", tag, nonce), doc, Marker("end", tag, nonce)>>
AgentOutputs ==
  {<<>>, <<Noise>>, Forged("holdout", "guess", Doc(TRUE, <<"pass">>)),
   Forged("plugin", "guess", Doc(TRUE, <<"pass">>)), <<Marker("end", "holdout", "guess")>>}
Docs == {Malformed} \cup {Doc(TRUE, s) : s \in
           {<<>>, <<"pass">>, <<"fail">>, <<"pass", "abstain">>, <<"pass", "fail">>, <<"bad">>}}
Boxes(tag) ==
  [tag : {tag}, copy : {"ok"}, exit : {"0"}, decodes : {TRUE}, before : AgentOutputs, printed : {"never", "once", "twice"},
   noisy : BOOLEAN, after : AgentOutputs, genuine : Docs]
  \cup [tag : {tag}, copy : {"ok", "OSError"}, exit : {"OSError", "timeout", "125", "1", "0"}, decodes : BOOLEAN,
        before : {<<>>}, printed : {"once"}, noisy : {FALSE}, after : {<<>>}, genuine : Docs]
PassDoc == Doc(TRUE, <<"pass">>)
Works == [bin |-> "found", exit |-> "0"]
Tools == [bin : {"found", "mispinned"}, exit : {"0", "1", "2", "OSError"}]
Verdicts == {"BLOCK", "STRUCTURALLY-CLEAR", "NO-STRUCTURAL-SIGNAL", "novel"}
Reviews == [vta |-> "STRUCTURALLY-CLEAR", rta |-> "BLOCK"]
GroundsTools ==
  [mount : {TRUE}, declared : {TRUE}, assets : {"committed"}, substrate : {"vta"}, decoy : {"rta"},
   flowmap : Tools, groundwork : Tools, json : BOOLEAN,
   review : {Reviews}, violations : {0}, cautions : {0}, versions : {<<"0", "timeout">>}]
GroundsAssets ==
  [mount : BOOLEAN, declared : BOOLEAN, assets : {"committed", "workspace_only"}, substrate : {"vta", "rta", Null},
   decoy : {"vta", "rta", Null}, flowmap : {Works}, groundwork : {Works}, json : {TRUE},
   review : {Reviews}, violations : {0}, cautions : {0}, versions : {<<"0", "timeout">>}]
GroundsReviews ==
  [mount : {TRUE}, declared : {TRUE}, assets : {"committed"}, substrate : {"vta"}, decoy : {"rta"},
   flowmap : {Works}, groundwork : {Works}, json : {TRUE}, review : [vta : Verdicts, rta : Verdicts],
   violations : 0..1, cautions : 0..1, versions : {"0", "1"} \X {"0", "1"}]
Dirs == [file : {"absent", "opaque", "invalid", "assertion", "pytest", "command"}, exit : {"0", "1", "timeout", "bytes"},
         test : BOOLEAN, binary : BOOLEAN]

(* Each tier with everything that may vary in it.                          *)
Hashes == {"ok", "OSError", "UnicodeEncodeError"}
Attempts(grader, boxes, results, dirs, plugins, grounds, plugboxes) ==
  [workspace : BOOLEAN, hash : Hashes, grader : {grader}, box : boxes, results : results, dir : dirs,
   plugin : plugins, ground : grounds, plugbox : plugboxes]
Unread == {Unreadable(e) : e \in {"UnicodeDecodeError", "OSError"}}
CleanBoxes(tag) == {b \in Boxes(tag) : b.copy = "ok" /\ b.exit = "0" /\ b.decodes /\ b.before = <<>> /\ b.after = <<>> /\ b.printed = "once"
                                       /\ ~b.noisy /\ b.genuine = PassDoc}
GradeCases ==
  LET plain == {d \in Dirs : d.file = "absent" /\ d.exit = "0" /\ d.test /\ d.binary}
      grounds == GroundsTools \cup GroundsAssets \cup GroundsReviews
  IN  Attempts("docker", Boxes("holdout"), {Null}, plain, {Null}, {Null}, {Null})
      \cup Attempts("docker", CleanBoxes("holdout"), {Null}, plain, {"groundwork"}, {Null}, Boxes("plugin"))
      \cup Attempts("local", {Null}, Docs \cup {Null} \cup Unread, plain, {Null}, {Null}, {Null})
      \cup Attempts("local-exec", {Null}, {Null}, Dirs, {Null}, {Null}, {Null})
      \cup Attempts("local", {Null}, {PassDoc, Doc(TRUE, <<>>)}, plain, {"unregistered", "groundwork"}, grounds, {Null})
HoldoutRuns ==
  {Ran(d) : d \in Docs}
  \cup {Raised(e) : e \in Escaping \cup {"container", "results_missing", "unavailable"}}
BaselineCases == UNION {[1..k -> HoldoutRuns] : k \in 0..3}
QuarantineCases ==
  UNION {[1..n -> [version : {"v1", "v2"}, verdict : {"clean", "quarantined"}]] : n \in 0..3}

-----------------------------------------------------------------------------
(***************************************************************************)
(* fence.py, F-H1: whatever the agent's code prints beside, around or into *)
(* the grader's block, and however often that block appears, a docker      *)
(* grade is of what the grader itself found; a pass has at least one       *)
(* holdout behind it and no failure or abstention; a verdict that          *)
(* groundwork did not reach is never a pass of the plugin; and there is no *)
(* grade without the commitment to the workspace (F-H3).                   *)
(***************************************************************************)
GradeIsGenuine(t) ==
  LET g == GradeTrial(t) IN
  g.event = "grade" =>
    /\ t.workspace /\ t.hash = "ok"
    /\ g.grader = "docker" => g.holdout = t.box.genuine.items
    /\ g.grader = "docker" /\ t.plugin # Null => g.plugins = t.plugbox.genuine.items
    /\ g.binary => /\ Count(g.holdout, "pass") >= 1
                   /\ Count(g.holdout, "fail") + Count(g.holdout, "abstain") = 0
    /\ g.grader # "docker" /\ g.plugins # <<>> =>
         /\ t.ground.assets = "committed" /\ t.ground.substrate # Null
         /\ t.ground.flowmap = [bin |-> "found", exit |-> "0"]
         /\ Contains(g.plugins, "pass") <=> t.ground.review[t.ground.substrate] = "STRUCTURALLY-CLEAR"
         /\ Contains(g.plugins, "fail") <=> t.ground.review[t.ground.substrate] = "BLOCK" \/ t.ground.violations > 0
    /\ g.grader = "local-exec" /\ t.dir.file = "pytest" /\ g.binary => t.dir.test

(***************************************************************************)
(* deterministic.py, GR-11: a trial may be graded again exactly when some  *)
(* container of it could not be run. Every other attempt ends in one event *)
(* (but those that end the pass instead: holdouts whose output, results or *)
(* command the code cannot read or find, and a workspace that would be     *)
(* graded, and cannot be hashed).                                          *)
(***************************************************************************)
Unrun(b)     == b.copy = "ok" /\ (b.exit \in {"OSError", "timeout"} \/ (b.exit = "125" /\ b.decodes))
Undecoded(b) == b.copy = "ok" /\ b.exit \notin {"OSError", "timeout"} /\ ~b.decodes
Executes(d)  == d.file = "assertion" \/ (d.file = "pytest" /\ d.test) \/ (d.file = "command" /\ d.binary)
HoldoutsEscape(t) ==
  \/ t.grader = "docker" /\ Undecoded(t.box)
  \/ t.grader = "local" /\ t.results # Null /\ t.results.kind = "unreadable"
  \/ t.grader = "local-exec" /\ \/ t.dir.file = "invalid"
                                \/ t.dir.file = "command" /\ ~t.dir.binary
                                \/ Executes(t.dir) /\ t.dir.exit = "bytes"
RetryIffNotRun(t) ==
  LET g == GradeTrial(t)
      containers == {t.box} \cup (IF t.plugin = Null THEN {} ELSE {t.plugbox})
  IN  /\ g.event = "none" <=>
           /\ t.workspace
           /\ \/ HoldoutsEscape(t)
              \/ t.hash # "ok" /\ GradeTrial([t EXCEPT !.hash = "ok"]).event = "grade"
      /\ g.reason \in TRANSIENT_CANT_GRADE <=>
           t.grader = "docker" /\ t.workspace /\ \E b \in containers : Unrun(b)

(***************************************************************************)
(* baseline.py, GR-8, GR-10: clean needs k runs that all passed, neither   *)
(* an outage nor a missing command decides anything, and a version is      *)
(* quarantined by its own last baseline.                                   *)
(***************************************************************************)
BaselineSound(runs) ==
  LET v == FlakeBaseline(runs) IN
  /\ v = "clean" => /\ Len(runs) >= 1
                    /\ \A i \in DOMAIN runs : runs[i].how = "ran" /\ "pass" \in ToSet(runs[i].value.items)
                                              /\ ToSet(runs[i].value.items) = {"pass"}
  /\ v = "quarantined" => \A i \in DOMAIN runs : runs[i] \notin {Raised("unavailable"), Raised("OSError")}
QuarantineSound(events) ==
  \A i \in DOMAIN events :
    (\A j \in (i + 1)..Len(events) : events[j].version # events[i].version) =>
      (events[i].version \in LoadQuarantine(events) <=> events[i].verdict = "quarantined")

GradeFenceCases ==
  [kind : {"trial"}, trial : GradeCases] \cup [kind : {"baseline"}, runs : BaselineCases]
  \cup [kind : {"quarantine"}, events : QuarantineCases]
GradeFenceSound(c) ==
  CASE c.kind = "trial"      -> GradeIsGenuine(c.trial) /\ RetryIffNotRun(c.trial)
    [] c.kind = "baseline"   -> BaselineSound(c.runs)
    [] c.kind = "quarantine" -> QuarantineSound(c.events)
=============================================================================
