---------------------------- MODULE HarborTrial -----------------------------
(***************************************************************************)
(* One trial's container and the files it leaves: engines/harbor.py runs   *)
(* and, on a timeout, kills it; engines/base.py keeps its span batches;    *)
(* seam.py scrubs the workspace and captures the trajectory and the flight *)
(* recorder; grading commits the workspace's hash. The container may write *)
(* as long as it lives, whatever the harness believes. Module Trial has    *)
(* the attempt's costs; this module has its evidence.                      *)
(*                                                                         *)
(* A file is the kinds of secret it holds and whether it parses:           *)
(*   shape   a known key shape       ours    a key this arm was given      *)
(*   theirs  another arm's key       extra   an operator's extra pattern   *)
(***************************************************************************)
EXTENDS Naturals, Sequences

CONSTANTS Absent,        \* no file, no sha
          MaxWrites,     \* bound: writes by the container
          DaemonAnswers  \* docker inspect fails only for a container that is gone

VARIABLES request,   \* what run_trial was asked
          container, \* "none", "running" or "gone"
          files,     \* the workspace
          writes,    \* writes so far
          pc, result, todo, \* the harness: where it is, the outcome, files left to scrub
          input,     \* the scrubbed log the captures are made from
          shas,      \* the shas of the trial's record
          committed  \* the workspace hash on the grade event

vars == <<request, container, files, writes, pc, result, todo, input, shas, committed>>

Secrets    == {"shape", "ours", "theirs", "extra"}
EngineDoor == {"shape", "ours"}           \* _read_span_log: request.provider_keys
SeamDoor   == Secrets                     \* run_trial: every key, every extra pattern

Order     == <<"agent_log", "flight", "spans", "trajectory", "notes", "photo">>
Files     == {Order[i] : i \in DOMAIN Order}
Binary    == {"photo"}                    \* a suffix of _BINARY_SUFFIXES: never scanned
Artifacts == {"agent_log", "flight", "spans", "trajectory"}
Forms     == {"object", "broken", "list"}
File(secrets, form) == [secrets |-> secrets, form |-> form]
Contents == {File(s, f) : s \in {{}} \cup {{x} : x \in Secrets}, f \in Forms}
HarborAssumption ==
  /\ MaxWrites \in Nat /\ DaemonAnswers \in BOOLEAN
  /\ Absent \notin [secrets : SUBSET Secrets, form : Forms]

TaskNames == {"KEY", "NO_PROXY", "HTTPS_PROXY"}  \* what a task's env may declare
Requests ==
  {req \in [platform : {"generic", "otlp"}, otlp : BOOLEAN, proxy : BOOLEAN, reverse : BOOLEAN,
            env : {{}, TaskNames}] : req.reverse => req.proxy}

(***************************************************************************)
(* build_run_command: the --env options in order; docker keeps the last of *)
(* a name. The task's variables come after the proxy's, which they may     *)
(* replace, and after the provider key, which they may not; its NO_PROXY   *)
(* is merged with the hosts that must not go through the proxy: the        *)
(* collector and the reverse listener that a base URL was set for.         *)
(***************************************************************************)
NoProxyExtras(req) ==
  (IF req.otlp THEN {"collector"} ELSE {}) \cup (IF req.reverse THEN {"reverse"} ELSE {})
TaskEnv(req) == {n \in req.env : n # "KEY" /\ (n = "NO_PROXY" => NoProxyExtras(req) = {})}
WithEnv(env, names, value) ==
  [n \in DOMAIN env \cup names |-> IF n \in names THEN value ELSE env[n]]
BuildRunCommand(req) ==
  LET proxied == WithEnv(<<>>, IF req.proxy THEN {"HTTP_PROXY", "HTTPS_PROXY"} ELSE {}, {"trial@proxy"})
      steered == WithEnv(proxied, IF req.reverse THEN {"BASE_URL"} ELSE {}, {"reverse/t/trial"})
      keyed   == WithEnv(steered, {"KEY"}, {"ours"})
      tasked  == WithEnv(keyed, TaskEnv(req), {"task"})
      traced  == WithEnv(tasked, IF req.otlp THEN {"OTEL"} ELSE {}, {"collector"})
      prior   == IF "NO_PROXY" \in req.env THEN {"task"} ELSE {}
  IN  IF NoProxyExtras(req) = {} THEN traced
      ELSE WithEnv(traced, {"NO_PROXY"}, prior \cup NoProxyExtras(req))

Init ==
  /\ request \in Requests
  /\ container = "none" /\ writes = 0
  /\ files = [f \in Files |-> Absent]
  /\ pc = "start" /\ result = "completed" /\ todo = <<>> /\ input = Absent
  /\ shas = [f \in {"spans", "trajectory", "flight"} |-> Absent]
  /\ committed = Absent

Goto(label) == pc' = label
End(how) == Goto(how) /\ todo' = <<>>

-----------------------------------------------------------------------------
(* The agent in its container, which may write any file of the workspace.  *)
ContainerStarts ==
  /\ pc = "running" /\ container = "none"
  /\ container' = "running"
  /\ UNCHANGED <<request, files, writes, pc, result, todo, input, shas, committed>>
ContainerWrites(f, content) ==
  /\ container = "running" /\ writes < MaxWrites
  /\ files' = [files EXCEPT ![f] = content]
  /\ writes' = writes + 1
  /\ UNCHANGED <<request, container, pc, result, todo, input, shas, committed>>

(* The task's files are staged, then the image is pinned or refused.       *)
PrepareWorkspace ==
  /\ pc = "start"
  /\ files' = [files EXCEPT !["notes"] = File({}, "object")]
  /\ todo' = Order /\ Goto("resolve")
  /\ UNCHANGED <<request, container, writes, result, input, shas, committed>>
ResolveImage(pinned) ==
  /\ pc = "resolve"
  /\ \/ pinned /\ Goto("running") /\ UNCHANGED result
     \/ ~pinned /\ Goto("redact") /\ result' = "infra_failed"
  /\ UNCHANGED <<request, container, files, writes, todo, input, shas, committed>>

(* _execute: the metered network or the request's file, which come before  *)
(* the container, may raise. Then the agent ended; docker is not there, or *)
(* exit 125, which an agent may have returned as well; or the time was up. *)
ExecuteRaises ==
  /\ pc = "running" /\ container = "none"
  /\ End("failed")
  /\ UNCHANGED <<request, container, files, writes, result, input, shas, committed>>
DockerRun == {"completed", "daemon_error", "timeout"}
Execute(how) ==
  /\ pc = "running"
  /\ \/ /\ how = "completed" /\ container = "running"
        /\ Goto("read") /\ container' = "gone" /\ UNCHANGED result
     \/ /\ how = "daemon_error"
        /\ Goto("read") /\ container' = "gone" /\ result' = "infra_failed"
     \/ /\ how = "timeout"
        /\ Goto("kill") /\ result' = "timeout" /\ UNCHANGED container
  /\ UNCHANGED <<request, files, writes, todo, input, shas, committed>>

(* _kill: docker kill and docker wait, whose exit codes mean nothing under *)
(* --rm, then docker inspect: the container is dead, alive, or no answer.  *)
Kill(works) ==
  /\ pc = "kill"
  /\ container' = IF works THEN "gone" ELSE container
  /\ Goto("inspect")
  /\ UNCHANGED <<request, files, writes, result, todo, input, shas, committed>>
Probes == IF container # "running" THEN {"nonzero", "not_running", "raises"}
          ELSE {"running", "raises"} \cup (IF DaemonAnswers THEN {} ELSE {"nonzero"})
ConfirmedDead_Always(probe) == TRUE
ConfirmedDead(probe) == probe \in {"nonzero", "not_running"}
Inspect(probe) ==
  /\ pc = "inspect" /\ probe \in Probes
  /\ result' = IF ConfirmedDead(probe) THEN result ELSE "infra_failed"
  /\ Goto("read")
  /\ UNCHANGED <<request, container, files, writes, todo, input, shas, committed>>

-----------------------------------------------------------------------------
(***************************************************************************)
(* persist_versioned_artifact: scrub, re-validate if the scrub hit, write, *)
(* read back. A pattern can swallow the structure around a secret, and the *)
(* file may not be writable, or may end before its data does: the trial    *)
(* fails.                                                                  *)
(***************************************************************************)
Ways == {"fine", "breaks", "unwritable"}
Hits(c, door) == c.secrets \cap door # {}
Scrub(c, door, breaks) ==
  File(c.secrets \ door, IF breaks /\ Hits(c, door) THEN "broken" ELSE c.form)
Persists(c, door, way) == way # "unwritable" /\ (way = "breaks" => ~Hits(c, door))
Persist(f, c, door) ==
  /\ files' = [files EXCEPT ![f] = Scrub(c, door, FALSE)]
  /\ shas' = [shas EXCEPT ![f] = Scrub(c, door, FALSE)]

Truncated(c, door) == File(c.secrets \ door, "broken")
PersistFails(f, c, door, way) ==
  /\ Goto("failed") /\ UNCHANGED shas
  /\ files' = files \/ (way = "unwritable" /\ files' = [files EXCEPT ![f] = Truncated(c, door)])

(***************************************************************************)
(* EngineBase.run after the container: the agent's log must parse (one     *)
(* that is not UTF-8 escapes), the proxy's and the collector's logs must   *)
(* still be there, and the trial's own batches are kept before the         *)
(* workspace is scrubbed. _assemble: each of the three that is missing     *)
(* turns a completed trial, and no other, into an infra failure.           *)
(***************************************************************************)
TelemetryCorrupt == files["agent_log"] # Absent /\ files["agent_log"].form = "broken"
Downgraded(why) == IF why /\ result = "completed" THEN "infra_failed" ELSE result
ReadNativeLogEscapes ==
  /\ pc = "read" /\ TelemetryCorrupt
  /\ End("failed")
  /\ UNCHANGED <<request, container, files, writes, result, input, shas, committed>>
ReadLogs(batches, proxyLog, way) ==
  /\ pc = "read"
  /\ proxyLog = "missing" => request.proxy
  /\ batches = Absent => request.otlp
  /\ result' = Downgraded(TelemetryCorrupt \/ proxyLog = "missing" \/ batches = Absent)
  /\ \/ /\ ~request.otlp \/ batches = Absent
        /\ Goto("redact") /\ UNCHANGED <<files, shas, todo>>
     \/ /\ request.otlp /\ batches # Absent /\ Persists(batches, EngineDoor, way)
        /\ Persist("spans", batches, EngineDoor) /\ Goto("redact") /\ UNCHANGED todo
     \/ /\ request.otlp /\ batches # Absent /\ ~Persists(batches, EngineDoor, way)
        /\ PersistFails("spans", batches, EngineDoor, way) /\ todo' = <<>>
  /\ UNCHANGED <<request, container, writes, input, committed>>

(* redact_artifacts: every regular file that is not of a binary suffix, in *)
(* order; one that cannot be read or rewritten fails the trial.            *)
RedactFile(breaks) ==
  /\ pc = "redact" /\ todo # <<>>
  /\ LET f == Head(todo) IN
     files' = IF files[f] = Absent \/ f \in Binary THEN files
              ELSE [files EXCEPT ![f] = Scrub(files[f], SeamDoor, breaks)]
  /\ todo' = Tail(todo)
  /\ UNCHANGED <<request, container, writes, pc, result, input, shas, committed>>
RedactionError ==
  /\ pc = "redact" /\ todo # <<>>
  /\ LET f == Head(todo) IN
     /\ files[f] # Absent /\ f \notin Binary
     /\ files' = files \/ files' = [files EXCEPT ![f] = Truncated(@, SeamDoor)]
  /\ End("failed")
  /\ UNCHANGED <<request, container, writes, result, input, shas, committed>>

(* run_trial's telemetry, from the log the engine read: a generic log may  *)
(* declare what it may not; an infra failure is not looked at any further. *)
Redacted(declared) ==
  /\ pc = "redact" /\ todo = <<>>
  /\ \/ declared = "fine" /\ Goto("capture")
     \/ /\ declared = "lies" /\ Goto("failed")
        /\ request.platform = "generic" /\ result # "infra_failed" /\ files["agent_log"] # Absent
  /\ UNCHANGED <<request, container, files, writes, result, todo, input, shas, committed>>

-----------------------------------------------------------------------------
(* CapturePipeline.capture: not after an infra failure. The scrubbed input *)
(* is read once; one that does not parse is an honest absence after a      *)
(* timeout only.                                                           *)
CaptureSkips ==
  /\ pc = "capture" /\ result = "infra_failed"
  /\ Goto("infra")
  /\ UNCHANGED <<request, container, files, writes, result, todo, input, shas, committed>>
CaptureInput == IF request.platform = "otlp" THEN "spans" ELSE "agent_log"
CaptureUnreadable == files[CaptureInput] # Absent /\ files[CaptureInput].form # "object"
ReadRedactedLog ==
  /\ pc = "capture" /\ result # "infra_failed"
  /\ \/ ~CaptureUnreadable /\ Goto("trajectory") /\ input' = files[CaptureInput]
     \/ CaptureUnreadable /\ result = "timeout" /\ Goto("recorded") /\ UNCHANGED input
     \/ CaptureUnreadable /\ result # "timeout" /\ Goto("failed") /\ UNCHANGED input
  /\ UNCHANGED <<request, container, files, writes, result, todo, shas, committed>>

(* One artifact: what the adapter finds in the input, if anything, through *)
(* the same door once more.                                                *)
RunStage(f, normalized, way) ==
  /\ pc = f
  /\ normalized # "none" => input # Absent
  /\ LET content == File(input.secrets, "object")
         next == Goto(IF f = "trajectory" THEN "flight" ELSE "recorded")
     IN  \/ normalized = "none" /\ next /\ UNCHANGED <<files, shas>>
         \/ normalized = "lies" /\ Goto("failed") /\ UNCHANGED <<files, shas>>
         \/ /\ normalized = "some" /\ Persists(content, SeamDoor, way)
            /\ Persist(f, content, SeamDoor) /\ next
         \/ /\ normalized = "some" /\ ~Persists(content, SeamDoor, way)
            /\ PersistFails(f, content, SeamDoor, way)
  /\ UNCHANGED <<request, container, writes, result, todo, input, committed>>

(* Grading: the committed hash covers the workspace but not artifacts/.    *)
WorkspaceSha == [f \in Files \ Artifacts |-> files[f]]
Commit ==
  /\ pc = "recorded" /\ committed = Absent
  /\ committed' = WorkspaceSha
  /\ UNCHANGED <<request, container, files, writes, pc, result, todo, input, shas>>

Batches == {Absent} \cup {File(s, "object") : s \in {{}} \cup {{x} : x \in Secrets}}
Next ==
  \/ ContainerStarts \/ \E f \in Files, c \in Contents : ContainerWrites(f, c)
  \/ PrepareWorkspace \/ \E b \in BOOLEAN : ResolveImage(b) \/ Kill(b) \/ RedactFile(b)
  \/ ExecuteRaises \/ \E how \in DockerRun : Execute(how)
  \/ \E probe \in {"nonzero", "not_running", "running", "raises"} : Inspect(probe)
  \/ ReadNativeLogEscapes
  \/ \E b \in Batches, p \in {"kept", "missing"}, way \in Ways : ReadLogs(b, p, way)
  \/ RedactionError \/ \E d \in {"fine", "lies"} : Redacted(d)
  \/ CaptureSkips \/ ReadRedactedLog
  \/ \E f \in {"trajectory", "flight"}, n \in {"none", "some", "lies"}, way \in Ways :
       RunStage(f, n, way)
  \/ Commit
Spec == Init /\ [][Next]_vars

-----------------------------------------------------------------------------
(* resolve_trajectory, resolve_flight_recorder, resolve_spans.             *)
Resolve(f) ==
  CASE shas[f] = Absent -> "absent"
    [] shas[f] # Absent /\ files[f] = Absent -> "missing_artifact"
    [] shas[f] # Absent /\ files[f] # Absent /\ files[f] # shas[f] -> "sha_mismatch"
    [] OTHER -> IF files[f].form = "object" THEN "verified" ELSE "corrupt"
ResolveTrajectory == Resolve("trajectory")
ResolveFlightRecorder == Resolve("flight")
ResolveSpans == Resolve("spans")
ResolveWorkspace ==
  IF committed = Absent THEN "absent"
  ELSE IF committed = WorkspaceSha THEN "verified" ELSE "sha_mismatch"

(***************************************************************************)
(* harbor.py PRA-M7, redact.py AC-8: a trial that is ledgered has no       *)
(* secret in any scanned file of its workspace, nobody is left to write    *)
(* one, and what the ledger committed of it is still what the disk holds.  *)
(* A completed trial with a collector has a span artifact, if an empty one.*)
(* (The spans may have been rewritten by a pattern that only the seam has: *)
(* SpansVerify, below, does not hold.)                                     *)
(***************************************************************************)
EvidenceIsFinal ==
  pc = "recorded" =>
    /\ container # "running"
    /\ result = "completed" /\ request.otlp => shas["spans"] # Absent
    /\ \A f \in Files \ Binary : files[f] = Absent \/ files[f].secrets = {}
    /\ ResolveTrajectory \in {"absent", "verified"}
    /\ ResolveFlightRecorder \in {"absent", "verified"}
    /\ ResolveSpans = "sha_mismatch" => Hits(shas["spans"], SeamDoor \ EngineDoor)
    /\ ResolveWorkspace \in {"absent", "verified"}

(* The environment the container gets: its arm's key whatever the task     *)
(* declares, and no span or metered request through the wrong door.        *)
EnvironmentHolds ==
  container = "running" => LET env == BuildRunCommand(request) IN
  /\ env["KEY"] = {"ours"}
  /\ NoProxyExtras(request) # {} => NoProxyExtras(request) \subseteq env["NO_PROXY"]
  /\ "NO_PROXY" \in request.env => "task" \in env["NO_PROXY"]

(* base.py _read_span_log: "matching the seam's redaction so the second    *)
(* (workspace) scrub is a byte-identical no-op and the ledgered spans_sha  *)
(* still matches the on-disk artifact".                                    *)
SpansVerify == pc = "recorded" => ResolveSpans \in {"absent", "verified"}
=============================================================================
