------------------------------ MODULE Official ------------------------------
(***************************************************************************)
(* The official fence: src/harness/analyze/api.py run_analyze and          *)
(* run_selfcheck_cli on one ledger, while other commands append to it.     *)
(*                                                                         *)
(* Neither command holds a lock. An analysis reads the data, computes,     *)
(* reads the ledger head, validates once for each of its two renderings    *)
(* (analyze/findings/fence.py validate_for_render: the head, then every    *)
(* fence check, each with a read of its own), ledgers the outcome and, if  *)
(* that is a render, writes three files. A selfcheck reads the data,       *)
(* simulates, and ledgers its verdict.                                     *)
(*                                                                         *)
(* The data is the sequence of data-bearing events, named by its length:   *)
(* the ledger only grows. The ledger holds an experiment_locked event      *)
(* before anything that is modelled here.                                  *)
(***************************************************************************)
EXTENDS Naturals, Sequences, SequencesExt, FiniteSets

CONSTANTS Analysts,     \* processes running `bench analyze`
          Corpus,       \* the corpus the locked spec registered
          Rubric,       \* the rubric hash the lock committed
          Correction,   \* the multi-arm correction the locked spec implies
          Manifests,    \* what --corpus may name: records, or NoManifest
          NoManifest,
          Recorded,     \* the ledger when the model begins
          Appendable,   \* events other commands may append
          Passes,       \* data on which the coverage selfcheck passes
          Method,       \* the interval method selected on each data
          MaxLen,       \* bound: the ledger's length when other commands append
          MaxRuns,      \* bound: analyses
          MaxFaults     \* bound: crashes

DataKinds == {"trial", "grade", "cant_grade", "judge_verdict", "forensic_quarantine"}

Positions(l, kinds) == {k \in 1..Len(l) : l[k].kind \in kinds}
LastOf(S) == CHOOSE k \in S : \A j \in S : j <= k
DataOf(l) == Cardinality(Positions(l, DataKinds))

ASSUME OfficialAssumption ==
  /\ {MaxLen, MaxRuns, MaxFaults} \subseteq Nat
  /\ NoManifest \in Manifests
  /\ Passes \subseteq Nat
  /\ \A ev \in Appendable \cup ToSet(Recorded) :
       /\ ev.kind \in DataKinds \cup {"calibration_run", "contamination_probe"}
       /\ ev.kind = "contamination_probe" => ev.found \subseteq {"asymmetry", "alarm"}
  /\ Recorded \in Seq(ToSet(Recorded))

VARIABLES
  ledger,     \* the events the fence reads, in order
  checking,   \* the data a running selfcheck read: {}, or a singleton
  pc,         \* where each analysis is
  mode,       \* official or exploratory
  manifest,   \* what --corpus named
  data,       \* the data each analysis computed its findings from
  head,       \* provenance.ledger_head_hash, as the length it is the head of
  rendering,  \* 1 the findings, 2 the dossier
  check,      \* the validation to do next: 0 the head, then FENCE_CHECKS
  files,      \* what each artifact on disk was rendered from
  runs, faults

vars == <<ledger, checking, pc, mode, manifest, data, head, rendering, check,
          files, runs, faults>>

Modes == {"official", "exploratory"}
FileNames == {<<"findings.json", "any">>} \cup ({"findings", "dossier"} \X Modes)
Findings(m, h, d) == [mode |-> m, head |-> h, data |-> d]
NoFile == Findings("none", 0, 0)

Init ==
  /\ ledger = Recorded
  /\ checking = {}
  /\ pc = [a \in Analysts |-> "idle"]
  /\ mode = [a \in Analysts |-> "exploratory"]
  /\ manifest = [a \in Analysts |-> NoManifest]
  /\ data = [a \in Analysts |-> 0]
  /\ head = [a \in Analysts |-> 0]
  /\ rendering = [a \in Analysts |-> 1]
  /\ check = [a \in Analysts |-> 0]
  /\ files = [f \in FileNames |-> NoFile]
  /\ runs = 0 /\ faults = 0

-----------------------------------------------------------------------------
(* The fence checks, of a ledger l as one check reads it.                  *)

Latest(l, kind) == l[LastOf(Positions(l, {kind}))]
Has(l, kind) == Positions(l, {kind}) # {}

TasksRun(l) == {l[k].task : k \in Positions(l, {"trial"})}

CalibrationsOf(l) == {k \in Positions(l, {"calibration_run"}) : l[k].corpus = Corpus}
CalibrationOf(l) ==
  IF CalibrationsOf(l) = {} THEN "none" ELSE l[LastOf(CalibrationsOf(l))].status

(* selfcheck_status: latest wins, and must post-date the last data event.  *)
SelfcheckStatus(l) ==
  IF ~Has(l, "selfcheck") THEN "missing"
  ELSE IF ~Latest(l, "selfcheck").passed THEN "failed"
  ELSE IF \A j \in Positions(l, DataKinds) : j < LastOf(Positions(l, {"selfcheck"}))
       THEN "current" ELSE "stale"

(* latest_probe: a later probe supersedes, whatever it found.              *)
ProbeFound(l, what) ==
  Has(l, "contamination_probe") /\ what \in Latest(l, "contamination_probe").found

FENCE_CHECKS == <<"corpus_identity", "corpus_coverage", "calibration", "rubric",
                  "selfcheck", "contamination", "insulation", "correction">>

(* evaluate(ctx), for the manifest m and the method that is deployed, {}   *)
(* for an observer, who has computed no findings.                          *)
Evaluate(c, l, m, deployed) ==
  CASE c = "corpus_identity" -> m # NoManifest /\ m.corpus = Corpus
    [] c = "corpus_coverage" -> m # NoManifest /\ TasksRun(l) \subseteq m.admits
    [] c = "calibration" -> CalibrationOf(l) = "full-run-validated"
    [] c = "rubric" -> \A k \in Positions(l, {"judge_verdict"}) : l[k].rubric = Rubric
    [] c = "selfcheck" -> SelfcheckStatus(l) = "current" /\ deployed \subseteq {Latest(l, "selfcheck").method}
    [] c = "contamination" -> ~ProbeFound(l, "asymmetry")
    [] c = "insulation" -> ~ProbeFound(l, "alarm")
    [] c = "correction" ->
         \A k \in Positions(l, {"findings_rendered"}) :
            l[k].mode = "official" => l[k].correction = Correction

(* official_fence_report: every requirement with its own state, of the     *)
(* ledger l, without findings. A chain that does not verify says nothing   *)
(* else; without a spec that can be read what is said of the corpus fails  *)
(* and the correction is not checked.                                      *)
State(c, l, m) ==
  IF c \in {"corpus_identity", "corpus_coverage"} /\ m = NoManifest THEN "unchecked"
  ELSE IF Evaluate(c, l, m, {}) THEN "ok" ELSE "failed"
Itemized(specRead) ==
  {"chain", "lock"} \cup (ToSet(FENCE_CHECKS) \ IF specRead THEN {} ELSE {"corpus_coverage", "calibration"})
FenceReport(l, m, chainVerifies, specRead) ==
  IF ~chainVerifies THEN [c \in {"chain"} |-> "failed"]
  ELSE [c \in Itemized(specRead) |->
          CASE c \in {"chain", "lock"} -> "ok"
            [] c = "corpus_identity" /\ ~specRead -> "failed"
            [] c = "correction" /\ ~specRead -> "unchecked"
            [] OTHER -> State(c, l, m)]
OfficialReady(report) == \A c \in DOMAIN report : report[c] = "ok"

-----------------------------------------------------------------------------
(* run_analyze.                                                            *)

Goto(a, where) == pc' = [pc EXCEPT ![a] = where]

(* compute_findings begins with mdef.extract: the data of every result.    *)
Extract(a) ==
  /\ pc[a] = "idle" /\ runs < MaxRuns
  /\ runs' = runs + 1
  /\ mode' \in {[mode EXCEPT ![a] = m] : m \in Modes}
  /\ manifest' \in {[manifest EXCEPT ![a] = m] : m \in Manifests}
  /\ data' = [data EXCEPT ![a] = DataOf(ledger)]
  /\ Goto(a, "extracted")
  /\ UNCHANGED <<ledger, checking, head, rendering, check, files, faults>>

(* ... and reads the head it stamps after the bootstraps.                  *)
ReadHead(a) ==
  /\ pc[a] = "extracted"
  /\ head' = [head EXCEPT ![a] = Len(ledger)]
  /\ rendering' = [rendering EXCEPT ![a] = 1]
  /\ check' = [check EXCEPT ![a] = 0]
  /\ Goto(a, "validating")
  /\ UNCHANGED <<ledger, checking, mode, manifest, data, files, runs, faults>>

(* validate_for_render, one check: a head that moved, or a check that is   *)
(* not ok, raises an AnalyzeError.                                         *)
HeadUnmoved(a) == head[a] = Len(ledger)
Holds(a) ==
  IF check[a] = 0 THEN HeadUnmoved(a)
  ELSE Evaluate(FENCE_CHECKS[check[a]], ledger, manifest[a], {Method[data[a]]})
LastCheck(a) == IF mode[a] = "official" THEN Len(FENCE_CHECKS) ELSE 0

Validate(a) ==
  /\ pc[a] = "validating" /\ Holds(a) /\ check[a] < LastCheck(a)
  /\ check' = [check EXCEPT ![a] = @ + 1]
  /\ UNCHANGED <<ledger, checking, pc, mode, manifest, data, head, rendering, files,
                 runs, faults>>

(* render_findings is done: render_dossier validates all over again.       *)
Renderings_Once == 1
Renderings == 2
Render(a) ==
  /\ pc[a] = "validating" /\ Holds(a) /\ check[a] = LastCheck(a)
  /\ IF rendering[a] < Renderings
     THEN /\ rendering' = [rendering EXCEPT ![a] = @ + 1]
          /\ check' = [check EXCEPT ![a] = 0]
          /\ UNCHANGED pc
     ELSE Goto(a, "rendered") /\ UNCHANGED <<rendering, check>>
  /\ UNCHANGED <<ledger, checking, mode, manifest, data, head, files, runs, faults>>

CantAnalyze(a) ==
  [kind |-> "cant_analyze", mode |-> mode[a],
   reason |-> IF check[a] = 0 THEN "provenance" ELSE FENCE_CHECKS[check[a]]]
RecordCantAnalyze(a) ==
  /\ pc[a] = "validating" /\ ~Holds(a)
  /\ ledger' = Append(ledger, CantAnalyze(a))
  /\ Goto(a, "idle")
  /\ UNCHANGED <<checking, mode, manifest, data, head, rendering, check, files, runs, faults>>

(* The event goes in first; then findings.json, the findings, the dossier. *)
FirstWrite_BeforeTheEvent == "rendered"
FirstWrite == "recorded"
FindingsRendered(a) ==
  [kind |-> "findings_rendered", mode |-> mode[a], head |-> head[a],
   data |-> data[a], correction |-> Correction]
RecordRendered(a) ==
  /\ pc[a] = "rendered"
  /\ ledger' = Append(ledger, FindingsRendered(a))
  /\ Goto(a, "recorded")
  /\ UNCHANGED <<checking, mode, manifest, data, head, rendering, check, files, runs, faults>>

Writes(a) ==
  [from |-> <<FirstWrite, "json", "md">>, to |-> <<"json", "md", "idle">>,
   name |-> << <<"findings.json", "any">>, <<"findings", mode[a]>>, <<"dossier", mode[a]>> >>]
WriteFile(a) ==
  \E k \in 1..3 :
    /\ pc[a] = Writes(a).from[k]
    /\ files' = [files EXCEPT ![Writes(a).name[k]] = Findings(mode[a], head[a], data[a])]
    /\ Goto(a, Writes(a).to[k])
    /\ UNCHANGED <<ledger, checking, mode, manifest, data, head, rendering, check, runs, faults>>

Crash(a) ==
  /\ pc[a] # "idle" /\ faults < MaxFaults
  /\ faults' = faults + 1
  /\ Goto(a, "idle")
  /\ UNCHANGED <<ledger, checking, mode, manifest, data, head, rendering, check, files, runs>>

-----------------------------------------------------------------------------
(* run_selfcheck_cli: the deltas first, the event when the simulation ends.*)
Room == Len(ledger) < MaxLen

BeginSelfcheck ==
  /\ checking = {} /\ Room
  /\ checking' = {DataOf(ledger)}
  /\ UNCHANGED <<ledger, pc, mode, manifest, data, head, rendering, check, files, runs, faults>>

Selfcheck(d) == [kind |-> "selfcheck", passed |-> d \in Passes, method |-> Method[d]]
RecordSelfcheck ==
  \E d \in checking :
    /\ ledger' = Append(ledger, Selfcheck(d))
    /\ checking' = {}
    /\ UNCHANGED <<pc, mode, manifest, data, head, rendering, check, files, runs, faults>>

(* Any other command that appends: run, grade, judge, calibrate, probe,    *)
(* quarantine.                                                             *)
OtherAppend ==
  /\ Room
  /\ \E ev \in Appendable : ledger' = Append(ledger, ev)
  /\ UNCHANGED <<checking, pc, mode, manifest, data, head, rendering, check, files, runs, faults>>

Analyze(a) == \/ Extract(a) \/ ReadHead(a) \/ Validate(a) \/ Render(a)
              \/ RecordCantAnalyze(a) \/ RecordRendered(a) \/ WriteFile(a)
Next ==
  \/ \E a \in Analysts : Analyze(a) \/ Crash(a)
  \/ BeginSelfcheck \/ RecordSelfcheck \/ OtherAppend

Spec == Init /\ [][Next]_vars

-----------------------------------------------------------------------------
Official == {k \in Positions(ledger, {"findings_rendered"}) : ledger[k].mode = "official"}

IsLast(l, kind, j) ==
  l[j].kind = kind /\ \A i \in (j + 1)..Len(l) : l[i].kind # kind
EarnedBy(l, method) ==
  /\ \E j \in 1..Len(l) :
       /\ l[j].kind = "calibration_run" /\ l[j].corpus = Corpus
       /\ l[j].status = "full-run-validated"
       /\ \A i \in (j + 1)..Len(l) : l[i].kind = "calibration_run" => l[i].corpus # Corpus
  /\ \E j \in 1..Len(l) :
       /\ IsLast(l, "selfcheck", j) /\ l[j].passed /\ l[j].method = method
       /\ \A i \in (j + 1)..Len(l) : l[i].kind \notin DataKinds
  /\ \A j \in 1..Len(l) : l[j].kind = "judge_verdict" => l[j].rubric = Rubric
  /\ \A j \in 1..Len(l) : IsLast(l, "contamination_probe", j) => l[j].found = {}

(* EVAL-8 AC-2, D008, D-P7-6, EVAL-10 AC-5, F-M-C3: an official render is  *)
(* earned by the very ledger its event names, although other commands      *)
(* append between any two of the checks. Of that ledger: the registered    *)
(* corpus was validated by a full run and its last calibration says so,    *)
(* the selfcheck passed after the last result and for the method that is   *)
(* shown, every verdict was given under the locked rubric, and the latest  *)
(* probe found nothing. And what renders officially is shown ready: an     *)
(* observer of that ledger, with that corpus, finds every item ok.         *)
OfficialIsEarned ==
  /\ \A k \in Official :
       EarnedBy(SubSeq(ledger, 1, ledger[k].head), Method[ledger[k].data])
  /\ \A a \in Analysts : pc[a] = "rendered" /\ mode[a] = "official" =>
       OfficialReady(FenceReport(SubSeq(ledger, 1, head[a]), manifest[a], TRUE, TRUE))

(* AN-3: "no orphan artifacts". Wherever an analysis dies, each artifact   *)
(* on disk has the event of a render of the same findings in that mode.    *)
NoOrphanArtifacts ==
  \A f \in FileNames : files[f] # NoFile =>
    \E k \in Positions(ledger, {"findings_rendered"}) :
      Findings(ledger[k].mode, ledger[k].head, ledger[k].data) = files[f]
=============================================================================
