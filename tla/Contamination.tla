--------------------------- MODULE Contamination ----------------------------
(***************************************************************************)
(* src/harness/contamination: the scan of the trials' solutions, the       *)
(* memory probe of the arms' models, the dating of tasks, and what the     *)
(* summary and the official fence make of them. A text is the sequence of  *)
(* the hashes of its shingles; the sets named ...Cases are the inputs      *)
(* checked.                                                                *)
(***************************************************************************)
EXTENDS Integers, Sequences, SequencesExt, FiniteSets, FiniteSetsExt

CONSTANTS Null,     \* absent, not measured
          Refused,  \* OverlapError or ProbeError: nothing is recorded
          Window    \* _WINDOW, the hashes of a winnowing window

WindowAssumption == Window \in Nat \ {0}

(***************************************************************************)
(* overlap.py. Scores are pairs of the fingerprints found and those of the *)
(* reference; a threshold is a percentage.                                 *)
(***************************************************************************)
Windows(hashes) == {{hashes[i] : i \in s..(s + Window - 1)} : s \in 1..(Len(hashes) - Window + 1)}
Fingerprints(hashes) ==
  IF Len(hashes) <= Window THEN Range(hashes) ELSE {Min(w) : w \in Windows(hashes)}
Fingerprintable(text) == Fingerprints(text) # {}

Containment(ref, solution) ==
  <<Cardinality(Fingerprints(ref) \cap Fingerprints(solution)), Cardinality(Fingerprints(ref))>>
AtLeast(score, percent) == 100 * score[1] >= percent * score[2]

(* solution_overlap: `leaks` is the HoldoutLeakError.                      *)
DefaultOverlapThreshold == 50
Resolved(threshold) == IF threshold = Null THEN DefaultOverlapThreshold ELSE threshold
OverlapRefuses(refs, threshold) ==
  \/ Resolved(threshold) \notin 1..100
  \/ refs.oracle # Null /\ ~Fingerprintable(refs.oracle)
  \/ \E i \in DOMAIN refs.holdouts : ~Fingerprintable(refs.holdouts[i])
SolutionOverlap(solution, refs, threshold) ==
  LET Found(ref) == AtLeast(Containment(ref, solution), Resolved(threshold))
      leaks      == \E i \in DOMAIN refs.holdouts : Found(refs.holdouts[i])
  IN  IF OverlapRefuses(refs, threshold) THEN Refused
      ELSE [flagged |-> leaks \/ (refs.oracle # Null /\ Found(refs.oracle)), leaks |-> leaks]

(***************************************************************************)
(* scan.py: every trial, in the ledger's order. A trial has its solution   *)
(* (Null when there is nothing to read), whether it is quarantined, and    *)
(* whether its grade committed other bytes.                                *)
(***************************************************************************)
Measurable(refs) == refs.oracle # Null \/ refs.holdouts # <<>>
Unscanned(trial) == trial.quarantined \/ trial.mismatch \/ trial.solution = Null
Scanned(trials, refs) == {i \in DOMAIN trials : Measurable(refs) /\ ~Unscanned(trials[i])}
ScanRefuses(trials, refs, threshold) == Scanned(trials, refs) # {} /\ OverlapRefuses(refs, threshold)

ScanTrials(trials, refs, threshold) ==
  LET scanned == Scanned(trials, refs)
      arms    == {trials[i].arm : i \in scanned}
      Overlap(i) == SolutionOverlap(trials[i].solution, refs, threshold)
  IN  IF ScanRefuses(trials, refs, threshold) THEN Refused
      ELSE [overlap_flags |-> [a \in arms |-> \E i \in scanned : trials[i].arm = a /\ Overlap(i).flagged],
            alarms  |-> {i \in scanned : Overlap(i).leaks},
            skipped |-> {i \in DOMAIN trials : Measurable(refs) /\ Unscanned(trials[i])}]

(***************************************************************************)
(* probe.py and channels.py, for one task. A task has a canary (`marked`   *)
(* when it also stands outside its marker), and an oracle that splits in   *)
(* halves that can be compared or not. A model's replies are Null for a    *)
(* provider failure, or the recall of the canary and the scores, in        *)
(* percent, of the oracle's continuation and of the perturbed control.     *)
(***************************************************************************)
CanaryRegurgitationChannel(reply) == IF reply.recalls THEN {"canary_regurgitation"} ELSE {}
OraclePrefixChannel(reply, threshold) ==
  IF reply.true >= threshold /\ reply.true - reply.control >= 20 THEN {"oracle_prefix"} ELSE {}
SolutionOverlapChannel(flagged) == IF flagged THEN {"solution_overlap"} ELSE {}

Preflight(task) ==
  IF task.canary /\ task.marked THEN "canary_in_prompt"
  ELSE IF task.oracle /\ ~task.halves THEN "oracle_unfingerprintable" ELSE Null

Outcome(task, reply, flags, arm, threshold) ==
  LET hits == (IF task.canary THEN CanaryRegurgitationChannel(reply) ELSE {})
              \cup (IF task.oracle THEN OraclePrefixChannel(reply, threshold) ELSE {})
              \cup (IF arm \in DOMAIN flags THEN SolutionOverlapChannel(flags[arm]) ELSE {})
      measured == task.canary \/ task.oracle \/ arm \in DOMAIN flags
  IN  IF hits # {} THEN "flagged" ELSE IF measured THEN "negative" ELSE "unprobed"

Calls(task) == task.canary \/ task.oracle
ProbeRefuses(arms, task, flags) == arms = {} \/ task = Null \/ ~(DOMAIN flags \subseteq arms)
RunMemoryProbe(arms, task, replies, threshold, flags, alarms, skipped) ==
  LET failed == Calls(task) /\ \E a \in arms : replies[a] = Null
      event(status, outcomes) == [status |-> status, overlap_flags |-> flags, alarms |-> alarms,
                                  skipped |-> skipped, outcomes |-> outcomes]
  IN  IF ProbeRefuses(arms, task, flags) THEN Refused
      ELSE IF Preflight(task) # Null \/ failed THEN event("cant_probe", <<>>)
      ELSE event("complete", [a \in arms |-> Outcome(task, replies[a], flags, a, Resolved(threshold))])

(***************************************************************************)
(* api.py contamination_probe, the command: the references are read once,  *)
(* for the scan and for the probe; a declared directory of holdouts that   *)
(* is gone refuses the whole command, as a scan that raises does; what the *)
(* probe itself refuses is handed back, and the scan's notices with it.    *)
(***************************************************************************)
NoReport == [overlap_flags |-> <<>>, alarms |-> {}, skipped |-> {}]
ContaminationProbe(c, arms) ==
  LET refs   == [oracle |-> c.oracle, holdouts |-> IF c.dir = "there" THEN <<c.holdout>> ELSE <<>>]
      report == IF c.scan THEN ScanTrials(c.trials, refs, c.threshold) ELSE NoReport
      probe  == RunMemoryProbe(arms, c.task, c.replies, c.threshold, report.overlap_flags, report.alarms, report.skipped)
  IN  IF ~c.locked \/ c.dir = "gone" \/ (c.scan /\ ScanRefuses(c.trials, refs, c.threshold)) THEN Refused
      ELSE [alarms |-> report.alarms, skipped |-> report.skipped,
            probe_error |-> ProbeRefuses(arms, c.task, report.overlap_flags),
            probe |-> IF ProbeRefuses(arms, c.task, report.overlap_flags) THEN Null ELSE probe]

(***************************************************************************)
(* summary.py and dating.py. A date is a number.                           *)
(***************************************************************************)
FlaggedInProbe(probe, arm) ==
  \/ probe.status = "complete" /\ arm \in DOMAIN probe.outcomes /\ probe.outcomes[arm] = "flagged"
  \/ arm \in DOMAIN probe.overlap_flags /\ probe.overlap_flags[arm]

Asymmetric(arms, Flagged(_)) == (\E a \in arms : Flagged(a)) /\ \E a \in arms : ~Flagged(a)
ProbeAsymmetries(probe) ==
  LET arms == DOMAIN probe.outcomes \cup DOMAIN probe.overlap_flags
  IN  Asymmetric(arms, LAMBDA a : FlaggedInProbe(probe, a))
SummaryAsymmetric(probe, arms) == Asymmetric(arms, LAMBDA a : FlaggedInProbe(probe, a))

EffectiveCutoff(cutoffs) ==
  IF cutoffs = <<>> \/ Null \in Range(cutoffs) THEN Null ELSE Max(Range(cutoffs))
CutoffStatus(created, cutoff, flagged) ==
  IF flagged THEN "flagged"
  ELSE IF created = Null \/ cutoff = Null THEN "unknown"
  ELSE IF created > cutoff THEN "clean_by_date" ELSE "unknown"
SummaryCounts(probe, arm, created, cutoffs) ==
  CutoffStatus(created, EffectiveCutoff(cutoffs), FlaggedInProbe(probe, arm))

(***************************************************************************)
(* The inputs checked.                                                     *)
(***************************************************************************)
ArmNames == {"A", "B"}
Oracle   == <<1, 2, 3>>
Holdout  == <<4, 5, 6>>
RefsSeen == [oracle : {Null, Oracle}, holdouts : {<<>>, <<Holdout>>}]
Solutions == {Null, <<7, 8>>, <<7>> \o Oracle, Holdout \o <<9>>}
TrialsSeen == [arm : ArmNames, solution : Solutions, quarantined : BOOLEAN, mismatch : BOOLEAN]
TasksSeen == [canary : BOOLEAN, marked : BOOLEAN, oracle : BOOLEAN, halves : BOOLEAN]
RepliesSeen == {Null} \cup [recalls : BOOLEAN, true : {40, 90}, control : {20, 80}]
FlagsSeen == UNION {[D -> BOOLEAN] : D \in SUBSET ArmNames}
ShortOracle == <<>>
Copies  == UNION {[1..n -> 1..4] : n \in 1..4}
Padding == {<<>>, <<1>>, <<5, 1>>}

CommandTrials(arm) == [arm : {arm}, solution : {Null, <<7, 8>>, Oracle, Holdout \o <<9>>}, quarantined : BOOLEAN, mismatch : {FALSE}]

ContaminationCases ==
  [kind : {"copy"}, ref : Copies, before : Padding, after : Padding, holdout : BOOLEAN]
  \cup [kind : {"scan"}, first : TrialsSeen, second : {t \in TrialsSeen : ~t.quarantined}, refs : RefsSeen]
  \cup [kind : {"probe"}, task : {t \in TasksSeen : ~t.marked \/ (t.canary /\ t.oracle)}, a : RepliesSeen, b : RepliesSeen,
        flags : FlagsSeen]
  \cup {[kind |-> "command", locked |-> l, dir |-> d, scan |-> s, oracle |-> o, holdout |-> Holdout,
          threshold |-> t, trials |-> <<first, second>>, replies |-> replies,
          task |-> [canary |-> FALSE, marked |-> FALSE, oracle |-> o # Null, halves |-> o = Oracle]] :
         l \in BOOLEAN, d \in {"none", "gone", "there"}, s \in BOOLEAN, o \in {Null, Oracle, ShortOracle},
         t \in {Null, 100}, first \in CommandTrials("A"), second \in CommandTrials("B"),
         replies \in [ArmNames -> {Null, [recalls |-> FALSE, true |-> 90, control |-> 20]}]}
  \cup [kind : {"date"}, created : {Null, 1, 2, 3}, cutoffs : UNION {[1..n -> {Null, 1, 2}] : n \in 0..2},
        flagged : BOOLEAN]

(* A reference longer than a window, copied whole into a larger solution,  *)
(* is found whole, and alarms when it is a holdout. One of a window or     *)
(* less keeps all its hashes where the solution keeps minima: of a copy of *)
(* a whole window only one match is certain, of a shorter one none.        *)
CopyIsFound(c) ==
  LET refs == [oracle |-> IF c.holdout THEN Null ELSE c.ref, holdouts |-> IF c.holdout THEN <<c.ref>> ELSE <<>>]
      seen == SolutionOverlap(c.before \o c.ref \o c.after, refs, 100)
  IN  /\ Len(c.ref) > Window => seen.flagged /\ seen.leaks = c.holdout
      /\ Len(c.ref) = Window => Containment(c.ref, c.before \o c.ref \o c.after)[1] > 0

(* Every trial with something to compare is scanned or declared unscanned; *)
(* one that is not scanned neither clears nor flags its arm, and one leak  *)
(* of several repetitions is enough.                                       *)
ScanHonest(c) ==
  LET trials == <<c.first, c.second>>
      r == ScanTrials(trials, c.refs, Null)
      alone(i) == ScanTrials(<<trials[i]>>, c.refs, Null)
  IN  /\ r.skipped = {i \in {1, 2} : alone(i).skipped # {}}
      /\ DOMAIN r.overlap_flags = {trials[i].arm : i \in {1, 2} \ r.skipped} \/ ~Measurable(c.refs)
      /\ \A a \in DOMAIN r.overlap_flags :
           r.overlap_flags[a] = \E i \in {1, 2} \ r.skipped : trials[i].arm = a /\ alone(i).overlap_flags[a]
      /\ r.alarms \cap r.skipped = {}
      /\ \A i \in {1, 2} : trials[i].quarantined \/ trials[i].mismatch => i \notin r.alarms

(* A probe reports every arm or none of them; what the scan found is on    *)
(* the event whatever the provider did; a formulaic continuation, as good  *)
(* of the control, flags nothing; and when both arms were measured, the    *)
(* fence and the summary agree.                                            *)
ProbeAllOrNothing(c) ==
  LET replies == [a \in ArmNames |-> IF a = "A" THEN c.a ELSE c.b]
      probe == RunMemoryProbe(ArmNames, c.task, replies, Null, c.flags, {}, {})
  IN  /\ probe.overlap_flags = c.flags
      /\ DOMAIN probe.outcomes \in {{}, ArmNames}
      /\ probe.status = "complete" <=> DOMAIN probe.outcomes = ArmNames
      /\ Calls(c.task) /\ (c.a = Null \/ c.b = Null) => probe.status = "cant_probe"
      /\ \A a \in DOMAIN probe.outcomes : probe.outcomes[a] = "flagged" =>
           \/ a \in DOMAIN c.flags /\ c.flags[a]
           \/ c.task.canary /\ replies[a].recalls
           \/ c.task.oracle /\ replies[a].true > replies[a].control
      /\ ArmNames \subseteq DOMAIN probe.outcomes \cup DOMAIN probe.overlap_flags =>
           ProbeAsymmetries(probe) = SummaryAsymmetric(probe, ArmNames)

(* A multi-model arm is clean by date only if the task is younger than the *)
(* cutoff of every model it declares, and never when it was flagged.       *)
DatingConservative(c) ==
  LET status == CutoffStatus(c.created, EffectiveCutoff(c.cutoffs), c.flagged)
  IN  status = "clean_by_date" =>
        ~c.flagged /\ c.cutoffs # <<>> /\ \A i \in DOMAIN c.cutoffs : c.cutoffs[i] # Null /\ c.created > c.cutoffs[i]

(* The command records nothing on an unlocked or a broken experiment. Once *)
(* the scan has run, its alarms and what it could not scan reach both the  *)
(* operator and the event, whatever the providers did, and every trial of  *)
(* a measurable task is among the arms measured or among the unscanned.    *)
CommandDiscloses(c) ==
  LET out  == ContaminationProbe(c, ArmNames)
      refs == [oracle |-> c.oracle, holdouts |-> IF c.dir = "there" THEN <<c.holdout>> ELSE <<>>]
  IN  \/ out = Refused
      \/ /\ c.locked /\ c.dir # "gone" /\ ~out.probe_error
         /\ out.probe.alarms = out.alarms /\ out.probe.skipped = out.skipped
         /\ c.scan /\ Measurable(refs) =>
              \A i \in DOMAIN c.trials :
                \/ i \in out.skipped
                \/ /\ c.trials[i].arm \in DOMAIN out.probe.overlap_flags
                   /\ i \in out.alarms => FlaggedInProbe(out.probe, c.trials[i].arm)
         /\ (\E i \in DOMAIN c.trials : c.task.oracle /\ c.replies[c.trials[i].arm] = Null) => out.probe.outcomes = <<>>

ContaminationSound(c) ==
  CASE c.kind = "copy"  -> CopyIsFound(c)
    [] c.kind = "scan"  -> ScanHonest(c)
    [] c.kind = "probe" -> ProbeAllOrNothing(c)
    [] c.kind = "date"  -> DatingConservative(c)
    [] c.kind = "command" -> CommandDiscloses(c)

(* summary.py: "a provider outage must not erase evidence computed from    *)
(* disk": the asymmetry that the scan alone makes, one arm flagged and the *)
(* other not, stands on an event whose probe failed as on a complete one.  *)
OutageErasesNothing(c) ==
  c.kind = "probe" =>
    LET silent == [recalls |-> FALSE, true |-> 40, control |-> 20]
        Probe(reply) == RunMemoryProbe(ArmNames, c.task, [a \in ArmNames |-> reply], Null, c.flags, {}, {})
    IN  ProbeAsymmetries(Probe(silent)) => ProbeAsymmetries(Probe(Null))
=============================================================================
