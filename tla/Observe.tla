------------------------------ MODULE Observe -------------------------------
(***************************************************************************)
(* What observers are told: status/aggregate.py compute_status over an     *)
(* experiment directory, and the per-trial join of ledger/view.py behind   *)
(* status/trial.py. Beside them, what the stages themselves would do next  *)
(* with the same ledger (run/interleave.py, grade/api.py, judge/           *)
(* assemble.py), each by its own reading of it.                            *)
(*                                                                         *)
(* A pair is a (task, repetition), a cell a pair with an arm. A ledger is  *)
(* the sequence of its events.                                             *)
(***************************************************************************)
EXTENDS Naturals, Sequences, SequencesExt, FiniteSets, FiniteSetsExt, Functions

CONSTANTS Null

OfKind(l, kind) == SelectSeq(l, LAMBDA ev : ev.kind = kind)
EventsOf(l, kind) == ToSet(OfKind(l, kind))
LatestOf(l, kind) == IF OfKind(l, kind) = <<>> THEN Null ELSE Last(OfKind(l, kind))

-----------------------------------------------------------------------------
(* compute_status.                                                         *)

TrialCells(l) == {<<ev.pair, ev.arm>> : ev \in EventsOf(l, "trial")}

(* _cells, of the plan that the spec and the task files define (Null when  *)
(* they define none).                                                      *)
Plan(spec) == IF spec = Null THEN Null ELSE spec.pairs \X ToSet(spec.arms)
CellCounts(spec, l) ==
  [planned |-> IF spec = Null THEN Null ELSE Cardinality(Plan(spec)),
   done    |-> Cardinality(IF spec = Null THEN TrialCells(l) ELSE TrialCells(l) \cap Plan(spec)),
   infra_failures |-> Len(OfKind(l, "trial_infra_failed"))]

ArmsSeen(l) == {ev.arm : ev \in EventsOf(l, "trial") \cup EventsOf(l, "trial_infra_failed")}
PerArm(l) ==
  [arm \in ArmsSeen(l) |->
     LET of(kind) == SelectSeq(OfKind(l, kind), LAMBDA ev : ev.arm = arm)
     IN  [trials |-> Len(of("trial")), infra_failed |-> Len(of("trial_infra_failed")),
          timeout |-> Len(SelectSeq(of("trial"), LAMBDA ev : ev.outcome = "timeout"))]]

TRANSIENT == {"grader_unavailable"}
TrialIds(l) == {ev.id : ev \in EventsOf(l, "trial")}
Graded(l) == {ev.id : ev \in EventsOf(l, "grade")}
TerminalCant(l) == {ev.id : ev \in {ev \in EventsOf(l, "cant_grade") : ev.reason \notin TRANSIENT}}
GradeCounts(l) ==
  [graded  |-> Cardinality(Graded(l)),
   cant_grade_terminal |-> Cardinality(TerminalCant(l) \ Graded(l)),
   pending |-> Cardinality((TrialIds(l) \ Graded(l)) \ TerminalCant(l))]

(* _judge, with the denominator that _stages adds.                         *)
ArmsOf(l, pair) == {ev.arm : ev \in {ev \in EventsOf(l, "trial") : ev.pair = pair}}
JudgeCounts(spec, l) ==
  [verdicts |-> Len(OfKind(l, "judge_verdict")),
   cant_judge |-> Len(SelectSeq(OfKind(l, "judge_verdict"), LAMBDA ev : ev.winner = "CANT_JUDGE")),
   pairs_ready |->
     IF spec = Null THEN 0
     ELSE Cardinality({p \in {c[1] : c \in TrialCells(l)} : {spec.arms[1], spec.arms[2]} \subseteq ArmsOf(l, p)}),
   pairs_expected |-> IF spec = Null THEN Null ELSE CellCounts(spec, l).planned \div Len(spec.arms)]

Stages(spec, l) ==
  [cells |-> CellCounts(spec, l), per_arm |-> PerArm(l), grade |-> GradeCounts(l),
   judge |-> JudgeCounts(spec, l), forensics |-> Len(OfKind(l, "forensics_report")),
   quarantines |-> [k \in DOMAIN OfKind(l, "forensic_quarantine") |-> OfKind(l, "forensic_quarantine")[k].id]]

(* A chain that does not verify is told of, and nothing that it holds.     *)
ComputeStatus(c) ==
  LET empty == c.ledger = <<>>
  IN  [ok |-> empty \/ c.chained, events |-> IF empty \/ c.chained THEN Len(c.ledger) ELSE Null,
       stages |-> IF empty \/ c.chained THEN Stages(c.spec, c.ledger) ELSE Null,
       heartbeat |-> c.heartbeat]

-----------------------------------------------------------------------------
(* LedgerView: its indexes, and trial_story.                               *)

Of(l, kind, id) == SelectSeq(OfKind(l, kind), LAMBDA ev : ev.id = id)
LatestGradeByTrial(l) == [id \in Graded(l) |-> Last(Of(l, "grade", id))]
VerdictsByComparison(l) ==
  [p \in {ev.pair : ev \in EventsOf(l, "judge_verdict")} |->
     Last(SelectSeq(OfKind(l, "judge_verdict"), LAMBDA ev : ev.pair = p))]
QuarantinedTrialIds(l) == {ev.id : ev \in EventsOf(l, "forensic_quarantine")}

(* The digest is the event's, never the one in its record.                 *)
Resolve(sha, disk) ==
  CASE sha = Null  -> "absent"
    [] sha # Null /\ disk = Null -> "missing_artifact"
    [] sha # Null /\ disk # Null -> IF disk = sha THEN "verified" ELSE "sha_mismatch"

StoryEvent(l, id) == Last(Of(l, "trial", id))
TrialStory(l, id, disk) ==
  IF id \notin TrialIds(l) THEN Null
  ELSE LET event  == StoryEvent(l, id)
           report == LatestOf(l, "forensics_report")
       IN  [pair |-> event.pair, trajectory |-> Resolve(event.sha, disk),
            grades |-> Of(l, "grade", id), cant_grades |-> Of(l, "cant_grade", id),
            verdicts |-> SelectSeq(OfKind(l, "judge_verdict"), LAMBDA ev : ev.pair = event.pair),
            flagged |-> report # Null /\ id \in report.flags,
            quarantine |-> IF Of(l, "forensic_quarantine", id) = <<>> THEN Null
                           ELSE Last(Of(l, "forensic_quarantine", id)).reason]
BinaryScore(story) == IF story.grades = <<>> THEN Null ELSE Last(story.grades).score

-----------------------------------------------------------------------------
(* The stages.                                                             *)

(* run_experiment drops the arms that were imported, schedule the cells    *)
(* that have a trial.                                                      *)
ReusedArms(l) == {ev.arm : ev \in EventsOf(l, "control_reused")}
CellsToRun(spec, l) == {c \in Plan(spec) \ TrialCells(l) : c[2] \notin ReusedArms(l)}

(* grade_experiment goes through the trial events.                         *)
CompletedTrials(l) ==
  {l[k].id : k \in {k \in DOMAIN l : \/ l[k].kind = "grade"
                                     \/ l[k].kind = "cant_grade" /\ l[k].reason \notin TRANSIENT}}
TrialsToGrade(l) == {l[k].id : k \in {k \in DOMAIN l : l[k].kind = "trial" /\ l[k].id \notin CompletedTrials(l)}}

(* native_comparisons_from_ledger: per pair the last trial of each arm.    *)
Comparisons(spec, l) ==
  {p \in {ev.pair : ev \in EventsOf(l, "trial")} :
     \A arm \in {spec.arms[1], spec.arms[2]} : \E k \in DOMAIN l : l[k].kind = "trial" /\ l[k].pair = p /\ l[k].arm = arm}

-----------------------------------------------------------------------------
(* serve/compare.py: the compare screen. A pair is shown with the latest   *)
(* trial of each arm, the latest grade of that trial and the latest        *)
(* verdict of the comparison; reasoning only when its bytes are verified.  *)

LastTrial(l, p, arm) == Last(SelectSeq(OfKind(l, "trial"), LAMBDA ev : ev.pair = p /\ ev.arm = arm))
BinaryByTrial(l, id) == IF id \in Graded(l) THEN LatestGradeByTrial(l)[id].score ELSE Null
ArmShown(l, p, arm, disk) ==
  LET id == LastTrial(l, p, arm).id
  IN  [trial |-> id, holdout_pass |-> BinaryByTrial(l, id),
       reasoning |-> Resolve(StoryEvent(l, id).sha, disk) = "verified"]
Winner(l, p) == IF p \in DOMAIN VerdictsByComparison(l) THEN VerdictsByComparison(l)[p].winner ELSE Null

Pairs(c) ==
  [p \in Comparisons(c.spec, c.ledger) |->
     LET a == ArmShown(c.ledger, p, c.spec.arms[1], c.disk)
         b == ArmShown(c.ledger, p, c.spec.arms[2], c.disk)
         differs == Null \notin {a.holdout_pass, b.holdout_pass} /\ a.holdout_pass # b.holdout_pass
     IN  [a |-> a, b |-> b, judge |-> Winner(c.ledger, p),
          disagreement |-> differs \/ Winner(c.ledger, p) \in {"A", "B"}]]
PairedComparisons(c) ==
  LET pairs == Pairs(c)
      Count(Is(_)) == Cardinality({p \in DOMAIN pairs : Is(pairs[p])})
      Holdouts(a, b) == Count(LAMBDA x : x.a.holdout_pass \in a /\ x.b.holdout_pass \in b)
      Judged(w) == Count(LAMBDA x : x.judge = w)
  IN  IF c.spec = Null THEN [error |-> TRUE, pairs |-> <<>>]
      ELSE [error |-> FALSE, pairs |-> pairs, total |-> Cardinality(DOMAIN pairs),
            holdout |-> [a_only |-> Holdouts({1}, {0, Null}), b_only |-> Holdouts({0, Null}, {1}),
                         both |-> Holdouts({1}, {1}), neither |-> Holdouts({0}, {0})],
            judge |-> [w \in {"A", "B", "TIE", "CANT_JUDGE", "unjudged"} |-> Judged(IF w = "unjudged" THEN Null ELSE w)],
            disagreements |-> Count(LAMBDA x : x.disagreement)]

-----------------------------------------------------------------------------
Ended(id, pair, arm, outcome, sha) ==
  [kind |-> "trial", id |-> id, pair |-> pair, arm |-> arm, outcome |-> outcome, sha |-> sha]
Seen ==
  {Ended("x1", "p1", "A", "completed", "s1"), Ended("x1", "p1", "A", "timeout", "s2"),
   Ended("y1", "p1", "B", "completed", Null), Ended("y2", "p2", "B", "completed", "s1"),
   [kind |-> "trial_infra_failed", pair |-> "p1", arm |-> "B"],
   [kind |-> "grade", id |-> "x1", score |-> 0], [kind |-> "grade", id |-> "x1", score |-> 1],
   [kind |-> "grade", id |-> "y1", score |-> 1],
   [kind |-> "cant_grade", id |-> "x1", reason |-> "container_failure"],
   [kind |-> "cant_grade", id |-> "y1", reason |-> "grader_unavailable"],
   [kind |-> "judge_verdict", pair |-> "p1", winner |-> "CANT_JUDGE"],
   [kind |-> "judge_verdict", pair |-> "p1", winner |-> "A"],
   [kind |-> "forensics_report", flags |-> {"x1"}], [kind |-> "forensics_report", flags |-> {}],
   [kind |-> "forensic_quarantine", id |-> "x1", reason |-> "why"],
   [kind |-> "control_reused", arm |-> "A"]}
TwoArms == [pairs |-> {"p1", "p2"}, arms |-> <<"A", "B">>]
(* What the stages append: nothing of a trial comes before the trial.      *)
Lawful(l) ==
  \A k \in DOMAIN l :
    /\ l[k].kind \in {"grade", "cant_grade", "forensic_quarantine"} =>
         \E j \in 1..k : l[j].kind = "trial" /\ l[j].id = l[k].id
    /\ l[k].kind = "judge_verdict" => ArmsOf(SubSeq(l, 1, k), l[k].pair) = {"A", "B"}
Histories(n) == {l \in [1..n -> Seen] : Lawful(l)}
ObserveCases ==
  [ledger : Histories(4), spec : {TwoArms}, chained : {TRUE}, disk : {"s1"}, heartbeat : {"running"}]
  \cup [ledger : UNION {Histories(n) : n \in 0..3},
        spec : {Null, [TwoArms EXCEPT !.arms = <<"A", "B", "C">>], [TwoArms EXCEPT !.pairs = {"p1"}]},
        chained : BOOLEAN, disk : {Null, "s1"}, heartbeat : {Null, "running"}]

(***************************************************************************)
(* aggregate.py: "planned is what `bench run` will actually execute, not a *)
(* re-guess", the pending trials are those outside "`bench grade`'s skip   *)
(* set", pairs_ready is "what judge can compare today". The counts of an   *)
(* observer, each read off the ledger its own way, are the work that each  *)
(* stage would find. (An arm imported as a reused control is planned and   *)
(* never run: the equality is for the ledgers without one.)                *)
(***************************************************************************)
ProgressIsWorkLeft(c) ==
  LET s == Stages(c.spec, c.ledger)
  IN  /\ s.grade.pending = Cardinality(TrialsToGrade(c.ledger))
      /\ c.spec # Null =>
           /\ s.judge.pairs_ready = Cardinality(Comparisons(c.spec, c.ledger))
           /\ ReusedArms(c.ledger) = {} =>
                s.cells.planned - s.cells.done = Cardinality(CellsToRun(c.spec, c.ledger))

(* "A broken hash chain yields ok = false and stages = None"; the          *)
(* heartbeat is shown regardless, and the arms add up to the whole.        *)
TamperIsWithheld(c) ==
  LET s == ComputeStatus(c)
      sum(f) == FoldFunctionOnSet(LAMBDA arm, n : arm[f] + n, 0, s.stages.per_arm, DOMAIN s.stages.per_arm)
  IN  /\ s.heartbeat = c.heartbeat
      /\ s.stages = Null <=> c.ledger # <<>> /\ ~c.chained
      /\ s.stages # Null => /\ sum("trials") = Len(OfKind(c.ledger, "trial"))
                            /\ sum("infra_failed") = s.stages.cells.infra_failures

(* The story of a trial and the indexes of the same view are one reading:  *)
(* the latest grade, the latest verdict and the quarantine agree, bytes    *)
(* are verified against the latest event only, and no event of a trial is  *)
(* left out of its story.                                                  *)
StoryIsTheLedgers(c) ==
  \A id \in {"x1", "y1", "y2"} :
    LET l == c.ledger
        story == TrialStory(l, id, c.disk)
        last  == Max({k \in DOMAIN l : l[k].kind = "trial" /\ l[k].id = id})
    IN  story # Null =>
          /\ id \in DOMAIN LatestGradeByTrial(l) =>
               BinaryScore(story) = LatestGradeByTrial(l)[id].score
          /\ story.pair \in DOMAIN VerdictsByComparison(l) =>
               Last(story.verdicts) = VerdictsByComparison(l)[story.pair]
          /\ story.quarantine # Null <=> id \in QuarantinedTrialIds(l)
          /\ story.trajectory = "verified" <=> c.disk # Null /\ l[last].sha = c.disk
          /\ {k \in DOMAIN l : l[k].kind \in {"grade", "cant_grade"} /\ l[k].id = id} = {} <=>
               story.grades = <<>> /\ story.cant_grades = <<>>

(* compare.py: the judge is "advisory tier, shown as its own line, never   *)
(* blended". The screen compares what the judge could compare, a cell is   *)
(* what the story of its trial tells, every pair is counted under one      *)
(* winner, and no verdict changes a count of the holdouts.                 *)
ComparisonsAgree(c) ==
  LET shown == PairedComparisons(c)
      unjudged == PairedComparisons([c EXCEPT !.ledger = SelectSeq(@, LAMBDA ev : ev.kind # "judge_verdict")])
      of(x) == shown.judge[x]
      sums(h) == h.a_only + h.b_only + h.both + h.neither
  IN  c.spec # Null =>
        /\ shown.total = JudgeCounts(c.spec, c.ledger).pairs_ready
        /\ of("A") + of("B") + of("TIE") + of("CANT_JUDGE") + of("unjudged") = shown.total
        /\ shown.holdout = unjudged.holdout /\ sums(shown.holdout) <= shown.total
        /\ \A p \in DOMAIN shown.pairs : \A x \in {shown.pairs[p].a, shown.pairs[p].b} :
             LET story == TrialStory(c.ledger, x.trial, c.disk)
             IN  /\ story.pair = p /\ x.holdout_pass = BinaryScore(story)
                 /\ x.reasoning <=> story.trajectory = "verified"
                 /\ shown.pairs[p].judge = IF story.verdicts = <<>> THEN Null ELSE Last(story.verdicts).winner

ObserveSound(c) ==
  ProgressIsWorkLeft(c) /\ TamperIsWithheld(c) /\ StoryIsTheLedgers(c) /\ ComparisonsAgree(c)
=============================================================================
