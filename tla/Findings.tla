------------------------------ MODULE Findings ------------------------------
(***************************************************************************)
(* src/harness/analyze/findings/extract.py and analyze/confounds.py: the   *)
(* numbers a comparison rests on, the decision made of them, and what is   *)
(* disclosed beside it. A ledger is a record of its trials (named by their *)
(* position), grades, verdicts and quarantined trials; the sets ...Cases   *)
(* are the ledgers checked.                                                *)
(***************************************************************************)
EXTENDS Integers, Sequences, SequencesExt, FiniteSets, FiniteSetsExt

CONSTANT Null   \* absent, not measured

Total(S, F(_)) == FoldSet(LAMBDA i, acc : F(i) + acc, 0, S)

(***************************************************************************)
(* Quarantine. A comparison is named by its task and repetition.           *)
(***************************************************************************)
Task(L, i)    == L.trials[i].task
Known(L, i)   == i \in DOMAIN L.trials
OrphanGrades(L) == {i \in DOMAIN L.grades : ~Known(L, L.grades[i].trial)}
Comparison(L, i) == <<L.trials[i].task, L.trials[i].rep>>
QuarantinedComparisons(L) == {Comparison(L, i) : i \in {t \in L.quarantined : Known(L, t)}}

(***************************************************************************)
(* Series: the values of a metric for a task and an arm. A mean is scaled  *)
(* by 12, so that those of up to four values are integers.                 *)
(***************************************************************************)
Scale == 12
MeanOf(S, V(_)) == (Scale * Total(S, V)) \div Cardinality(S)

HoldoutEvents(L, task, arm) ==
  {i \in DOMAIN L.grades \ OrphanGrades(L) :
     /\ L.grades[i].trial \notin L.quarantined
     /\ Task(L, L.grades[i].trial) = task /\ L.trials[L.grades[i].trial].arm = arm}
TelemetryTrials(L, task, arm) ==
  {i \in DOMAIN L.trials \ L.quarantined :
     L.trials[i].task = task /\ L.trials[i].arm = arm /\ L.trials[i].cost # Null}

(* METRICS: extract. Null is a metric that has no value per arm, or a task *)
(* the arm has no value for.                                               *)
ArmValue(L, metric, task, arm) ==
  CASE metric = "holdout_pass_rate" /\ HoldoutEvents(L, task, arm) # {} ->
         MeanOf(HoldoutEvents(L, task, arm), LAMBDA i : IF L.grades[i].pass THEN 1 ELSE 0)
    [] metric = "cost_per_task" /\ TelemetryTrials(L, task, arm) # {} ->
         MeanOf(TelemetryTrials(L, task, arm), LAMBDA i : L.trials[i].cost)
    [] OTHER -> Null

(* A verdict decides when its frame is of this pair and it names a winner. *)
Decides(L, v, a, b) ==
  /\ <<v.task, v.rep>> \notin QuarantinedComparisons(L)
  /\ v.map # Null /\ v.winner \in {"A", "B"} /\ v.task # Null
  /\ {v.map["A"], v.map["B"]} = {a, b}
DecidedFor(L, task, a, b) ==
  {i \in DOMAIN L.verdicts : L.verdicts[i].task = task /\ Decides(L, L.verdicts[i], a, b)}
JudgePreferenceRate(L, task, a, b) ==
  IF DecidedFor(L, task, a, b) = {} THEN Null
  ELSE MeanOf(DecidedFor(L, task, a, b), LAMBDA i : IF L.verdicts[i].map[L.verdicts[i].winner] = a THEN 1 ELSE 0)

Tasks == {"t1", "t2"}
Row(L, metric, task, a, b) ==
  IF metric = "judge_preference"
  THEN LET rate == JudgePreferenceRate(L, task, a, b)
       IN  IF rate = Null THEN Null ELSE [a |-> rate, b |-> Scale - rate]
  ELSE LET va == ArmValue(L, metric, task, a)
           vb == ArmValue(L, metric, task, b)
       IN  IF va = Null \/ vb = Null THEN Null ELSE [a |-> va, b |-> vb]
PairedTaskRows(L, metric, a, b) ==
  [t \in {u \in Tasks : Row(L, metric, u, a, b) # Null} |-> Row(L, metric, t, a, b)]
Deltas(rows) == [t \in DOMAIN rows |-> rows[t].a - rows[t].b]

ScoredTasks(L, metric, arm) == {t \in Tasks : ArmValue(L, metric, t, arm) # Null}
AbsoluteScore(L, metric, arm) ==
  LET scored == ScoredTasks(L, metric, arm)
  IN  [n |-> Cardinality(scored),
       score |-> IF scored = {} THEN Null
                 ELSE MeanOf(scored, LAMBDA t : ArmValue(L, metric, t, arm))]

(* _secondary_metrics: exploratory means over the trials of an arm.        *)
SecondaryMean(L, arm) ==
  LET measured == {i \in DOMAIN L.trials \ L.quarantined : L.trials[i].arm = arm /\ L.trials[i].cost # Null}
  IN  IF measured = {} THEN Null ELSE MeanOf(measured, LAMBDA i : L.trials[i].cost)
(* _attribution_metrics: an arm none of whose verified steps names an      *)
(* agent is left out.                                                      *)
AgentSteps(L, arm) ==
  LET seen == {i \in DOMAIN L.trials \ L.quarantined : L.trials[i].arm = arm /\ L.trials[i].verified}
      of(agent) == Total(seen, LAMBDA i : Len(SelectSeq(L.trials[i].agents, LAMBDA x : x = agent)))
  IN  IF \A i \in seen : Range(L.trials[i].agents) \subseteq {Null} THEN Null
      ELSE [named |-> of("sub"), unattributed |-> of(Null)]

(***************************************************************************)
(* The reuse section: the imported control beside the fresh contender of   *)
(* the primary pair, unpaired, and never a decision. Reused trials and     *)
(* grades are of events no native reader sees.                             *)
(***************************************************************************)
PrimaryPairContender(arms, control) ==
  CASE control = arms[1] -> arms[2] [] control = arms[2] -> arms[1] [] OTHER -> Null
ReusedValues(R, metric, task) ==
  IF metric = "holdout_pass_rate"
  THEN {i \in DOMAIN R.grades : R.grades[i].trial \in DOMAIN R.trials /\ R.trials[R.grades[i].trial].task = task}
  ELSE {i \in DOMAIN R.trials : R.trials[i].task = task /\ R.trials[i].cost # Null}
ReusedMean(R, metric, task) ==
  MeanOf(ReusedValues(R, metric, task),
         LAMBDA i : IF metric = "holdout_pass_rate" THEN (IF R.grades[i].pass THEN 1 ELSE 0) ELSE R.trials[i].cost)
ReuseWinrate(R, contender, control) ==
  LET decided == {i \in DOMAIN R.verdicts :
                    /\ R.verdicts[i].winner \in {"A", "B"} /\ R.verdicts[i].map # Null
                    /\ R.verdicts[i].map[R.verdicts[i].winner] \in {contender, control}}
  IN  IF decided = {} THEN Null
      ELSE [decided |-> Cardinality(decided),
            won |-> Cardinality({i \in decided : R.verdicts[i].map[R.verdicts[i].winner] = contender})]
ReuseSection(L, R, arms, metric, control) ==
  LET contender == PrimaryPairContender(arms, control)
      reused == {t \in Tasks : ReusedValues(R, metric, t) # {}}
      fresh  == IF contender = Null THEN {} ELSE ScoredTasks(L, metric, contender)
  IN  [official |-> FALSE, paired |-> FALSE, winrate |-> ReuseWinrate(R, contender, control),
       computed |-> IF metric = "judge_preference" \/ reused = {} \/ fresh = {} THEN Null
                    ELSE [control |-> MeanOf(reused, LAMBDA t : ReusedMean(R, metric, t)),
                          contender |-> MeanOf(fresh, LAMBDA t : ArmValue(L, metric, t, contender))]]

(***************************************************************************)
(* confounds.py. A measured field is null in one arm and always there in   *)
(* another: its metric leaves the official comparison.                     *)
(***************************************************************************)
Of(L, arm)  == {i \in DOMAIN L.trials : L.trials[i].arm = arm}
ArmsOf(L)   == {L.trials[i].arm : i \in DOMAIN L.trials}
EverNull(L, arm) == \E i \in Of(L, arm) : L.trials[i].cost = Null
AsymmetricNulls(L) == \E a, b \in ArmsOf(L) : EverNull(L, a) /\ ~EverNull(L, b)

(* Order: entries of an arm and whether the attempt was an infra failure.  *)
(* Positions are from 0; a mean position compares by cross multiplication. *)
Counted(order) == SelectSeq(order, LAMBDA e : ~e.infra)
PositionsOf(order, arm) == {i \in DOMAIN order : order[i].arm = arm}
InterleaveImbalance(executed) ==
  LET order == Counted(executed)
      arms  == {order[i].arm : i \in DOMAIN order}
      n(a)  == Cardinality(PositionsOf(order, a))
      sum(a) == Total(PositionsOf(order, a), LAMBDA i : i - 1)
  IN  /\ Len(order) >= 2 /\ Cardinality(arms) >= 2
      /\ \E a, b \in arms :
           100 * (sum(a) * n(b) - sum(b) * n(a)) > 34 * (Len(order) - 1) * n(a) * n(b)
ProviderErrorAsymmetry(L, failures) ==
  LET arms == ArmsOf(L) \cup Range(failures)
      count(a) == Len(SelectSeq(failures, LAMBDA x : x = a))
  IN  failures # <<>> /\ \E a, b \in arms : count(a) > 0 /\ (count(b) = 0 \/ count(a) - count(b) >= 2)
VersionDrift(L) ==
  {a \in ArmsOf(L) : Cardinality({L.trials[i].version : i \in Of(L, a)} \ {Null}) > 1}
ReasoningCaptureAsymmetry(L) ==
  LET has == {a \in ArmsOf(L) : \E i \in Of(L, a) : L.trials[i].captured}
  IN  has # {} /\ has # ArmsOf(L)
EgressViolations(L) == {i \in DOMAIN L.trials : L.trials[i].egress}
FlagConfounds(L, executed, failures) ==
  {f \in {"interleave_imbalance", "provider_error_asymmetry", "telemetry_null_asymmetry",
          "egress_violations", "version_drift", "reasoning_capture_asymmetry"} :
     CASE f = "interleave_imbalance"        -> InterleaveImbalance(executed)
       [] f = "provider_error_asymmetry"    -> ProviderErrorAsymmetry(L, failures)
       [] f = "telemetry_null_asymmetry"    -> AsymmetricNulls(L)
       [] f = "egress_violations"           -> EgressViolations(L) # {}
       [] f = "version_drift"               -> VersionDrift(L) # {}
       [] f = "reasoning_capture_asymmetry" -> ReasoningCaptureAsymmetry(L)}

(* _tier_summary, _override_summary, _judge_coverage, _integrity.          *)
Advisory(L) ==
  \/ \E i \in DOMAIN L.trials : L.trials[i].tier # "trusted"
  \/ \E i \in DOMAIN L.grades : L.grades[i].grader \notin {Null, "docker"}
Overridden(L) == {L.grades[i].trial : i \in {j \in DOMAIN L.grades : L.grades[j].override}}
TransientCantJudge == {"timeout", "provider_error", "parse"}
JudgeCoverage(L) ==
  LET cant == {i \in DOMAIN L.verdicts : L.verdicts[i].winner = "CANT_JUDGE"}
  IN  [verdicts |-> Len(L.verdicts), cant |-> Cardinality(cant),
       terminal |-> Cardinality({i \in cant : L.verdicts[i].reason \notin TransientCantJudge})]
Integrity(reviews) ==
  LET recognized == SelectSeq(reviews, LAMBDA r : r.recognized)
      right      == SelectSeq(recognized, LAMBDA r : r.guess # Null /\ r.guess = r.actual)
  IN  [n |-> Len(reviews), recognized |-> Len(recognized), right |-> Len(right)]

(***************************************************************************)
(* compute_findings: the comparisons of the first arm with each other one, *)
(* and the decision of each. `interval` is the side of zero the bootstrap  *)
(* interval lies on, 0 when it spans zero, `p` the bootstrap p-value; both *)
(* come from the series. `rule` is the sign the observed delta must have.  *)
(***************************************************************************)
MIN_DETECTION_CLUSTERS == 2
NoDecision == [detected |-> FALSE, positive |-> FALSE, floor |-> FALSE, holm |-> Null]
Excluded(reason, n) == [stats |-> FALSE, excluded |-> reason, official |-> TRUE, n |-> n, decision |-> NoDecision]
Meets(rule, sign) == sign = rule
Floored(pair) == pair.n < MIN_DETECTION_CLUSTERS
Compare(pair, rule) ==
  IF pair.asymmetric THEN Excluded("asymmetric_nulls", pair.n)
  ELSE IF pair.n = 0 THEN Excluded("no_paired_data", 0)
  ELSE LET detected == pair.interval # 0 /\ ~Floored(pair)
       IN  [stats |-> TRUE, excluded |-> Null, official |-> TRUE, n |-> pair.n,
            decision |-> [detected |-> detected, positive |-> detected /\ Meets(rule, pair.sign),
                          floor |-> Floored(pair), holm |-> Null]]

(* _apply_holm: by p-value and then by label, each at alpha over the ones  *)
(* that remain; the first that holds ends the rejections.                  *)
Computable(pairs) == {k \in DOMAIN pairs : ~pairs[k].asymmetric /\ pairs[k].n > 0}
HolmRank(pairs, k) ==
  Cardinality({j \in Computable(pairs) : pairs[j].p < pairs[k].p \/ (pairs[j].p = pairs[k].p /\ j < k)})
HolmPasses_Bonferroni(pairs, k, alpha) == pairs[k].p <= alpha
HolmPasses(pairs, k, alpha) == pairs[k].p * (Cardinality(Computable(pairs)) - HolmRank(pairs, k)) <= alpha
HolmRejects(pairs, k, alpha) ==
  \A j \in Computable(pairs) : HolmRank(pairs, j) <= HolmRank(pairs, k) => HolmPasses(pairs, j, alpha)
ApplyHolm(pairs, rule, alpha) ==
  [k \in DOMAIN pairs |->
     LET c == Compare(pairs[k], rule)
         detected == HolmRejects(pairs, k, alpha) /\ ~Floored(pairs[k])
     IN  IF k \notin Computable(pairs) THEN c
         ELSE [c EXCEPT !.decision = [detected |-> detected, positive |-> detected /\ Meets(rule, pairs[k].sign),
                                      floor |-> Floored(pairs[k]), holm |-> pairs[k].p]]]
Decide(pairs, rule, correction, alpha) ==
  IF Len(pairs) = 1 THEN <<Compare(pairs[1], rule)>>
  ELSE IF correction = "holm" THEN ApplyHolm(pairs, rule, alpha)
  ELSE [k \in DOMAIN pairs |-> [Compare(pairs[k], rule) EXCEPT !.official = k = 1]]
MultiArm(pairs, correction) == IF Len(pairs) > 1 THEN correction ELSE Null

(* _mde_block: the achieved figure is scaled up by the root of plan over   *)
(* realized; squares here.                                                 *)
AchievedSquared(mde, plan, realized) ==
  IF mde = Null \/ plan = Null \/ realized = Null \/ realized = 0 THEN Null
  ELSE IF realized < plan THEN <<mde * mde * plan, realized>> ELSE Null

-----------------------------------------------------------------------------
(***************************************************************************)
(* The ledgers checked: two tasks, three arms, and a second repetition of  *)
(* one task for two of them; which trials passed, which have no cost, the  *)
(* verdicts and their frames, and what is quarantined (9 is no trial).     *)
(***************************************************************************)
Cells == <<<<"t1", "A", 1>>, <<"t1", "B", 1>>, <<"t1", "C", 1>>, <<"t2", "A", 1>>,
           <<"t2", "B", 1>>, <<"t2", "C", 1>>, <<"t1", "A", 2>>, <<"t1", "B", 2>>>>
Trials(free) ==
  [i \in DOMAIN Cells |->
    [task |-> Cells[i][1], arm |-> Cells[i][2], rep |-> Cells[i][3], cost |-> IF i \in free THEN Null ELSE i,
     tier |-> "trusted", captured |-> i # 3, version |-> IF i = 7 THEN 2 ELSE 1, egress |-> i = 5,
     verified |-> i # 4, agents |-> IF i = 1 THEN <<"sub", Null>> ELSE <<Null>>]]
Grades(passes) ==
  [i \in DOMAIN Cells |-> [trial |-> i, pass |-> i \in passes, grader |-> "docker", override |-> i = 2]]
Frame(swapped) == [s \in {"A", "B"} |-> IF (s = "A") # swapped THEN "A" ELSE "B"]
Verdict(task, rep, map, winner) ==
  [task |-> task, rep |-> rep, map |-> map, winner |-> winner, reason |-> IF winner = "CANT_JUDGE" THEN "timeout" ELSE Null]
Verdicts(w, swapped) ==
  <<Verdict("t1", 1, Frame(swapped), w[1]), Verdict("t1", 2, Frame(FALSE), w[2]), Verdict("t2", 1, Frame(FALSE), w[3])>>
Ledgers ==
  {[trials |-> Trials(f), grades |-> Grades(p), verdicts |-> Verdicts(w, s), quarantined |-> q] :
     f \in {{}, {1}, {2, 4}, {1, 7}}, p \in {{1, 3, 5}, {1, 2, 4, 7}}, s \in BOOLEAN,
     w \in {"A", "B", "TIE"} \X {"A", "CANT_JUDGE"} \X {"B"},
     q \in {{}, {1}, {2}, {3}, {7}, {4, 5}, {9}}}
Extras ==
  {[what |-> "verdict", value |-> Verdict("t2", 1, m, w)] :
     m \in {Frame(FALSE)}, w \in {"TIE", "CANT_JUDGE"}}
  \cup {[what |-> "verdict", value |-> Verdict("t2", 1, m, "A")] :
          m \in {Null, [s \in {"A", "B"} |-> IF s = "A" THEN "A" ELSE "C"]}}
  \cup {[what |-> "grade", value |-> [trial |-> 9, pass |-> TRUE, grader |-> "docker", override |-> FALSE]]}
  \cup {[what |-> "trial", value |-> [Trials({1})[1] EXCEPT !.rep = 3]]}
Reused ==
  {[trials |-> [x \in {1, 2} |-> [task |-> Cells[3 * x - 2][1], cost |-> c]],
    grades |-> <<[trial |-> g, pass |-> TRUE]>>,
    verdicts |-> <<Verdict("t1", 1, Frame(s), w), Verdict("t2", 1, Null, "A"), Verdict("t2", 1, Frame(s), "TIE")>>] :
      c \in {Null, 4}, g \in {1, 3}, s \in BOOLEAN, w \in {"A", "B"}}
PairCases ==
  [n : 0..2, asymmetric : BOOLEAN, interval : {0}, sign : {1}, p : {1, 3, 6}]
  \cup [n : 1..2, asymmetric : {FALSE}, interval : {1, -1}, sign : {1, -1}, p : {1, 2, 4, 6}]
Orders ==
  UNION {[1..n -> [arm : {"A", "B"}, infra : BOOLEAN]] : n \in 0..5}

FindingsCases ==
  {[kind |-> "ledger", ledger |-> L] : L \in Ledgers}
  \cup {[kind |-> "extra", ledger |-> L, extra |-> x] :
          L \in {M \in Ledgers : M.quarantined \in {{}, {4, 5}} /\ M.grades[2].pass}, x \in Extras}
  \cup {[kind |-> "reuse", ledger |-> L, reused |-> R, control |-> c] :
          L \in {M \in Ledgers : M.quarantined = {1} /\ M.verdicts[1].winner = "A"}, R \in Reused, c \in {"A", "B", "C"}}
  \cup {[kind |-> "pairs", pairs |-> ps, rule |-> r] : ps \in UNION {[1..n -> PairCases] : n \in 1..2}, r \in {1, -1}}
  \cup {[kind |-> "order", order |-> o] : o \in Orders}

(***************************************************************************)
(* What must hold of each.                                                 *)
(***************************************************************************)
Metrics   == {"holdout_pass_rate", "cost_per_task", "judge_preference"}
ArmNames  == <<"A", "B", "C">>
Pairs     == {p \in Range(ArmNames) \X Range(ArmNames) : p[1] # p[2]}
Everything(L, pairs, metrics) ==
  [rows |-> [m \in metrics, p \in pairs |-> PairedTaskRows(L, m, p[1], p[2])],
   scores |-> [m \in metrics, a \in Range(ArmNames) |-> AbsoluteScore(L, m, a)],
   secondary |-> [a \in Range(ArmNames) |-> SecondaryMean(L, a)],
   agents |-> [a \in Range(ArmNames) |-> AgentSteps(L, a)]]

(* D007: a quarantined trial's data leaves every aggregate: they are those *)
(* of a ledger in which it has no measurement, no grade and no verdict of  *)
(* a pair it took part in. (The verdict of a pair it took no part in, the  *)
(* first two arms when the trial is of the third, leaves as well.)         *)
Purged(L) ==
  [trials |-> [i \in DOMAIN L.trials |->
                 IF i \in L.quarantined THEN [L.trials[i] EXCEPT !.cost = Null, !.verified = FALSE] ELSE L.trials[i]],
   grades |-> SelectSeq(L.grades, LAMBDA g : g.trial \notin L.quarantined),
   verdicts |-> SelectSeq(L.verdicts, LAMBDA v :
                  ~\E i \in L.quarantined \cap DOMAIN L.trials :
                     Comparison(L, i) = <<v.task, v.rep>> /\ L.trials[i].arm \in Range(v.map)),
   quarantined |-> {}]
QuarantineLeavesNothing(L) ==
  LET third   == \E i \in L.quarantined \cap DOMAIN L.trials : L.trials[i].arm = "C"
      metrics == IF third THEN Metrics \ {"judge_preference"} ELSE Metrics
  IN  Everything(L, Pairs, metrics) = Everything(Purged(L), Pairs, metrics)

(* AN-1: the frame of a verdict is read: turning it round changes nothing, *)
(* and a comparison read from its other side has the opposite deltas.      *)
Turned(v) ==
  [v EXCEPT !.map = IF v.map = Null THEN Null ELSE [s \in {"A", "B"} |-> v.map[IF s = "A" THEN "B" ELSE "A"]],
            !.winner = IF v.winner = "A" THEN "B" ELSE IF v.winner = "B" THEN "A" ELSE v.winner]
FrameIsRead(L) ==
  LET turned == [L EXCEPT !.verdicts = [i \in DOMAIN L.verdicts |-> IF i = 1 THEN Turned(L.verdicts[i]) ELSE L.verdicts[i]]]
  IN  \A m \in Metrics, p \in Pairs :
        LET rows == PairedTaskRows(L, m, p[1], p[2])
            back == Deltas(PairedTaskRows(L, m, p[2], p[1]))
        IN  /\ PairedTaskRows(turned, m, p[1], p[2]) = rows
            /\ \A t \in DOMAIN rows : back[t] = -Deltas(rows)[t]

(* Nothing is imputed: what is no answer for the pair (a tie, a verdict of *)
(* no frame or another pair, a grade of no trial, a trial nobody measured) *)
(* leaves every row and mean as it was.                                    *)
With(L, x) ==
  CASE x.what = "verdict" -> [L EXCEPT !.verdicts = Append(@, x.value)]
    [] x.what = "grade"   -> [L EXCEPT !.grades = Append(@, x.value)]
    [] x.what = "trial"   -> [L EXCEPT !.trials = Append(@, x.value)]
NothingImputed(L, x) ==
  LET agents(M) == [Everything(M, {<<"A", "B">>}, Metrics) EXCEPT !.agents = {}]
  IN  /\ agents(With(L, x)) = agents(L)
      /\ x.what = "grade" => OrphanGrades(With(L, x)) \ OrphanGrades(L) = {Len(L.grades) + 1}

(* The reused control is compared with the fresh arm of its pair and no    *)
(* other; the two win rates are of the same verdicts, and add up to one.   *)
ReuseIsOfItsPair(L, R, control) ==
  LET section(m) == ReuseSection(L, R, ArmNames, m, control)
      contender  == PrimaryPairContender(ArmNames, control)
      mine == ReuseWinrate(R, contender, control)
      back == ReuseWinrate(R, control, contender)
  IN  /\ control = "C" => \A m \in Metrics : section(m).computed = Null
      /\ control # "C" => mine # Null /\ mine.decided = 1 /\ mine.won + back.won = mine.decided
      /\ \A m \in Metrics : section(m).computed # Null =>
           section(m).computed.contender = AbsoluteScore(L, m, contender).score

(* F-H7, PRA-M4: a positive decision has two clusters, an effect and data  *)
(* that is not excluded; without a correction only the first pair decides; *)
(* Holm rejects no pair the uncorrected test would not, keeps every        *)
(* rejection when another pair leaves the family, and when a p-value of    *)
(* its own falls.                                                          *)
Alpha == 6
Reject(ds) == {k \in DOMAIN ds : ds[k].decision.detected}
DecisionsEarned(ps, rule) ==
  LET none == Decide(ps, rule, "none", Alpha)
      holm == Decide(ps, rule, "holm", Alpha)
      less(k) == [ps EXCEPT ![k].p = 1]
      without(k) == [ps EXCEPT ![k].n = 0]
  IN  /\ \A ds \in {none, holm} : \A k \in DOMAIN ds :
           /\ ds[k].decision.positive => ds[k].decision.detected /\ ps[k].sign = rule
           /\ ds[k].decision.detected => ps[k].n >= 2 /\ ds[k].excluded = Null
      /\ {k \in DOMAIN none : none[k].official} = {1}
      /\ Len(ps) = 2 =>
           /\ Reject(holm) \subseteq {k \in DOMAIN ps : ps[k].p <= Alpha}
           /\ \A k \in DOMAIN ps : \A j \in Reject(holm) \ {k} : j \in Reject(Decide(without(k), rule, "holm", Alpha))
           /\ \A k \in Reject(holm) : k \in Reject(Decide(less(k), rule, "holm", Alpha))
           /\ Cardinality(Reject(holm)) = 1 /\ Computable(ps) = {1, 2} =>
                2 * Min({ps[1].p, ps[2].p}) <= Alpha

(* A confound of position is of the executed trials: the same backwards,   *)
(* whatever failed between them, and never of one arm alone.               *)
OrderFairlyRead(o) ==
  /\ InterleaveImbalance(o) = InterleaveImbalance(Reverse(o))
  /\ InterleaveImbalance(o) = InterleaveImbalance(Counted(o))
  /\ InterleaveImbalance(o) => {e.arm : e \in Range(Counted(o))} = {"A", "B"}
  /\ Counted(o) \in [1..4 -> [arm : {"A", "B"}, infra : BOOLEAN]] =>
       LET arms == [i \in 1..4 |-> Counted(o)[i].arm]
       IN  /\ arms \in {<<"A", "B", "B", "A">>, <<"A", "B", "A", "B">>} => ~InterleaveImbalance(o)
           /\ arms = <<"A", "A", "B", "B">> => InterleaveImbalance(o)

FindingsSound(c) ==
  CASE c.kind = "ledger" -> QuarantineLeavesNothing(c.ledger) /\ FrameIsRead(c.ledger)
    [] c.kind = "extra"  -> NothingImputed(c.ledger, c.extra)
    [] c.kind = "reuse"  -> ReuseIsOfItsPair(c.ledger, c.reused, c.control)
    [] c.kind = "pairs"  -> DecisionsEarned(c.pairs, c.rule)
    [] c.kind = "order"  -> OrderFairlyRead(c.order)
=============================================================================
