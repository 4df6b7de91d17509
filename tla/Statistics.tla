----------------------------- MODULE Statistics -----------------------------
(***************************************************************************)
(* The statistics of plan, review, judge and analyze: agreement between    *)
(* judge and human and the gates on it (review/kappa.py, review/           *)
(* calibrate.py, judge/calibrate.py), the power simulation that gates the  *)
(* lock (plan/power.py, plan/lock.py), the bootstrap and the choice of its *)
(* interval (analyze/ci.py, stats.py, nullsim.py), and the effect sizes    *)
(* (analyze/effect.py). Fractions are <<numerator, denominator>> with a    *)
(* denominator above 0; what a seed would draw is part of the input.       *)
(***************************************************************************)
EXTENDS Integers, Sequences, SequencesExt, FiniteSets, FiniteSetsExt, Functions

CONSTANTS Null

Sum(s) == FoldLeft(LAMBDA x, y : x + y, 0, s)
SumOver(S, f(_)) == MapThenSumSet(f, S)
AtMost(p, q) == p[1] * q[2] <= q[1] * p[2]
Below(p, q)  == p[1] * q[2] < q[1] * p[2]
Least(S)    == CHOOSE p \in S : \A q \in S : AtMost(p, q)
Greatest(S) == CHOOSE p \in S : \A q \in S : AtMost(q, p)

(***************************************************************************)
(* review/kappa.py. An item pairs two labels, has a stratum, and stands    *)
(* for 1 or 1/p comparisons; with p = k/n the weights times k are k and n. *)
(***************************************************************************)
Labels(items) == {x.a : x \in ToSet(items)} \cup {x.b : x \in ToSet(items)}
Rank(c, cats) == Cardinality({d \in cats : d < c})
Disagreement(kind, cats, c, d) ==
  LET gap == Rank(c, cats) - Rank(d, cats) IN
  CASE kind = "unweighted" -> IF c = d THEN 0 ELSE 1
    [] kind = "quadratic"  -> gap * gap
    [] kind = "linear"     -> IF gap < 0 THEN -gap ELSE gap
KappaOf(num, den) == IF den = 0 THEN Null ELSE <<den - num, den>>
WeightedKappa(items, weights, kind, cats) ==
  LET Weight(Test(_)) == Sum([i \in DOMAIN items |-> IF Test(items[i]) THEN weights[i] ELSE 0])
      obs == [c, d \in cats |-> Weight(LAMBDA x : x.a = c /\ x.b = d)]
      row == [c \in cats |-> Weight(LAMBDA x : x.a = c /\ x.b \in cats)]
      col == [d \in cats |-> Weight(LAMBDA x : x.b = d /\ x.a \in cats)]
      sums == MapThenFoldSet(LAMBDA x, y : <<x[1] + y[1], x[2] + y[2]>>, <<0, 0>>,
                LAMBDA e : <<Disagreement(kind, cats, e[1], e[2]) * obs[e],
                             Disagreement(kind, cats, e[1], e[2]) * row[e[1]] * col[e[2]]>>,
                LAMBDA S : CHOOSE e \in S : TRUE, cats \X cats)
  IN  KappaOf(sums[1] * Sum(weights), sums[2])
IpwWeights(items, p) == [i \in DOMAIN items |-> IF items[i].stratum = "floor" THEN p[2] ELSE p[1]]
Ones(items) == [i \in DOMAIN items |-> 1]
FloorOnly(items) == SelectSeq(items, LAMBDA x : x.stratum = "floor")
EstimateKappa(items, method, kind, p, cats) ==
  LET used == IF method = "floor_only" THEN FloorOnly(items) ELSE items
  IN  IF used = <<>> THEN "ValueError"
      ELSE WeightedKappa(used, IF method = "ipw" THEN IpwWeights(used, p) ELSE Ones(used), kind,
                         IF cats = Null THEN Labels(used) ELSE cats)
KishEffectiveN(items, p) ==
  IF items = <<>> THEN <<0, 1>>
  ELSE LET w == IpwWeights(items, p)
       IN  <<Sum(w) * Sum(w), Sum([i \in DOMAIN w |-> w[i] * w[i]])>>
(* The draws are index sequences; a resample without a defined kappa is    *)
(* skipped. The quantiles lie between the least and the greatest estimate. *)
Redrawn(items, draw) == [i \in DOMAIN items |-> items[draw[i]]]
Span(n, ks, defined) ==
  IF n < 2 \/ defined = {} \/ Cardinality(defined) < Len(ks) \div 2 THEN Null
  ELSE [low |-> Least({ks[b] : b \in defined}), high |-> Greatest({ks[b] : b \in defined})]
Defined(ks) == {b \in DOMAIN ks : ks[b] # Null}
Estimates(items, p, draws) ==
  [b \in DOMAIN draws |-> EstimateKappa(Redrawn(items, draws[b]), "ipw", "unweighted", p, Null)]
SpanOf(n, ks) == Span(n, ks, Defined(ks))
BootstrapKappaInterval(items, p, draws) == SpanOf(Len(items), Estimates(items, p, draws))
Insufficient(n) == [n |-> n, kappa |-> Null, sufficient |-> FALSE, escalate |-> FALSE, inconclusive |-> FALSE]
PointGate(n, k, threshold, minPairs) ==
  IF n < minPairs \/ k = Null THEN Insufficient(n)
  ELSE [n |-> n, kappa |-> k, sufficient |-> TRUE, escalate |-> Below(k, threshold), inconclusive |-> FALSE]
KeyedKappaGate(items, kind, cats, threshold, minPairs, p) ==
  PointGate(Len(items), EstimateKappa(items, "ipw", kind, p, cats), threshold, minPairs)
KappaReport(items, p) ==
  [headline |-> EstimateKappa(items, "ipw", "unweighted", p, Null),
   sensitivity |-> IF FloorOnly(items) = <<>> THEN Null
                   ELSE EstimateKappa(items, "floor_only", "unweighted", p, Null)]

(* review/sample.py, review/calibrate.py: the floor's realized inclusion   *)
(* probability, and one class's gate on the interval.                      *)
CeilFifth(n) == (n + 4) \div 5
RealizedFloorProb(agreements) == IF agreements = 0 THEN <<1, 1>> ELSE <<CeilFifth(agreements), agreements>>
Escalates(k, ci, threshold) == ci # Null /\ Below(ci.high, threshold)
Inconclusive(ci, threshold) == ci = Null \/ (Below(ci.low, threshold) /\ AtMost(threshold, ci.high))
ClassGate(n, k, ci, enough, threshold) ==
  IF ~enough \/ k = Null THEN Insufficient(n)
  ELSE [n |-> n, kappa |-> k, sufficient |-> TRUE, escalate |-> Escalates(k, ci, threshold),
        inconclusive |-> Inconclusive(ci, threshold)]
KappaByClassIpw(items, p, threshold, minVerdicts, draws) ==
  ClassGate(Len(items), KappaReport(items, p).headline, BootstrapKappaInterval(items, p, draws),
            AtMost(<<minVerdicts, 1>>, KishEffectiveN(items, p)), threshold)

(* judge/calibrate.py: the pooled kappa, and its pairs, joined on the      *)
(* comparison id of a verdict, the last of the judge's for each.           *)
CohensKappa(items) ==
  LET n == Len(items)
      agree == Len(SelectSeq(items, LAMBDA x : x.a = x.b))
      CountA(c) == Len(SelectSeq(items, LAMBDA x : x.a = c))
      CountB(c) == Len(SelectSeq(items, LAMBDA x : x.b = c))
      chance == SumOver(Labels(items), LAMBDA c : CountA(c) * CountB(c))
  IN  IF n * n = chance THEN Null ELSE <<agree * n - chance, n * n - chance>>
PairsFromLedger(events) ==
  LET Judge(cid) == SelectSeq(events, LAMBDA e : e.who = "judge" /\ e.cid = cid)
      kept == SelectSeq(events, LAMBDA e : /\ e.who = "human" /\ e.cid # Null /\ Judge(e.cid) # <<>>
                                           /\ e.winner # "CANT_JUDGE"
                                           /\ Last(Judge(e.cid)).winner # "CANT_JUDGE")
  IN  [i \in DOMAIN kept |-> [cid |-> kept[i].cid, judge |-> Last(Judge(kept[i].cid)).winner, human |-> kept[i].winner]]
ComparisonClosed(events, cid) == \E e \in ToSet(events) : e.who = "human" /\ e.cid = cid

(***************************************************************************)
(* plan/power.py. Probabilities are tenths. A draw is, for each task,      *)
(* whether its difficulty is shared, that difficulty, and one number for   *)
(* each arm and repetition; the resamples are index sequences.             *)
(***************************************************************************)
CalibrationVariance(runs) ==
  LET usable == SelectSeq(runs, LAMBDA r : r.params)
      full   == SelectSeq(usable, LAMBDA r : r.kind = "full")
  IN  IF usable = <<>> THEN Null ELSE IF full # <<>> THEN Last(full) ELSE Last(usable)
Clamp(x) == IF x < 0 THEN 0 ELSE IF x > 10 THEN 10 ELSE x
SimulateClusteredPairs(draw, pa, pb) ==
  [t \in DOMAIN draw |->
     LET one(u, p) == IF (IF draw[t].shared THEN draw[t].task ELSE u) < p THEN 1 ELSE 0
     IN  Sum([r \in DOMAIN draw[t].a |-> one(draw[t].a[r], pa) - one(draw[t].b[r], pb)])]
Resamples(diffs, draws) == [b \in DOMAIN draws |-> Sum([i \in DOMAIN diffs |-> diffs[draws[b][i]]])]
(* np.percentile at 2.5 and 97.5: with k <= 40 values it lies between the  *)
(* two lowest, and the two highest, at (k - 1)/40 of the way; here times 40. *)
Percentiles(means) ==
  LET s == SortSeq(means, <)
      k == Len(s)
  IN  IF k = 1 THEN [low |-> 40 * s[1], high |-> 40 * s[1]]
      ELSE [low |-> 40 * s[1] + (k - 1) * (s[2] - s[1]), high |-> 40 * s[k] - (k - 1) * (s[k] - s[k - 1])]
PairedBootstrapRejects(diffs, draws) ==
  LET ci == Percentiles(Resamples(diffs, draws))
  IN  diffs # <<>> /\ (ci.low > 0 \/ ci.high < 0)
DrawsAt(sims, delta) == sims         \* the same base seed for each delta
Detected(sims, p, delta) ==
  {s \in DOMAIN sims :
     PairedBootstrapRejects(SimulateClusteredPairs(DrawsAt(sims, delta)[s].draw, Clamp(p + delta \div 2), Clamp(p - delta \div 2)),
                            DrawsAt(sims, delta)[s].resamples)}
PowerAt(sims, p, delta) == <<Cardinality(Detected(sims, p, delta)), Len(sims)>>
PowerTarget == <<4, 5>>
MdeCheck(sims, p, deltas) ==
  LET able == {d \in deltas : AtMost(PowerTarget, PowerAt(sims, p, d))}
  IN  IF able = {} THEN Null ELSE CHOOSE d \in able : \A e \in able : d <= e
MdeReport(assumed, effect, clusters) ==
  (IF assumed THEN {"assumption_based_mde"} ELSE {})
    \cup (IF effect = Null THEN {"power_gate_skipped"} ELSE {})
    \cup (IF clusters = Null \/ clusters < 2 THEN {"insufficient_tasks_for_decision"} ELSE {})
Underpowered(mde, effect) == mde = Null \/ effect < mde
RunPowerGate(mde, effect, acknowledged) ==
  CASE effect = Null -> "locks_ungated"
    [] effect # Null /\ ~Underpowered(mde, effect) -> "locks"
    [] OTHER -> IF acknowledged THEN "locks_acknowledged" ELSE "UnderpoweredError"

(***************************************************************************)
(* analyze/ci.py, stats.py: which method produces an interval, and the     *)
(* percentile interval that each falls back to.                            *)
(***************************************************************************)
Spread(s) == Cardinality(ToSet(s)) > 1
Resampled(deltas, draw) == [i \in DOMAIN deltas |-> deltas[draw[i]]]
Percentile(deltas, draws) == "percentile"
ClusterRobustT(deltas, draws) ==
  LET good == {b \in DOMAIN draws : Spread(Resampled(deltas, draws[b]))}
  IN  IF Spread(deltas) /\ Cardinality(good) >= 2 /\ 10 * Cardinality(good) >= Len(draws)
      THEN "cluster_robust_t" ELSE "percentile"
BCa(deltas, draws) ==
  LET means == Resamples(deltas, draws)
      below == Len(SelectSeq(means, LAMBDA m : m < Sum(deltas)))
      ties  == Len(SelectSeq(means, LAMBDA m : m = Sum(deltas)))
  IN  IF 2 * below + ties \in {0, 2 * Len(draws)} \/ Len(deltas) < 3 THEN "percentile" ELSE "bca"
Realized(method, deltas, draws) ==
  CASE method = "percentile"       -> Percentile(deltas, draws)
    [] method = "cluster_robust_t" -> ClusterRobustT(deltas, draws)
    [] method = "bca"              -> BCa(deltas, draws)
PairedBootstrap(deltas, method, draws) ==
  IF deltas = <<>> THEN "ValueError"
  ELSE [requested |-> method, realized |-> Realized(method, deltas, draws),
        ci |-> Percentiles(Resamples(deltas, draws)), mean |-> 40 * Sum(deltas)]
ExcludesZero(result) == result.ci.low > 0 \/ result.ci.high < 0

(* analyze/nullsim.py: the hits of each method over nSim null experiments. *)
Methods == <<"bca", "cluster_robust_t", "percentile">>       \* by name
Distance(hits, nSim) == LET d == 20 * hits - 19 * nSim IN IF d < 0 THEN -d ELSE d
Recentered(deltas) == [i \in DOMAIN deltas |-> Len(deltas) * deltas[i] - Sum(deltas)]
CoverageFromDeltas(deltas, hits, nSim) ==
  IF Len(deltas) < 2 THEN [selected |-> "percentile", model |-> "insufficient_data", coverage |-> <<>>]
  ELSE LET best == CHOOSE i \in DOMAIN hits :
             \A j \in DOMAIN hits : \/ Distance(hits[i], nSim) < Distance(hits[j], nSim)
                                    \/ Distance(hits[i], nSim) = Distance(hits[j], nSim) /\ i <= j
       IN  [selected |-> Methods[best], model |-> "paired", coverage |-> hits]

(* analyze/effect.py: Cliff's delta by the ranks of a in sorted b.         *)
BisectLeft(b, x)  == Cardinality({i \in DOMAIN b : b[i] < x})
BisectRight(b, x) == Cardinality({i \in DOMAIN b : b[i] <= x})
CliffsDelta(a, b) ==
  IF a = <<>> \/ b = <<>> THEN "ValueError"
  ELSE <<Sum([i \in DOMAIN a |-> BisectLeft(b, a[i]) - (Len(b) - BisectRight(b, a[i]))]), Len(a) * Len(b)>>
EffectSizes(a, b) ==
  IF Len(a) # Len(b) \/ a = <<>> THEN "ValueError"
  ELSE [mean |-> <<Sum([i \in DOMAIN a |-> a[i] - b[i]]), Len(a)>>, cliffs |-> CliffsDelta(a, b)]

-----------------------------------------------------------------------------
(* Inputs: up to four reviewed items over two or three labels; designs of  *)
(* two tasks; up to three per-task values.                                 *)
Items(labels, strata) == [a : labels, b : labels, stratum : strata]
SeqsOf(S, lengths) == UNION {[1..n -> S] : n \in lengths}
Both == {"mandatory", "floor"}
Draws(n) == <<[i \in 1..n |-> i], [i \in 1..n |-> 1], [i \in 1..n |-> n + 1 - i], [i \in 1..n |-> IF i = 1 THEN n ELSE 1]>>
KappaCases ==
  [kind : {"kappa"}, items : SeqsOf(Items(1..3, {"mandatory"}), 1..2) \cup SeqsOf(Items(1..2, Both), 1..3), agreements : {6}]
  \cup [kind : {"kappa"}, items : SeqsOf(Items({1, 2}, {"floor"}), {4}), agreements : {0, 5, 11}]
Sim(shared, u, v, w) ==
  [draw |-> <<[shared |-> shared, task |-> u, a |-> <<v, w>>, b |-> <<w, u>>],
              [shared |-> FALSE, task |-> v, a |-> <<u, u>>, b |-> <<v, w>>]>>,
   resamples |-> <<<<1, 1>>, <<1, 2>>, <<2, 2>>>>]
PowerCases ==
  {[kind |-> "power", p |-> p, sims |-> <<s, t>>, effect |-> e] :
     p \in {3, 5}, e \in {Null, 2, 4, 8},
     s \in {Sim(sh, u, v, w) : sh \in BOOLEAN, u, v, w \in {1, 4, 8}},
     t \in {Sim(FALSE, 4, 3, 6), Sim(TRUE, 9, 0, 7), Sim(FALSE, 2, 9, 1)}}
Resample3 == {<<1, 2, 3>>, <<1, 1, 1>>, <<3, 3, 3>>, <<1, 1, 2>>, <<3, 2, 2>>}
IntervalCases ==
  {[kind |-> "interval", deltas |-> d, draws |-> s, method |-> m] :
     d \in [1..3 -> -1..1], s \in [1..3 -> Resample3], m \in ToSet(Methods)}
  \cup {[kind |-> "interval", deltas |-> <<x>>, draws |-> <<<<1>>, <<1>>>>, method |-> m] : x \in -1..1, m \in ToSet(Methods)}
SelectionCases == [kind : {"selection"}, deltas : {<<>>, <<1>>, <<1, 0>>}, hits : [1..3 -> {0, 17, 18, 19, 20}]]
EffectCases == [kind : {"effect"}, a : SeqsOf(0..2, 1..3), b : SeqsOf(0..2, 1..3)]
JoinCases ==
  [kind : {"join"}, events : SeqsOf([who : {"judge", "human"}, cid : {Null, "c1"}, winner : {"A", "CANT_JUDGE"}], 0..3)]
StatisticsCases == KappaCases \cup PowerCases \cup IntervalCases \cup SelectionCases \cup EffectCases \cup JoinCases

-----------------------------------------------------------------------------
(***************************************************************************)
(* review/kappa.py, D003, D-5, F-M-S4: kappa does not depend on who is     *)
(* called the judge, is at most 1 and 1 just on full agreement; the IPW    *)
(* estimate is the kappa of the population in which each floor item        *)
(* occurs as often as it stands for; the two families agree; an effective  *)
(* size is at least 1 and at most the count.                               *)
(***************************************************************************)
Swap(items) == [i \in DOMAIN items |-> [items[i] EXCEPT !.a = items[i].b, !.b = items[i].a]]
Census(items, p) ==
  FlattenSeq([i \in DOMAIN items |-> [j \in 1..(IF items[i].stratum = "floor" THEN p[2] ELSE p[1]) |-> items[i]]])
SameFraction(x, y) == (x = Null /\ y = Null) \/ (x # Null /\ y # Null /\ x[1] * y[2] = y[1] * x[2])
AgreementMeasured(items, p) ==
  LET ipw == EstimateKappa(items, "ipw", "unweighted", p, Null)
      n   == KishEffectiveN(items, p)
  IN  /\ SameFraction(ipw, CohensKappa(Census(items, p)))
      /\ SameFraction(EstimateKappa(items, "raw_pooled", "unweighted", p, Null), CohensKappa(items))
      /\ \A kind \in {"unweighted", "linear", "quadratic"} :
           LET k == EstimateKappa(items, "ipw", kind, p, 1..3)
           IN  /\ SameFraction(k, EstimateKappa(Swap(items), "ipw", kind, p, 1..3))
               /\ k # Null => /\ AtMost(k, <<1, 1>>)
                              /\ k[1] = k[2] <=> \A x \in ToSet(items) : x.a = x.b
      /\ AtMost(<<1, 1>>, n) /\ AtMost(n, <<Len(items), 1>>)

(***************************************************************************)
(* review/calibrate.py: a class is at most one of escalated, inconclusive  *)
(* and in order, only with a defined kappa and data enough, and escalated  *)
(* or in order only when every estimate of the interval says so.           *)
(***************************************************************************)
Confident(g, said, effective, threshold) ==
      /\ g.escalate \/ g.inconclusive => g.sufficient
      /\ ~(g.escalate /\ g.inconclusive)
      /\ g.sufficient => g.kappa # Null /\ AtMost(<<2, 1>>, effective)
      /\ g.escalate => \A k \in said : Below(k, threshold)
      /\ g.sufficient /\ ~g.escalate /\ ~g.inconclusive => \A k \in said : AtMost(threshold, k)
ConfidentPoint(g) == g.escalate => g.sufficient /\ g.kappa # Null /\ g.n >= 2
GateIsConfident(items, p) ==
  LET draws == Draws(Len(items))
  IN  /\ Confident(KappaByClassIpw(items, p, <<3, 5>>, 2, draws),
                   ToSet(Estimates(items, p, draws)) \ {Null}, KishEffectiveN(items, p), <<3, 5>>)
      /\ ConfidentPoint(KeyedKappaGate(items, "unweighted", 1..3, <<3, 5>>, 2, p))

(***************************************************************************)
(* plan/power.py, PL-1: with common random numbers a larger effect never   *)
(* loses a rejection in its own direction, so a lock that passes the gate  *)
(* unacknowledged has the target power at its effect, and the MDE is the   *)
(* least swept effect that reaches it; none reached is never a pass. In    *)
(* the shared regime repetitions add nothing.                              *)
(***************************************************************************)
Deltas == {2, 4, 6, 8}
Upward(c, d) ==
  {s \in DOMAIN c.sims :
     LET sim == DrawsAt(c.sims, d)[s] IN
     Percentiles(Resamples(SimulateClusteredPairs(sim.draw, Clamp(c.p + d \div 2), Clamp(c.p - d \div 2)), sim.resamples)).low > 0}
PowerHonest(c) ==
  LET mde == MdeCheck(c.sims, c.p, Deltas)
      gate == RunPowerGate(mde, c.effect, FALSE)
  IN  /\ \A d, e \in Deltas : d < e => Upward(c, d) \subseteq Upward(c, e)
      /\ gate = "locks" => \E d \in Deltas : d <= c.effect /\ AtMost(PowerTarget, PowerAt(c.sims, c.p, d))
      /\ mde = Null <=> \A d \in Deltas : Below(PowerAt(c.sims, c.p, d), PowerTarget)
      /\ gate = "locks_ungated" <=> "power_gate_skipped" \in MdeReport(FALSE, c.effect, 2)
      /\ \A s \in DOMAIN c.sims, t \in 1..2 :
           c.sims[s].draw[t].shared =>
             SimulateClusteredPairs(c.sims[s].draw, 6, 4)[t] \in {0, 2, -2}

(***************************************************************************)
(* analyze/ci.py, PRA-M14: a constant sample gives the one point and is    *)
(* never studentized; the interval is ordered, within the range of the     *)
(* data, names the method asked for or the fallback, and excludes zero     *)
(* only towards a value that was observed.                                 *)
(***************************************************************************)
IntervalHonest(c) ==
  LET r == PairedBootstrap(c.deltas, c.method, c.draws)
      n == Len(c.deltas)
  IN  /\ r.realized \in {c.method, "percentile"} /\ r.requested = c.method
      /\ ~Spread(c.deltas) => r.realized # "cluster_robust_t" /\ r.ci.low = r.mean /\ r.ci.high = r.mean
      /\ n < 3 => r.realized # "bca"
      /\ r.ci.low <= r.ci.high
      /\ \E i \in 1..n : 40 * n * c.deltas[i] <= r.ci.low
      /\ \E i \in 1..n : r.ci.high <= 40 * n * c.deltas[i]
      /\ ExcludesZero(r) => \E i \in 1..n : (r.ci.low > 0 /\ c.deltas[i] > 0) \/ (r.ci.high < 0 /\ c.deltas[i] < 0)
SelectionHonest(c) ==
  LET s == CoverageFromDeltas(c.deltas, c.hits, 20) IN
  /\ s.model = "insufficient_data" <=> s.coverage = <<>>
  /\ s.coverage # <<>> =>
       \A i, j \in 1..3 : Methods[i] = s.selected => Distance(c.hits[i], 20) <= Distance(c.hits[j], 20)
  /\ Sum(Recentered(c.deltas)) = 0

(***************************************************************************)
(* analyze/effect.py, AC-2: Cliff's delta is P(A > B) - P(A < B) over all  *)
(* pairs of values, lies in [-1, 1], and turns with the arms.              *)
(***************************************************************************)
DominanceIsPairwise(a, b) ==
  LET pairs == (DOMAIN a) \X (DOMAIN b)
      d == CliffsDelta(a, b)
  IN  /\ d[1] = Cardinality({p \in pairs : a[p[1]] > b[p[2]]}) - Cardinality({p \in pairs : a[p[1]] < b[p[2]]})
      /\ d[1] = -CliffsDelta(b, a)[1] /\ -d[2] <= d[1] /\ d[1] <= d[2]

(* judge/calibrate.py, JD-5: verdicts without an id never meet.            *)
JoinedById(events) ==
  LET pairs == PairsFromLedger(events) IN
  \A i \in DOMAIN pairs :
    /\ pairs[i].cid # Null /\ ComparisonClosed(events, pairs[i].cid)
    /\ "CANT_JUDGE" \notin {pairs[i].judge, pairs[i].human}
    /\ \E e \in ToSet(events) : e.who = "judge" /\ e.cid = pairs[i].cid

StatisticsSound(c) ==
  CASE c.kind = "kappa" -> LET p == RealizedFloorProb(c.agreements)
                           IN  AgreementMeasured(c.items, p) /\ GateIsConfident(c.items, p)
    [] c.kind = "power"     -> PowerHonest(c)
    [] c.kind = "interval"  -> IntervalHonest(c)
    [] c.kind = "selection" -> SelectionHonest(c)
    [] c.kind = "effect"    -> DominanceIsPairwise(c.a, c.b)
    [] c.kind = "join"      -> JoinedById(c.events)
=============================================================================
