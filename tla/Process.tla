------------------------------ MODULE Process -------------------------------
(***************************************************************************)
(* src/harness/process: scores of how a trial was worked, by the judge and *)
(* by a human, and their agreement. Operators of the replies of several    *)
(* `bench process score` sessions; ...Cases are the inputs checked.        *)
(***************************************************************************)
EXTENDS Integers, Sequences, SequencesExt, FiniteSets, FiniteSetsExt, Folds

CONSTANTS Null,      \* no score, no value
          Refused,   \* ValueError or ProcessSequencingError
          Sentinel   \* the reply "CANT_SCORE" for a dimension

Blind == INSTANCE Blind

(***************************************************************************)
(* rubric.py and score.py. A reply gives each dimension an integer, the    *)
(* sentinel, or Null for anything else. A score is [score, cant].          *)
(***************************************************************************)
Scale == 1..5
Dims  == {"d1", "d2"}

ScoreIs(n) == [score |-> n, cant |-> Null]
CantIs(r)  == [score |-> Null, cant |-> r]
Transient  == Blind!ProviderTransientReasons

ParseJudgeScores(reply) ==
  [d \in Dims |-> IF reply[d] = Sentinel THEN CantIs("judge_declared")
                  ELSE IF reply[d] = Null THEN CantIs("parse")
                  ELSE IF reply[d] \notin Scale THEN CantIs("out_of_range") ELSE ScoreIs(reply[d])]
AllCant(reason) == [d \in Dims |-> CantIs(reason)]

(* score_trial_process: one event whatever happens.                        *)
ScoreTrial(call) ==
  LET result == Blind!ScoredCompletion(
        [empty |-> call.empty, rejected |-> IF call.secret THEN "redaction_leak" ELSE Null, over |-> call.over,
         model |-> "known", answer |-> call.answer,
         parsed |-> IF call.reply = Null THEN Null ELSE ParseJudgeScores(call.reply)], "missing_transcript")
  IN  IF result.cant # Null THEN AllCant(result.cant) ELSE result.value

(* human_scores_from_mapping, then _assert_scores_cover_rubric and the     *)
(* reveal gate: a mapping of dimension ids, Refused when one is missing,   *)
(* unknown or no integer of the scale.                                     *)
HumanScores(raw) ==
  IF DOMAIN raw # Dims \/ \E d \in DOMAIN raw : raw[d] # Sentinel /\ raw[d] \notin Scale THEN Refused
  ELSE [d \in Dims |-> IF raw[d] = Sentinel THEN CantIs("human_cant") ELSE ScoreIs(raw[d])]
RecordHuman(events, trial, comparison, raw, revealed) ==
  IF HumanScores(raw) = Refused \/ comparison \notin revealed THEN events
  ELSE Append(events, [kind |-> "human", trial |-> trial, comparison |-> comparison, scores |-> HumanScores(raw)])

(***************************************************************************)
(* api.process_score. A session reads the events once, passes over every   *)
(* trial that has a score which is not transient through and through, and  *)
(* scores the others in their order; it may end after any of them.         *)
(***************************************************************************)
FullyTransient(scores) == \A d \in DOMAIN scores : scores[d].score = Null /\ scores[d].cant \in Transient
Already(events) == {e.trial : e \in {x \in Range(events) : ~FullyTransient(x.scores)}}

Session(trials, events, session) ==
  LET already == Already(events)
      Todo(t) == t \notin already
      todo == SelectSeq(trials, Todo)
      done == SubSeq(todo, 1, IF session.ends < Len(todo) THEN session.ends ELSE Len(todo))
  IN  events \o [i \in DOMAIN done |->
        [kind |-> "judge", trial |-> done[i], comparison |-> done[i], scores |-> ScoreTrial(session.calls[done[i]])]]
Sessions(trials, sessions) ==
  FoldLeft(LAMBDA events, s : Session(trials, events, s), <<>>, sessions)

(***************************************************************************)
(* calibrate.dimension_diagnostics: the last score of either kind of each  *)
(* trial, paired where the comparison its last score names was selected    *)
(* for review, and left out where either side has none.                    *)
(***************************************************************************)
OfTrial(events, kind, trial) == {i \in DOMAIN events : events[i].kind = kind /\ events[i].trial = trial}
LastScore(events, kind, trial) ==
  IF OfTrial(events, kind, trial) = {} THEN Null ELSE events[Max(OfTrial(events, kind, trial))].scores
NamedComparison(events, trial) ==
  events[Max(OfTrial(events, "judge", trial) \cup OfTrial(events, "human", trial))].comparison
PairedTrials(events, excluded, selected) ==
  {t \in {e.trial : e \in Range(events)} \ excluded :
     /\ LastScore(events, "judge", t) # Null /\ LastScore(events, "human", t) # Null
     /\ NamedComparison(events, t) \in selected}
KappaItems(events, excluded, selected, d) ==
  {[trial |-> t, a |-> LastScore(events, "judge", t)[d].score, b |-> LastScore(events, "human", t)[d].score] :
     t \in {p \in PairedTrials(events, excluded, selected) :
              LastScore(events, "judge", p)[d].score # Null /\ LastScore(events, "human", p)[d].score # Null}}

(* _ranks: average ranks, doubled. _spearman: the signs of covariance and  *)
(* variances, which decide whether it is undefined and its direction.      *)
Ranks2(xs) ==
  [i \in DOMAIN xs |-> 2 * Cardinality({j \in DOMAIN xs : xs[j] < xs[i]})
                       + Cardinality({j \in DOMAIN xs : xs[j] = xs[i]}) + 1]
Sum(S, F(_)) == FoldSet(LAMBDA i, acc : F(i) + acc, 0, S)
Covariance(x, y) ==      \* of the doubled ranks, times the length
  LET n == Len(x) rx == Ranks2(x) ry == Ranks2(y)
      total(r) == Sum(DOMAIN r, LAMBDA i : r[i])
  IN  n * Sum(DOMAIN x, LAMBDA i : rx[i] * ry[i]) - total(rx) * total(ry)
SpearmanDefined(x, y) == Len(x) >= 2 /\ Covariance(x, x) # 0 /\ Covariance(y, y) # 0

(* A correlate is measured on every row or not at all; a dimension is      *)
(* style_only when it has a measured correlate and each is below 0.2.      *)
Correlation(scores, values) ==
  IF Null \in Range(values) \/ ~SpearmanDefined(scores, values) THEN Null
  ELSE [cov |-> Covariance(scores, values), vx |-> Covariance(scores, scores), vy |-> Covariance(values, values)]
Weak(c) == 25 * c.cov * c.cov < c.vx * c.vy
StyleOnly(correlations) ==
  LET measured == {c \in correlations : c # Null} IN measured # {} /\ \A c \in measured : Weak(c)

(***************************************************************************)
(* The inputs checked: up to three sessions over two trials, of which the  *)
(* last may end early; a human's scores; and rows of scores and telemetry. *)
(***************************************************************************)
Reply(a, b) == [d \in Dims |-> IF d = "d1" THEN a ELSE b]
Call(answer, reply) == [empty |-> FALSE, secret |-> FALSE, over |-> FALSE, answer |-> answer, reply |-> reply]
Calls == {Call("text", Reply(a, b)) : a \in {3, 9, Null, Sentinel}, b \in {5, Null}}
         \cup {Call(f, Null) : f \in {"text", "timeout", "refusal", "overflow"}}
         \cup {[Call("text", Reply(4, 4)) EXCEPT !.empty = e, !.secret = s, !.over = ~e /\ ~s] : e, s \in BOOLEAN}
OneSession(ends, c1, c2) == [ends |-> ends, calls |-> [t \in {"t1", "t2"} |-> IF t = "t1" THEN c1 ELSE c2]]
Good     == Call("text", Reply(4, 2))
Trials2  == <<"t1", "t2">>
Raws     == {Reply(a, b) : a \in {1, 9, Sentinel}, b \in {5}} \cup {[d \in {"d1"} |-> 3], [d \in {"d1", "d2", "d3"} |-> 3]}
Rows     == UNION {[1..n -> (1..2) \X {1, 2, 3, Null}] : n \in 0..3}

ProcessCases ==
  [kind : {"sessions"}, first : Calls, second : Calls, ends : 0..2]
  \cup [kind : {"human"}, judge : Calls, raw : Raws, named : {"c1", "c2"}, revealed : SUBSET {"c1", "c2"},
        excluded : SUBSET {"t1"}]
  \cup [kind : {"rows"}, rows : Rows]

(* Whatever the replies and wherever a session ends, no trial is scored    *)
(* again once a score stands, two sessions that run to their end leave     *)
(* none unscored but for transient failures, and a score is of the scale.  *)
SessionsScoreOnce(c) ==
  LET events == Sessions(Trials2, <<OneSession(c.ends, c.first, c.first), OneSession(2, c.second, c.first),
                                    OneSession(2, Good, Good)>>)
      lasting(t) == {i \in OfTrial(events, "judge", t) : ~FullyTransient(events[i].scores)}
  IN  /\ \A t \in Range(Trials2) :
           /\ Cardinality(lasting(t)) = 1
           /\ lasting(t) = {Max(OfTrial(events, "judge", t))}
      /\ \A e \in Range(events) : \A d \in Dims :
           (e.scores[d].score = Null) # (e.scores[d].cant = Null) /\ e.scores[d].score \in Scale \cup {Null}

(* A human's score stands only with a reveal, whole and on the scale; a    *)
(* pair enters a kappa only with two numbers, and never an excluded trial. *)
HumanFollowsReveal(c) ==
  LET judged == <<[kind |-> "judge", trial |-> "t1", comparison |-> "c1", scores |-> ScoreTrial(c.judge)]>>
      events == RecordHuman(judged, "t1", c.named, c.raw, c.revealed)
      items(d) == KappaItems(events, c.excluded, {"c1"}, d)
  IN  /\ Len(events) = 2 => c.named \in c.revealed /\ DOMAIN c.raw = Dims
      /\ \A d \in Dims : items(d) # {} =>
           /\ c.excluded = {} /\ "c1" \in c.revealed
           /\ \A i \in items(d) : i.a \in Scale /\ i.b \in Scale /\ i.b = c.raw[d]

(* Ranks keep their sum whatever the ties; a correlate with one unmeasured *)
(* row, or without variance, says nothing, and never that a dimension is   *)
(* style only.                                                             *)
CorrelationHonest(c) ==
  LET x == [i \in DOMAIN c.rows |-> c.rows[i][1]]
      y == [i \in DOMAIN c.rows |-> c.rows[i][2]]
      r == Correlation(x, y)
  IN  /\ Sum(DOMAIN x, LAMBDA i : Ranks2(x)[i]) = Len(x) * (Len(x) + 1)
      /\ r # Null => Null \notin Range(y) /\ Cardinality(Range(x)) > 1 /\ Cardinality(Range(y)) > 1
                     /\ r.cov * r.cov <= r.vx * r.vy
      /\ r = Null => ~StyleOnly({r})

ProcessSound(c) ==
  CASE c.kind = "sessions" -> SessionsScoreOnce(c)
    [] c.kind = "human"    -> HumanFollowsReveal(c)
    [] c.kind = "rows"     -> CorrelationHonest(c)
=============================================================================
