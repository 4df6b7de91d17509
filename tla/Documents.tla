----------------------------- MODULE Documents ------------------------------
(***************************************************************************)
(* What src/harness/analyze writes of a findings document: the sections of *)
(* the two markdown (and html) renders, the dossier, and the result card   *)
(* with its comparison. A document is a sequence of sections; of a section *)
(* its title, the lines a property is about and whether the exploratory    *)
(* watermark stands on it.                                                 *)
(***************************************************************************)
EXTENDS Integers, Sequences, SequencesExt, FiniteSets

CONSTANTS Null, Refused   \* absent; CardError

Findings == INSTANCE Findings

(***************************************************************************)
(* sections.py. Disclosures that a findings document may carry: a section  *)
(* is there exactly when its condition holds.                              *)
(***************************************************************************)
Section(title, lines) == [title |-> title, lines |-> lines, watermark |-> FALSE]
Optional(f, titles) ==
  LET Held(t) == t \in f.disclosed
  IN  [i \in DOMAIN SelectSeq(titles, Held) |-> Section(SelectSeq(titles, Held)[i], {})]

ComparisonLines(f, cf) ==
  CASE ~cf.stats -> {"no_data"}
    [] cf.stats /\ ~cf.official -> {"exploratory_pair"}
    [] cf.stats /\ cf.official /\ cf.decision.floor -> {"insufficient_clusters"}
    [] cf.stats /\ cf.official /\ ~cf.decision.floor /\ cf.decision.detected ->
         {"detected", IF cf.decision.positive THEN "MET" ELSE "not_met"}
    [] OTHER -> {"null"}
(* The figure of the null phrasing is honest at the realized number.       *)
DisplayMDE(f) == IF f.achieved # Null THEN f.achieved ELSE f.mde
MultiArmLines(f) == IF f.multiArm = Null THEN {} ELSE {f.multiArm}

OfficialComparisonLines(f) ==
  [k \in DOMAIN f.comparisons |->
     IF f.comparisons[k].excluded # Null THEN {"EXCLUDED"} ELSE ComparisonLines(f, f.comparisons[k])]
Always(titles) == [i \in DOMAIN titles |-> Section(titles[i], {})]
OfficialSections(f) ==
  <<Section("mde", {DisplayMDE(f)}),
    Section("primary", MultiArmLines(f) \cup UNION Range(OfficialComparisonLines(f)))>>
  \o Always(<<"confounds", "contamination", "integrity">>)
  \o Optional(f, <<"tier", "consistency", "overrides", "judge_coverage", "rubric", "process", "forensics", "reuse">>)
  \o Always(<<"provenance">>)
ExploratorySections(f) ==
  Always(<<"context", "mde">>)
  \o (IF f.multiArm = Null THEN <<>> ELSE <<Section("multi_arm", MultiArmLines(f))>>)
  \o [k \in DOMAIN f.comparisons |-> Section("primary", ComparisonLines(f, f.comparisons[k]))]
  \o Optional(f, <<"reuse">>) \o Always(<<"secondary">>)
  \o Optional(f, <<"judge_calibration", "process", "forensics">>)
  \o Always(<<"confounds", "contamination", "integrity">>)
  \o Optional(f, <<"tier", "consistency", "overrides", "judge_coverage">>)
  \o Always(<<"ci_method", "provenance">>)

(* render_md.py, render_html.py: the watermark leads and stands on every   *)
(* section of an exploratory render.                                       *)
Framed(sections, mode) == [i \in DOMAIN sections |-> [sections[i] EXCEPT !.watermark = mode # "official"]]
RenderFindings(f, mode) ==
  Framed(IF mode = "official" THEN OfficialSections(f) ELSE ExploratorySections(f), mode)

(***************************************************************************)
(* dossier.py: three layers; the verdict layer is a selection of templates *)
(* for each comparison, and the disclosures stand in every layer.          *)
(***************************************************************************)
VerdictSentences(f, cf) ==
  {"question", "rule"}
  \cup (IF ~cf.stats THEN {"no_data"}
        ELSE IF cf.decision.floor THEN {"insufficient_clusters"}
        ELSE IF cf.decision.detected THEN {"detected", IF cf.decision.positive THEN "MET" ELSE "not_met"}
        ELSE {"null"})
  \cup (IF cf.stats /\ cf.decision.holm # Null THEN {"caveat_holm"} ELSE {})
  \cup (IF f.underpowered THEN {"caveat_underpowered"} ELSE {})
DisclosureSections(f) ==
  Always(<<"confounds", "integrity">>)
  \o Optional(f, <<"consistency", "overrides", "judge_coverage", "rubric", "process", "forensics">>)
Layers == {"verdict", "analyst", "auditor"}
RenderDossier(f, mode) ==
  [layer \in Layers |->
     [banner |-> "tier" \in f.disclosed,
      sections |-> Framed(
        (CASE layer = "verdict" ->
                <<Section("verdict", UNION {VerdictSentences(f, f.comparisons[k]) : k \in DOMAIN f.comparisons})>>
           [] layer = "analyst" -> Always(<<"deltas", "timelines", "secondary">>) \o Optional(f, <<"judge_calibration">>)
           [] layer = "auditor" -> Always(<<"provenance", "chain", "selfcheck", "coverage", "ci_method">>))
        \o DisclosureSections(f), mode)]]

(***************************************************************************)
(* card.py. A ledger here is the sequence of its events: a render with its *)
(* mode, or data. The card is of the ledger as it is, and the render has   *)
(* to be the last thing in it.                                             *)
(***************************************************************************)
RenderedEvent(ledger) ==
  IF ledger = <<>> THEN Refused
  ELSE IF Last(ledger).event # "findings_rendered" THEN Refused ELSE Last(ledger)

(* The corpus is Null or gives the sha of a task it covers; without it the *)
(* lock's commitment is the battery.                                       *)
Battery(tasks, corpus, commitment) ==
  IF corpus # Null
  THEN IF tasks \subseteq DOMAIN corpus THEN [sha |-> {<<t, corpus[t]>> : t \in tasks}, basis |-> "corpus"] ELSE Refused
  ELSE IF commitment = Null THEN Refused ELSE [sha |-> commitment, basis |-> "lock_commitment"]

DataIn(ledger) == Cardinality({i \in DOMAIN ledger : ledger[i].event = "data"})
BuildCard(x) ==
  LET rendered == RenderedEvent(x.ledger)
      battery  == Battery(x.tasks, x.corpus, x.commitment)
  IN  IF ~x.chain \/ rendered = Refused \/ battery = Refused THEN Refused
      ELSE [battery |-> battery, metric |-> x.metric, mode |-> rendered.mode, sees |-> DataIn(x.ledger),
            renderedOf |-> rendered.sees]
ComparabilityKey(card) == <<card.battery.basis, card.metric, card.battery.sha>>
CompareCards(a, b) == IF ComparabilityKey(a) # ComparabilityKey(b) THEN Refused ELSE <<a.sees, b.sees>>

-----------------------------------------------------------------------------
(* Inputs: documents of one to two pairs, any correction, what they may    *)
(* disclose; ledgers of renders and data; two cards.                       *)
PairShapes ==
  {[n |-> n, asymmetric |-> FALSE, interval |-> i, sign |-> s, p |-> p] :
     n \in 0..2, i \in {0, 1}, s \in {1, -1}, p \in {1, 7}}
  \cup {[n |-> 2, asymmetric |-> TRUE, interval |-> 1, sign |-> 1, p |-> 1]}
Disclosable == {"tier", "consistency", "overrides", "judge_coverage", "rubric", "process", "forensics", "reuse",
                "judge_calibration"}
DocumentOf(pairs, correction, disclosed, achieved) ==
  [comparisons |-> Findings!Decide(pairs, 1, correction, 6), multiArm |-> Findings!MultiArm(pairs, correction),
   disclosed |-> disclosed, mde |-> "planned_mde", achieved |-> achieved, underpowered |-> disclosed = {}]
Appended(ledger, kind, mode) == Append(ledger, [event |-> kind, mode |-> mode, sees |-> DataIn(ledger)])
History(steps) ==
  FoldLeft(LAMBDA ledger, s : Appended(ledger, IF s = "data" THEN "data" ELSE "findings_rendered", s), <<>>, steps)
Histories == UNION {[1..n -> {"data", "official", "exploratory"}] : n \in 0..4}
Batteries ==
  [tasks : {{"t1"}, {"t1", "t2"}}, corpus : {Null, [t \in {"t1"} |-> 1], [t \in {"t1", "t2"} |-> 1]},
   commitment : {Null, "c1", "c2"}, metric : {"holdout_pass_rate", "cost_per_task"}]
CardInput(b, steps, chain) ==
  [tasks |-> b.tasks, corpus |-> b.corpus, commitment |-> b.commitment, metric |-> b.metric,
   ledger |-> History(steps), chain |-> chain]

DocumentsCases ==
  {[kind |-> "document", document |-> DocumentOf(ps, c, d, a)] :
     ps \in UNION {[1..n -> PairShapes] : n \in 1..2}, c \in {"none", "holm"}, d \in {{}, Disclosable}, a \in {Null}}
  \cup {[kind |-> "document", document |-> DocumentOf(<<[n |-> 1, asymmetric |-> FALSE, interval |-> 0, sign |-> 1, p |-> 1]>>,
                                                     "none", d, "achieved_mde")] : d \in SUBSET Disclosable}
  \cup {[kind |-> "card", card |-> CardInput(b, s, ch)] : b \in {x \in Batteries : x.metric = "cost_per_task"},
                                                         s \in Histories, ch \in BOOLEAN}
  \cup {[kind |-> "compare", one |-> CardInput(b, <<"official">>, TRUE), other |-> CardInput(d, <<"data", "official">>, TRUE)] :
          b, d \in Batteries}

(***************************************************************************)
(* What must hold of each.                                                 *)
(***************************************************************************)
Outcomes == {"no_data", "insufficient_clusters", "detected", "MET", "not_met", "null", "exploratory_pair"}
Titles(sections) == {s.title : s \in Range(sections)}

(* F-H6: of a pair that decides, every document states the same outcome; a *)
(* pair that does not decide has none in the markdown; the disclosures are *)
(* in every layer of the dossier as in the renders, and an exploratory     *)
(* document has its watermark on every section.                            *)
DocumentsAgree(f) ==
  /\ \A k \in DOMAIN f.comparisons :
       LET cf == f.comparisons[k] IN
       /\ cf.official => ComparisonLines(f, cf) \cap Outcomes = VerdictSentences(f, cf) \cap Outcomes
       /\ ~cf.official => ComparisonLines(f, cf) \cap {"detected", "MET", "not_met", "null"} = {}
       /\ "MET" \in ComparisonLines(f, cf) => cf.decision.positive /\ cf.n >= 2 /\ cf.excluded = Null
  /\ \A mode \in {"official", "exploratory"} :
       LET md == RenderFindings(f, mode)
           dossier == RenderDossier(f, mode)
           layer(l) == dossier[l].sections
       IN  /\ \A s \in Range(md) \cup UNION {Range(layer(l)) : l \in Layers} : s.watermark = (mode = "exploratory")
           /\ f.disclosed \ {"rubric"} \subseteq Titles(md) \cup (IF mode = "official" THEN {"judge_calibration"} ELSE {})
           /\ \A l \in Layers :
                /\ f.disclosed \ {"tier", "reuse", "judge_calibration"} \subseteq Titles(layer(l))
                /\ dossier[l].banner = ("tier" \in f.disclosed)
           /\ f.multiArm # Null => f.multiArm \in UNION {s.lines : s \in Range(md)}

(* F-H5: a card is of the data its render saw, in that render's mode.      *)
CardIsOfItsRender(x) ==
  LET card == BuildCard(x)
      last == {i \in DOMAIN x.ledger : x.ledger[i].event = "findings_rendered"}
  IN  card # Refused =>
        /\ x.chain /\ card.sees = card.renderedOf
        /\ last # {} /\ card.mode = Last(x.ledger).mode
        /\ x.corpus # Null => x.tasks \subseteq DOMAIN x.corpus

(* Two cards compare only over the same tasks, known in the same way.      *)
ComparableIsSameBattery(one, other) ==
  LET a == BuildCard(one)
      b == BuildCard(other)
  IN  a # Refused /\ b # Refused =>
        /\ (CompareCards(a, b) = Refused) = (CompareCards(b, a) = Refused)
        /\ CompareCards(a, b) # Refused =>
             /\ one.metric = other.metric
             /\ one.corpus # Null => other.corpus # Null /\ one.tasks = other.tasks
             /\ one.corpus = Null => other.corpus = Null /\ one.commitment = other.commitment

DocumentsSound(c) ==
  CASE c.kind = "document" -> DocumentsAgree(c.document)
    [] c.kind = "card"     -> CardIsOfItsRender(c.card)
    [] c.kind = "compare"  -> ComparableIsSameBattery(c.one, c.other)

(* extract.py: "The remaining pairs are exploratory (CI/effect shown, no   *)
(* decision)". A pair that does not decide has no outcome in the dossier.  *)
DossierDecides(c) ==
  c.kind = "document" =>
    \A k \in DOMAIN c.document.comparisons :
      ~c.document.comparisons[k].official => "MET" \notin VerdictSentences(c.document, c.document.comparisons[k])
=============================================================================
