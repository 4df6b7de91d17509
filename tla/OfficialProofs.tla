--------------------------- MODULE OfficialProofs ---------------------------
(***************************************************************************)
(* Proofs about Official, for every corpus, manifest, method and appended  *)
(* event, and any number of analyses, crashes and concurrent appends.      *)
(***************************************************************************)
EXTENDS Official, SequenceLemmas

Typed(l) ==
  /\ l \in Seq({l[k] : k \in DOMAIN l})
  /\ \A k \in 1..Len(l) :
       l[k].kind = "contamination_probe" => l[k].found \subseteq {"asymmetry", "alarm"}

(* The first n fence checks hold of one ledger.                            *)
Passed(l, m, method, n) == \A c \in 1..n : Evaluate(FENCE_CHECKS[c], l, m, {method})

-----------------------------------------------------------------------------
LEMMA LastOfIsLast ==
  ASSUME NEW n \in Nat, NEW S \in SUBSET (1..n), S # {}
  PROVE  LastOf(S) \in S /\ \A j \in S : j <= LastOf(S)
BY LastPosition DEF LastOf

(* What the fence checks together say of the ledger that they all read.    *)
LEMMA FenceEarns ==
  ASSUME NEW l, Typed(l), NEW m, NEW method, Passed(l, m, method, 8)
  PROVE  EarnedBy(l, method)
<1>0. Len(l) \in Nat
  BY DEF Typed
<1>1. /\ Evaluate("calibration", l, m, {method}) /\ Evaluate("rubric", l, m, {method})
      /\ Evaluate("selfcheck", l, m, {method}) /\ Evaluate("contamination", l, m, {method})
      /\ Evaluate("insulation", l, m, {method})
  BY DEF Passed, FENCE_CHECKS
<1>2. \E j \in 1..Len(l) :
        /\ l[j].kind = "calibration_run" /\ l[j].corpus = Corpus
        /\ l[j].status = "full-run-validated"
        /\ \A i \in (j + 1)..Len(l) : l[i].kind = "calibration_run" => l[i].corpus # Corpus
  <2> DEFINE C == CalibrationsOf(l)
             j == LastOf(C)
  <2>1. CalibrationOf(l) = "full-run-validated"
    BY <1>1 DEF Evaluate
  <2>2. C # {} /\ l[j].status = "full-run-validated"
    BY <2>1 DEF CalibrationOf
  <2>3. C \in SUBSET (1..Len(l))
    BY DEF CalibrationsOf, Positions
  <2>4. j \in C /\ \A i \in C : i <= j
    BY <1>0, <2>2, <2>3, LastOfIsLast
  <2>5. \A i \in 1..Len(l) : i \in C <=> l[i].kind = "calibration_run" /\ l[i].corpus = Corpus
    BY DEF CalibrationsOf, Positions
  <2>. HIDE DEF C, j
  <2>. QED  BY <1>0, <2>2, <2>3, <2>4, <2>5
<1>3. \E j \in 1..Len(l) :
        /\ IsLast(l, "selfcheck", j) /\ l[j].passed /\ l[j].method = method
        /\ \A i \in (j + 1)..Len(l) : l[i].kind \notin DataKinds
  <2> DEFINE C == Positions(l, {"selfcheck"})
             j == LastOf(C)
  <2>1. SelfcheckStatus(l) = "current" /\ l[j].method = method
    BY <1>1 DEF Evaluate, Latest
  <2>2. C # {} /\ l[j].passed /\ \A i \in Positions(l, DataKinds) : i < j
    BY <2>1 DEF SelfcheckStatus, Has, Latest
  <2>3. C \in SUBSET (1..Len(l))
    BY DEF Positions
  <2>4. j \in C /\ \A i \in C : i <= j
    BY <1>0, <2>2, <2>3, LastOfIsLast
  <2>5. \A i \in 1..Len(l) : /\ i \in C <=> l[i].kind = "selfcheck"
                             /\ i \in Positions(l, DataKinds) <=> l[i].kind \in DataKinds
    BY DEF Positions
  <2>. HIDE DEF C, j
  <2>6. j \in 1..Len(l) /\ l[j].kind = "selfcheck"
    BY <2>3, <2>4, <2>5
  <2>7. \A i \in (j + 1)..Len(l) : l[i].kind # "selfcheck" /\ l[i].kind \notin DataKinds
    BY <1>0, <2>2, <2>4, <2>5, <2>6
  <2>. QED  BY <2>1, <2>2, <2>6, <2>7 DEF IsLast
<1>4. \A j \in 1..Len(l) : l[j].kind = "judge_verdict" => l[j].rubric = Rubric
  BY <1>1 DEF Evaluate, Positions
<1>5. \A j \in 1..Len(l) : IsLast(l, "contamination_probe", j) => l[j].found = {}
  <2> SUFFICES ASSUME NEW j \in 1..Len(l), IsLast(l, "contamination_probe", j)
               PROVE  l[j].found = {}
    OBVIOUS
  <2> DEFINE C == Positions(l, {"contamination_probe"})
             k == LastOf(C)
  <2>1. C \in SUBSET (1..Len(l)) /\ j \in C
    BY DEF Positions, IsLast
  <2>2. k \in C /\ \A i \in C : i <= k
    BY <1>0, <2>1, LastOfIsLast
  <2>3. \A i \in 1..Len(l) : i \in C <=> l[i].kind = "contamination_probe"
    BY DEF Positions
  <2>4. ~ProbeFound(l, "asymmetry") /\ ~ProbeFound(l, "alarm")
    BY <1>1 DEF Evaluate
  <2>5. "asymmetry" \notin l[k].found /\ "alarm" \notin l[k].found
    BY <2>1, <2>4 DEF ProbeFound, Has, Latest
  <2>. HIDE DEF C, k
  <2>6. k = j
    <3>1. k \in 1..Len(l) /\ l[k].kind = "contamination_probe" /\ j <= k
      BY <2>1, <2>2, <2>3
    <3>2. k \notin (j + 1)..Len(l)
      BY <3>1 DEF IsLast
    <3>. QED  BY <1>0, <3>1, <3>2
  <2>7. l[j].found \subseteq {"asymmetry", "alarm"}
    BY DEF Typed, IsLast
  <2>. QED  BY <2>5, <2>6, <2>7
<1>. QED  BY <1>2, <1>3, <1>4, <1>5 DEF EarnedBy

(* What passes with findings passes without them, and is itemized as ok.   *)
LEMMA PassedIsReady ==
  ASSUME NEW l, NEW m, NEW method, Passed(l, m, method, 8)
  PROVE  OfficialReady(FenceReport(l, m, TRUE, TRUE))
<1>1. /\ Evaluate("corpus_identity", l, m, {method}) /\ Evaluate("corpus_coverage", l, m, {method})
      /\ Evaluate("calibration", l, m, {method}) /\ Evaluate("rubric", l, m, {method})
      /\ Evaluate("selfcheck", l, m, {method}) /\ Evaluate("contamination", l, m, {method})
      /\ Evaluate("insulation", l, m, {method}) /\ Evaluate("correction", l, m, {method})
  BY DEF Passed, FENCE_CHECKS
<1>2. m # NoManifest
  BY <1>1 DEF Evaluate
<1>3. ToSet(FENCE_CHECKS) = {"corpus_identity", "corpus_coverage", "calibration", "rubric",
                             "selfcheck", "contamination", "insulation", "correction"}
  BY DEF ToSet, FENCE_CHECKS
<1>4. \A c \in ToSet(FENCE_CHECKS) : Evaluate(c, l, m, {})
  <2>1. Evaluate("selfcheck", l, m, {})
    BY <1>1 DEF Evaluate
  <2>2. \A c \in ToSet(FENCE_CHECKS) \ {"selfcheck"} : Evaluate(c, l, m, {}) = Evaluate(c, l, m, {method})
    BY <1>3 DEF Evaluate
  <2>. QED  BY <1>1, <1>3, <2>1, <2>2
<1>5. \A c \in ToSet(FENCE_CHECKS) : State(c, l, m) = "ok"
  BY <1>2, <1>4 DEF State
<1>. QED  BY <1>3, <1>5 DEF OfficialReady, FenceReport, Itemized

(* A prefix stays what it is while the ledger grows.                       *)
LEMMA PrefixStays ==
  ASSUME NEW l, l \in Seq({l[k] : k \in DOMAIN l}), NEW e
  PROVE  \A h \in 0..Len(l) : SubSeq(Append(l, e), 1, h) = SubSeq(l, 1, h)
<1> DEFINE t == Append(l, e)
<1>1. /\ t \in Seq({t[k] : k \in DOMAIN t}) /\ Len(t) = Len(l) + 1 /\ Len(l) \in Nat
      /\ \A k \in 1..Len(l) : t[k] = l[k]
      /\ t[Len(l) + 1] = e
  BY AppendOwn
<1> DEFINE S == {l[k] : k \in DOMAIN l}
<1>2. l \in Seq(S) /\ \A k \in 1..Len(l) : l[k] \in S
  OBVIOUS
<1>. HIDE DEF t, S
<1>. SUFFICES ASSUME NEW h \in 0..Len(l)
              PROVE  SubSeq(t, 1, h) = SubSeq(l, 1, h)
  BY DEF t
<1>3. \A i \in 1..h : t[i] = l[i] /\ l[i] \in S
  BY <1>1, <1>2
<1>4. /\ SubSeq(t, 1, h) \in Seq(S) /\ Len(SubSeq(t, 1, h)) = h
      /\ \A i \in 1..h : SubSeq(t, 1, h)[i] = l[i]
  <2>1. \A i \in 1..h : t[i] \in S
    BY <1>3
  <2>2. h \in Nat /\ 1 \in Int /\ h \in Int
    BY <1>1
  <2>3. /\ SubSeq(t, 1, h) \in Seq(S)
        /\ Len(SubSeq(t, 1, h)) = IF 1 <= h THEN h - 1 + 1 ELSE 0
        /\ \A i \in 1..(h - 1 + 1) : SubSeq(t, 1, h)[i] = t[1 + i - 1]
    BY <2>1, <2>2, SubSeqProperties
  <2>. QED  BY <1>3, <2>2, <2>3
<1>5. /\ SubSeq(l, 1, h) \in Seq(S) /\ Len(SubSeq(l, 1, h)) = h
      /\ \A i \in 1..h : SubSeq(l, 1, h)[i] = l[i]
  <2>1. \A i \in 1..h : l[i] \in S
    BY <1>3
  <2>2. h \in Nat /\ 1 \in Int /\ h \in Int
    BY <1>1
  <2>3. /\ SubSeq(l, 1, h) \in Seq(S)
        /\ Len(SubSeq(l, 1, h)) = IF 1 <= h THEN h - 1 + 1 ELSE 0
        /\ \A i \in 1..(h - 1 + 1) : SubSeq(l, 1, h)[i] = l[1 + i - 1]
    BY <2>1, <2>2, SubSeqProperties
  <2>. QED  BY <2>2, <2>3
<1>6. SubSeq(t, 1, h) = SubSeq(l, 1, h)
  BY <1>4, <1>5, SeqEqual
<1>. QED  BY <1>6

-----------------------------------------------------------------------------
(* What one analysis knows, given the ledger l.                            *)
Analysis(a) == [pc |-> pc[a], mode |-> mode[a], manifest |-> manifest[a], data |-> data[a],
                head |-> head[a], rendering |-> rendering[a], check |-> check[a]]
PassedAll(l, s) == Passed(SubSeq(l, 1, s.head), s.manifest, Method[s.data], 8)

(* The checks of the first validation were of the ledger that the head     *)
(* names if it still is the head; the second one begins by making sure.    *)
Safe(l, s) ==
  /\ s.pc \in {"validating", "rendered", "recorded", "json", "md"} => s.head \in 0..Len(l)
  /\ (s.mode = "official" /\ s.pc = "validating" /\ s.rendering = 1 /\ s.head = Len(l)) =>
       \A c \in 1..8 : c < s.check => Evaluate(FENCE_CHECKS[c], l, s.manifest, {Method[s.data]})
  /\ (s.mode = "official" /\ s.pc = "validating" /\ s.rendering = 2) =>
       ((s.head = Len(l) \/ s.check # 0) => PassedAll(l, s))
  /\ (s.mode = "official" /\ s.pc = "rendered") => PassedAll(l, s)

(* An analysis that writes files has ledgered what it writes.              *)
IsEventOf(ev, s) ==
  ev.kind = "findings_rendered" /\ Findings(ev.mode, ev.head, ev.data) = Findings(s.mode, s.head, s.data)
Announced(l, s) ==
  s.pc \in {"recorded", "json", "md"} => \E k \in 1..Len(l) : IsEventOf(l[k], s)

EarnedRender(l, ev) ==
  ev.kind = "findings_rendered" =>
    /\ ev.head \in 0..Len(l)
    /\ ev.mode = "official" => EarnedBy(SubSeq(l, 1, ev.head), Method[ev.data])

Sound(l) == Typed(l) /\ \A k \in 1..Len(l) : EarnedRender(l, l[k])

Functional ==
  /\ DOMAIN pc = Analysts /\ pc = [a \in Analysts |-> pc[a]]
  /\ mode \in [Analysts -> Modes] /\ manifest = [a \in Analysts |-> manifest[a]]
  /\ data = [a \in Analysts |-> data[a]] /\ head = [a \in Analysts |-> head[a]]
  /\ rendering \in [Analysts -> {1, 2}] /\ check \in [Analysts -> Nat]
  /\ files = [f \in FileNames |-> files[f]]

Inv ==
  /\ Functional
  /\ Sound(ledger)
  /\ \A a \in Analysts : Safe(ledger, Analysis(a)) /\ Announced(ledger, Analysis(a))
  /\ NoOrphanArtifacts

-----------------------------------------------------------------------------
(* An append leaves every analysis safe, and every event earned, that was. *)
LEMMA AppendSafe ==
  ASSUME NEW l, Typed(l), NEW e, NEW s
  PROVE  /\ Safe(l, s) => Safe(Append(l, e), s)
         /\ Announced(l, s) => Announced(Append(l, e), s)
         /\ \A ev : EarnedRender(l, ev) => EarnedRender(Append(l, e), ev)
<1> DEFINE t == Append(l, e)
<1>1. /\ Len(t) = Len(l) + 1 /\ Len(l) \in Nat
      /\ \A k \in 1..Len(l) : t[k] = l[k]
  BY AppendOwn DEF Typed
<1>2. \A h \in 0..Len(l) : SubSeq(t, 1, h) = SubSeq(l, 1, h)
  BY PrefixStays DEF Typed
<1>. HIDE DEF t
<1>3. Safe(l, s) => Safe(t, s)
  <2> SUFFICES ASSUME Safe(l, s) PROVE Safe(t, s)
    OBVIOUS
  <2>1. s.pc \in {"validating", "rendered", "recorded", "json", "md"} =>
          s.head \in 0..Len(l) /\ s.head \in 0..Len(t) /\ s.head # Len(t)
    BY <1>1 DEF Safe
  <2>2. s.pc \in {"validating", "rendered"} => (PassedAll(t, s) <=> PassedAll(l, s))
    BY <1>2, <2>1 DEF PassedAll
  <2>. QED  BY <2>1, <2>2 DEF Safe
<1>4. Announced(l, s) => Announced(t, s)
  BY <1>1 DEF Announced
<1>5. \A ev : EarnedRender(l, ev) => EarnedRender(t, ev)
  <2> SUFFICES ASSUME NEW ev, EarnedRender(l, ev), ev.kind = "findings_rendered"
               PROVE  /\ ev.head \in 0..Len(t)
                      /\ ev.mode = "official" => EarnedBy(SubSeq(t, 1, ev.head), Method[ev.data])
    BY DEF EarnedRender
  <2>1. /\ ev.head \in 0..Len(l)
        /\ ev.mode = "official" => EarnedBy(SubSeq(l, 1, ev.head), Method[ev.data])
    BY DEF EarnedRender
  <2>2. SubSeq(t, 1, ev.head) = SubSeq(l, 1, ev.head)
    BY <1>2, <2>1
  <2>3. ev.head \in 0..Len(t)
    BY <1>1, <2>1
  <2>4. ev.mode = "official" => EarnedBy(SubSeq(t, 1, ev.head), Method[ev.data])
    BY <2>1, <2>2, Zenon
  <2>. QED  BY <2>3, <2>4
<1>. QED  BY <1>3, <1>4, <1>5 DEF t

LEMMA AppendSound ==
  ASSUME NEW l, Sound(l), NEW e, EarnedRender(l, e),
         e.kind = "contamination_probe" => e.found \subseteq {"asymmetry", "alarm"}
  PROVE  Sound(Append(l, e))
<1> DEFINE t == Append(l, e)
<1>1. /\ t \in Seq({t[k] : k \in DOMAIN t})
      /\ Len(t) = Len(l) + 1 /\ Len(l) \in Nat
      /\ \A k \in 1..Len(l) : t[k] = l[k]
      /\ t[Len(t)] = e
  BY AppendOwn DEF Sound, Typed
<1>2. \A ev : EarnedRender(l, ev) => EarnedRender(t, ev)
  BY AppendSafe DEF Sound
<1>. HIDE DEF t
<1>3. \A k \in 1..Len(t) : k \in 1..Len(l) \/ k = Len(t)
  BY <1>1
<1>4. Typed(t)
  BY <1>1, <1>3 DEF Typed, Sound
<1>5. \A k \in 1..Len(t) : EarnedRender(t, t[k])
  BY <1>1, <1>2, <1>3 DEF Sound
<1>. QED  BY <1>4, <1>5 DEF Sound, t

-----------------------------------------------------------------------------
Backed(l, x) == \E k \in Positions(l, {"findings_rendered"}) :
                  Findings(l[k].mode, l[k].head, l[k].data) = x

Grows ==
  \/ ledger' = ledger
  \/ \E e : /\ ledger' = Append(ledger, e) /\ EarnedRender(ledger, e)
            /\ e.kind = "contamination_probe" => e.found \subseteq {"asymmetry", "alarm"}

LEMMA GrownLedger ==
  ASSUME Sound(ledger), Grows
  PROVE  /\ Sound(ledger')
         /\ \A s : Safe(ledger, s) => Safe(ledger', s)
         /\ \A s : Announced(ledger, s) => Announced(ledger', s)
         /\ \A x : Backed(ledger, x) => Backed(ledger', x)
<1>1. CASE ledger' = ledger
  BY <1>1
<1>2. ASSUME NEW e, ledger' = Append(ledger, e), EarnedRender(ledger, e),
             e.kind = "contamination_probe" => e.found \subseteq {"asymmetry", "alarm"}
      PROVE  /\ Sound(ledger')
             /\ \A s : Safe(ledger, s) => Safe(ledger', s)
             /\ \A s : Announced(ledger, s) => Announced(ledger', s)
             /\ \A x : Backed(ledger, x) => Backed(ledger', x)
  <2>1. Sound(ledger')
    BY <1>2, AppendSound
  <2>2. /\ \A s : Safe(ledger, s) => Safe(ledger', s)
        /\ \A s : Announced(ledger, s) => Announced(ledger', s)
    <3>1. Typed(ledger)
      BY DEF Sound
    <3>2. ASSUME NEW s
          PROVE  /\ Safe(ledger, s) => Safe(ledger', s)
                 /\ Announced(ledger, s) => Announced(ledger', s)
      BY <1>2, <3>1, AppendSafe
    <3>. QED  BY <3>2, Zenon
  <2>3. /\ Len(ledger') = Len(ledger) + 1 /\ Len(ledger) \in Nat
        /\ \A k \in 1..Len(ledger) : ledger'[k] = ledger[k]
    BY <1>2, AppendOwn DEF Sound, Typed
  <2>4. \A x : Backed(ledger, x) => Backed(ledger', x)
    BY <2>3 DEF Backed, Positions
  <2>. QED  BY <2>1, <2>2, <2>4, Zenon
<1>. QED  BY <1>1, <1>2 DEF Grows

(* A step is of one analysis, or of none; the others stay safe because the *)
(* ledger only grows.                                                      *)
Written(a) ==
  \/ files' = files
  \/ /\ pc[a] \in {"recorded", "json", "md"}
     /\ \E n \in FileNames :
          files' = [files EXCEPT ![n] = Findings(mode[a], head[a], data[a])]

LEMMA StepOfOne ==
  ASSUME Inv, NEW a \in Analysts, Grows, Functional', Written(a),
         \A b \in Analysts : b # a => Analysis(b)' = Analysis(b),
         Safe(ledger', Analysis(a)'), Announced(ledger', Analysis(a)')
  PROVE  Inv'
<1>1. /\ Sound(ledger')
      /\ \A s : Safe(ledger, s) => Safe(ledger', s)
      /\ \A s : Announced(ledger, s) => Announced(ledger', s)
      /\ \A x : Backed(ledger, x) => Backed(ledger', x)
  BY GrownLedger DEF Inv
<1>2. ASSUME NEW b \in Analysts
      PROVE  Safe(ledger', Analysis(b)') /\ Announced(ledger', Analysis(b)')
  <2>1. CASE b = a
    BY <2>1
  <2>2. CASE b # a
    <3>1. Analysis(b)' = Analysis(b)
      BY <2>2
    <3>2. Safe(ledger, Analysis(b)) /\ Announced(ledger, Analysis(b))
      BY DEF Inv
    <3>. QED  BY <1>1, <3>1, <3>2, Zenon
  <2>. QED  BY <2>1, <2>2
<1>3. \A f \in FileNames : files'[f] # NoFile => Backed(ledger', files'[f])
  <2>1. \A f \in FileNames : files[f] # NoFile => Backed(ledger, files[f])
    BY DEF Inv, NoOrphanArtifacts, Backed
  <2>2. CASE files' = files
    BY <1>1, <2>1, <2>2
  <2>3. ASSUME pc[a] \in {"recorded", "json", "md"}, NEW n \in FileNames,
               files' = [files EXCEPT ![n] = Findings(mode[a], head[a], data[a])]
        PROVE  \A f \in FileNames : files'[f] # NoFile => Backed(ledger', files'[f])
    <3>1. Announced(ledger, Analysis(a))
      BY DEF Inv
    <3>2. \E k \in 1..Len(ledger) : IsEventOf(ledger[k], Analysis(a))
      BY <2>3, <3>1 DEF Announced, Analysis
    <3>3. Backed(ledger, Findings(mode[a], head[a], data[a]))
      BY <3>2 DEF IsEventOf, Backed, Positions, Analysis
    <3>4. \A f \in FileNames : files'[f] = files[f] \/ files'[f] = Findings(mode[a], head[a], data[a])
      BY <2>3 DEF Inv, Functional
    <3>. QED  BY <1>1, <2>1, <3>3, <3>4
  <2>. QED  BY <2>2, <2>3 DEF Written
<1>4. NoOrphanArtifacts'
  BY <1>3 DEF NoOrphanArtifacts, Backed
<1>. QED  BY <1>1, <1>2, <1>4 DEF Inv

-----------------------------------------------------------------------------
LEMMA InitInv == Init => Inv
<1> SUFFICES ASSUME Init PROVE Inv
  OBVIOUS
<1>1. ledger \in Seq({ledger[k] : k \in DOMAIN ledger})
  BY OfficialAssumption DEF Init, ToSet
<1>2. \A k \in 1..Len(ledger) : ledger[k] \in ToSet(Recorded)
  BY <1>1 DEF Init, ToSet
<1>3. Sound(ledger)
  <2>1. \A k \in 1..Len(ledger) :
          /\ ledger[k].kind # "findings_rendered"
          /\ ledger[k].kind = "contamination_probe" => ledger[k].found \subseteq {"asymmetry", "alarm"}
    BY <1>2, OfficialAssumption DEF DataKinds
  <2>. QED  BY <1>1, <2>1 DEF Sound, Typed, EarnedRender
<1>4. Functional
  BY DEF Init, Functional, Modes
<1>5. \A a \in Analysts : Safe(ledger, Analysis(a)) /\ Announced(ledger, Analysis(a))
  BY DEF Init, Safe, Announced, Analysis
<1>6. NoOrphanArtifacts
  BY DEF Init, NoOrphanArtifacts
<1>. QED  BY <1>3, <1>4, <1>5, <1>6 DEF Inv

(* The last check of a validation completes it.                            *)
LEMMA Completes ==
  ASSUME Inv, NEW a \in Analysts, pc[a] = "validating", Holds(a), check[a] = LastCheck(a),
         mode[a] = "official"
  PROVE  /\ rendering[a] = 2 => PassedAll(ledger, Analysis(a))
         /\ rendering[a] = 1 /\ head[a] = Len(ledger) => PassedAll(ledger, Analysis(a))
<1>1. Safe(ledger, Analysis(a)) /\ Typed(ledger)
  BY DEF Inv, Sound
<1>2. check[a] = 8
  BY DEF LastCheck, FENCE_CHECKS
<1>3. rendering[a] = 2 => PassedAll(ledger, Analysis(a))
  BY <1>1, <1>2 DEF Safe, Analysis
<1>4. ASSUME rendering[a] = 1, head[a] = Len(ledger)
      PROVE  PassedAll(ledger, Analysis(a))
  <2>1. \A c \in 1..8 : c < 8 => Evaluate(FENCE_CHECKS[c], ledger, manifest[a], {Method[data[a]]})
    BY <1>1, <1>2, <1>4 DEF Safe, Analysis
  <2>2. Evaluate(FENCE_CHECKS[8], ledger, manifest[a], {Method[data[a]]})
    BY <1>2 DEF Holds
  <2>3. SubSeq(ledger, 1, head[a]) = ledger
    BY <1>1, <1>4, SubSeqFull DEF Typed
  <2>4. \A c \in 1..8 : c < 8 \/ c = 8
    OBVIOUS
  <2>5. Passed(ledger, manifest[a], Method[data[a]], 8)
    BY <2>1, <2>2, <2>4, Zenon DEF Passed
  <2>. QED  BY <2>3, <2>5 DEF PassedAll, Analysis
<1>. QED  BY <1>3, <1>4

-----------------------------------------------------------------------------
LEMMA AnalyzeInv ==
  ASSUME Inv, NEW a \in Analysts, Analyze(a) \/ Crash(a)
  PROVE  Inv'
<1>0. Functional /\ Safe(ledger, Analysis(a)) /\ Announced(ledger, Analysis(a)) /\ Typed(ledger)
  BY DEF Inv, Sound
<1>1. CASE Extract(a)
  <2>0. PICK m \in Modes, f \in Manifests :
          /\ mode' = [mode EXCEPT ![a] = m] /\ manifest' = [manifest EXCEPT ![a] = f]
          /\ data' = [data EXCEPT ![a] = DataOf(ledger)] /\ pc' = [pc EXCEPT ![a] = "extracted"]
          /\ UNCHANGED <<ledger, checking, head, rendering, check, files, faults>>
    BY <1>1 DEF Extract, Goto
  <2>. HIDE DEF DataOf
  <2>a. Functional'
    BY <1>0, <2>0 DEF Functional
  <2>b. \A b \in Analysts : b # a => Analysis(b)' = Analysis(b)
    BY <1>0, <2>0 DEF Functional, Analysis
  <2>1. /\ ledger' = ledger /\ files' = files /\ Functional' /\ pc'[a] = "extracted"
        /\ \A b \in Analysts : b # a => Analysis(b)' = Analysis(b)
    BY <1>0, <2>0, <2>a, <2>b DEF Functional
  <2>2. Safe(ledger', Analysis(a)') /\ Announced(ledger', Analysis(a)')
    BY <2>1 DEF Safe, Announced, Analysis
  <2>. QED  BY <2>1, <2>2, StepOfOne DEF Grows, Written
<1>2. CASE ReadHead(a)
  <2>1. /\ ledger' = ledger /\ files' = files /\ Functional'
        /\ \A b \in Analysts : b # a => Analysis(b)' = Analysis(b)
    BY <1>0, <1>2 DEF ReadHead, Goto, Functional, Analysis
  <2>2. /\ pc'[a] = "validating" /\ head'[a] = Len(ledger) /\ rendering'[a] = 1 /\ check'[a] = 0
        /\ Len(ledger) \in Nat
    BY <1>0, <1>2 DEF ReadHead, Goto, Functional, Typed
  <2>3. Safe(ledger', Analysis(a)') /\ Announced(ledger', Analysis(a)')
    BY <2>1, <2>2 DEF Safe, Announced, Analysis
  <2>. QED  BY <2>1, <2>3, StepOfOne DEF Grows, Written
<1>3. CASE Validate(a)
  <2>1. /\ ledger' = ledger /\ files' = files /\ Functional'
        /\ \A b \in Analysts : b # a => Analysis(b)' = Analysis(b)
    BY <1>0, <1>3 DEF Validate, Functional, Analysis
  <2>2. /\ pc[a] = "validating" /\ check'[a] = check[a] + 1
        /\ Analysis(a)' = [Analysis(a) EXCEPT !.check = check[a] + 1]
        /\ check[a] \in Nat /\ rendering[a] \in {1, 2}
    BY <1>0, <1>3 DEF Validate, Functional, Analysis
  <2>3. /\ check[a] = 0 => head[a] = Len(ledger)
        /\ check[a] # 0 => Evaluate(FENCE_CHECKS[check[a]], ledger, manifest[a], {Method[data[a]]})
    BY <1>3 DEF Validate, Holds, HeadUnmoved
  <2>4. Announced(ledger', Analysis(a)')
    BY <2>2 DEF Announced, Analysis
  <2>5. Safe(ledger', Analysis(a)')
    <3>1. PassedAll(ledger, Analysis(a)') <=> PassedAll(ledger, Analysis(a))
      BY <2>2 DEF PassedAll, Analysis
    <3>2. mode[a] = "official" /\ rendering[a] = 2 => PassedAll(ledger, Analysis(a))
      BY <1>0, <2>2, <2>3 DEF Safe, Analysis
    <3>3. ASSUME mode[a] = "official", rendering[a] = 1, head[a] = Len(ledger),
                 NEW c \in 1..8, c < check[a] + 1
          PROVE  Evaluate(FENCE_CHECKS[c], ledger, manifest[a], {Method[data[a]]})
      <4>1. CASE c < check[a]
        BY <1>0, <2>2, <3>3, <4>1 DEF Safe, Analysis
      <4>2. CASE c = check[a]
        BY <2>3, <4>2
      <4>. QED  BY <2>2, <3>3, <4>1, <4>2
    <3>4. head[a] \in 0..Len(ledger)
      BY <1>0, <2>2 DEF Safe, Analysis
    <3>. QED  BY <2>1, <2>2, <3>1, <3>2, <3>3, <3>4 DEF Safe, Analysis
  <2>. QED  BY <2>1, <2>4, <2>5, StepOfOne DEF Grows, Written
<1>4. CASE Render(a)
  <2>1. /\ ledger' = ledger /\ files' = files /\ Functional'
        /\ \A b \in Analysts : b # a => Analysis(b)' = Analysis(b)
    BY <1>0, <1>4 DEF Render, Renderings, Goto, Functional, Analysis
  <2>a. rendering[a] \in {1, 2}
    BY <1>0 DEF Functional
  <2>2. /\ pc[a] = "validating" /\ check[a] = LastCheck(a) /\ Holds(a) /\ rendering[a] \in {1, 2}
        /\ UNCHANGED <<mode, manifest, data, head>>
        /\ \/ /\ rendering[a] = 1 /\ pc'[a] = "validating"
              /\ rendering'[a] = 2 /\ check'[a] = 0
           \/ rendering[a] = 2 /\ pc'[a] = "rendered"
    BY <1>0, <1>4, <2>a DEF Render, Renderings, Goto, Functional
  <2>3. Announced(ledger', Analysis(a)')
    BY <2>2 DEF Announced, Analysis
  <2>4. Safe(ledger', Analysis(a)')
    <3>1. PassedAll(ledger, Analysis(a)') <=> PassedAll(ledger, Analysis(a))
      BY <2>2 DEF PassedAll, Analysis
    <3>2. head[a] \in 0..Len(ledger)
      BY <1>0, <2>2 DEF Safe, Analysis
    <3>3. mode[a] = "official" =>
            /\ rendering[a] = 2 => PassedAll(ledger, Analysis(a))
            /\ rendering[a] = 1 /\ head[a] = Len(ledger) => PassedAll(ledger, Analysis(a))
      BY <2>2, Completes
    <3>. QED  BY <2>1, <2>2, <3>1, <3>2, <3>3 DEF Safe, Analysis
  <2>. QED  BY <2>1, <2>3, <2>4, StepOfOne DEF Grows, Written
<1>5. CASE RecordCantAnalyze(a)
  <2>1. /\ files' = files /\ Functional' /\ pc'[a] = "idle"
        /\ \A b \in Analysts : b # a => Analysis(b)' = Analysis(b)
    BY <1>0, <1>5 DEF RecordCantAnalyze, Goto, Functional, Analysis
  <2>2. Grows
    BY <1>5 DEF RecordCantAnalyze, CantAnalyze, Grows, EarnedRender
  <2>3. Safe(ledger', Analysis(a)') /\ Announced(ledger', Analysis(a)')
    BY <2>1 DEF Safe, Announced, Analysis
  <2>. QED  BY <2>1, <2>2, <2>3, StepOfOne DEF Written
<1>6. CASE RecordRendered(a)
  <2> DEFINE e == [kind |-> "findings_rendered", mode |-> mode[a], head |-> head[a],
                   data |-> data[a], correction |-> Correction]
  <2>1. /\ files' = files /\ Functional' /\ ledger' = Append(ledger, e) /\ pc[a] = "rendered"
        /\ \A b \in Analysts : b # a => Analysis(b)' = Analysis(b)
        /\ pc'[a] = "recorded" /\ UNCHANGED <<mode, manifest, data, head>>
    <3>1. /\ pc' = [pc EXCEPT ![a] = "recorded"] /\ pc[a] = "rendered" /\ ledger' = Append(ledger, e)
          /\ UNCHANGED <<mode, manifest, data, head, rendering, check, files>>
      BY <1>6 DEF RecordRendered, FindingsRendered, Goto
    <3>. HIDE DEF e
    <3>2. Functional'
      BY <1>0, <3>1 DEF Functional
    <3>3. \A b \in Analysts : b # a => Analysis(b)' = Analysis(b)
      BY <1>0, <3>1 DEF Functional, Analysis
    <3>4. pc'[a] = "recorded"
      BY <1>0, <3>1 DEF Functional
    <3>. QED  BY <3>1, <3>2, <3>3, <3>4
  <2>2. head[a] \in 0..Len(ledger) /\ Len(ledger) \in Nat
    <3>1. Analysis(a).pc = "rendered" /\ Analysis(a).head = head[a] /\ Len(ledger) \in Nat
      BY <1>0, <2>1 DEF Analysis, Typed
    <3>. QED  BY <1>0, <3>1 DEF Safe
  <2>3. ASSUME mode[a] = "official"
        PROVE  EarnedBy(SubSeq(ledger, 1, head[a]), Method[data[a]])
    <3>1. Passed(SubSeq(ledger, 1, head[a]), manifest[a], Method[data[a]], 8)
      BY <1>0, <2>1, <2>3 DEF Safe, Analysis, PassedAll
    <3>2. Typed(SubSeq(ledger, 1, head[a]))
      <4> DEFINE q == SubSeq(ledger, 1, head[a])
      <4>1. ledger \in Seq({ledger[k] : k \in DOMAIN ledger})
        BY <1>0 DEF Typed
      <4>2. /\ q \in Seq({q[k] : k \in DOMAIN q}) /\ Len(q) = head[a]
            /\ \A k \in 1..head[a] : q[k] = ledger[k]
        BY <2>2, <4>1, PrefixOwn
      <4>. HIDE DEF q
      <4>3. \A k \in 1..Len(q) : k \in 1..Len(ledger) /\ q[k] = ledger[k]
        BY <2>2, <4>2
      <4>4. Typed(q)
        BY <1>0, <4>2, <4>3 DEF Typed
      <4>. QED  BY <4>4 DEF q
    <3>. QED  BY <3>1, <3>2, FenceEarns
  <2>4. EarnedRender(ledger, e)
    BY <2>2, <2>3 DEF EarnedRender
  <2>5. Grows
    BY <2>1, <2>4 DEF Grows
  <2>6. Announced(ledger', Analysis(a)')
    <3>1. ledger'[Len(ledger) + 1] = e /\ Len(ledger') = Len(ledger) + 1 /\ Len(ledger) \in Nat
      BY <1>0, <2>1, AppendOwn DEF Typed
    <3>2. IsEventOf(e, Analysis(a)')
      BY <2>1 DEF IsEventOf, Analysis
    <3>. HIDE DEF e
    <3>. QED  BY <3>1, <3>2 DEF Announced
  <2>7. Safe(ledger', Analysis(a)')
    <3>1. Len(ledger') = Len(ledger) + 1 /\ Len(ledger) \in Nat
      BY <1>0, <2>1, AppendOwn DEF Typed
    <3>. HIDE DEF e
    <3>. QED  BY <2>1, <2>2, <3>1 DEF Safe, Analysis
  <2>. QED  BY <2>1, <2>5, <2>6, <2>7, StepOfOne DEF Written
<1>7. CASE WriteFile(a)
  <2>1. PICK k \in 1..3 :
          /\ pc[a] = Writes(a).from[k]
          /\ files' = [files EXCEPT ![Writes(a).name[k]] = Findings(mode[a], head[a], data[a])]
          /\ pc' = [pc EXCEPT ![a] = Writes(a).to[k]]
          /\ UNCHANGED <<ledger, checking, mode, manifest, data, head, rendering, check, runs, faults>>
    BY <1>7 DEF WriteFile, Goto
  <2>2. pc[a] \in {"recorded", "json", "md"} /\ Writes(a).name[k] \in FileNames
    <3>1. mode[a] \in Modes
      BY <1>0 DEF Functional
    <3>2. CASE k = 1
      BY <2>1, <3>2 DEF Writes, FirstWrite, FileNames
    <3>3. CASE k = 2
      BY <2>1, <3>1, <3>3 DEF Writes, FileNames
    <3>4. CASE k = 3
      BY <2>1, <3>1, <3>4 DEF Writes, FileNames
    <3>. QED  BY <3>2, <3>3, <3>4
  <2>3. Functional' /\ \A b \in Analysts : b # a => Analysis(b)' = Analysis(b)
    BY <1>0, <2>1 DEF Functional, Analysis
  <2>4. pc'[a] \in {"json", "md", "idle"}
    <3>1. Writes(a).to[k] \in {"json", "md", "idle"}
      BY DEF Writes
    <3>. QED  BY <1>0, <2>1, <3>1 DEF Functional
  <2>5. Safe(ledger', Analysis(a)')
    BY <1>0, <2>1, <2>2, <2>4 DEF Safe, Analysis
  <2>6. Announced(ledger', Analysis(a)')
    BY <1>0, <2>1, <2>2 DEF Announced, IsEventOf, Analysis
  <2>. QED  BY <2>1, <2>2, <2>3, <2>5, <2>6, StepOfOne DEF Grows, Written
<1>8. CASE Crash(a)
  <2>1. /\ ledger' = ledger /\ files' = files /\ Functional' /\ pc'[a] = "idle"
        /\ \A b \in Analysts : b # a => Analysis(b)' = Analysis(b)
    BY <1>0, <1>8 DEF Crash, Goto, Functional, Analysis
  <2>2. Safe(ledger', Analysis(a)') /\ Announced(ledger', Analysis(a)')
    BY <2>1 DEF Safe, Announced, Analysis
  <2>. QED  BY <2>1, <2>2, StepOfOne DEF Grows, Written
<1>. QED  BY <1>1, <1>2, <1>3, <1>4, <1>5, <1>6, <1>7, <1>8 DEF Analyze

LEMMA StepInv == Inv /\ [Next]_vars => Inv'
<1> SUFFICES ASSUME Inv, [Next]_vars PROVE Inv'
  OBVIOUS
<1>1. ASSUME NEW a \in Analysts, Analyze(a) \/ Crash(a)
      PROVE  Inv'
  BY <1>1, AnalyzeInv
<1>2. CASE BeginSelfcheck \/ RecordSelfcheck \/ OtherAppend \/ UNCHANGED vars
  <2>1. Grows
    <3>1. CASE BeginSelfcheck \/ UNCHANGED vars
      BY <3>1 DEF BeginSelfcheck, vars, Grows
    <3>2. CASE RecordSelfcheck
      <4>1. PICK d \in checking :
              ledger' = Append(ledger, [kind |-> "selfcheck", passed |-> d \in Passes, method |-> Method[d]])
        BY <3>2 DEF RecordSelfcheck, Selfcheck
      <4>. DEFINE e == [kind |-> "selfcheck", passed |-> d \in Passes, method |-> Method[d]]
      <4>2. e.kind = "selfcheck"
        OBVIOUS
      <4>3. EarnedRender(ledger, e) /\ e.kind # "contamination_probe"
        BY <4>2 DEF EarnedRender
      <4>. HIDE DEF e
      <4>4. ledger' = Append(ledger, e)
        BY <4>1 DEF e
      <4>. QED  BY <4>3, <4>4 DEF Grows
    <3>3. CASE OtherAppend
      <4>1. PICK e \in Appendable : ledger' = Append(ledger, e)
        BY <3>3 DEF OtherAppend
      <4>2. /\ e.kind # "findings_rendered"
            /\ e.kind = "contamination_probe" => e.found \subseteq {"asymmetry", "alarm"}
        BY OfficialAssumption DEF DataKinds
      <4>. QED  BY <4>1, <4>2 DEF Grows, EarnedRender
    <3>. QED  BY <1>2, <3>1, <3>2, <3>3
  <2>2. UNCHANGED <<pc, mode, manifest, data, head, rendering, check, files>>
    BY <1>2 DEF BeginSelfcheck, RecordSelfcheck, OtherAppend, vars
  <2>3. /\ Sound(ledger')
        /\ \A s : Safe(ledger, s) => Safe(ledger', s)
        /\ \A s : Announced(ledger, s) => Announced(ledger', s)
        /\ \A x : Backed(ledger, x) => Backed(ledger', x)
    BY <2>1, GrownLedger DEF Inv
  <2>4. Functional'
    BY <2>2 DEF Inv, Functional
  <2>5. \A a \in Analysts : Analysis(a)' = Analysis(a)
    BY <2>2 DEF Analysis
  <2>6. \A a \in Analysts : Safe(ledger, Analysis(a)) /\ Announced(ledger, Analysis(a))
    BY DEF Inv
  <2>7. \A a \in Analysts : Safe(ledger', Analysis(a)') /\ Announced(ledger', Analysis(a)')
    BY <2>3, <2>5, <2>6, Zenon
  <2>8. NoOrphanArtifacts'
    <3>1. \A f \in FileNames : files[f] # NoFile => Backed(ledger, files[f])
      BY DEF Inv, NoOrphanArtifacts, Backed
    <3>2. \A f \in FileNames : files'[f] # NoFile => Backed(ledger', files'[f])
      BY <2>2, <2>3, <3>1
    <3>. QED  BY <3>2 DEF NoOrphanArtifacts, Backed
  <2>. QED  BY <2>3, <2>4, <2>7, <2>8 DEF Inv
<1>. QED  BY <1>1, <1>2 DEF Next

-----------------------------------------------------------------------------
(* EVAL-8 AC-2, D008, F-M-C3: whatever other commands append between any   *)
(* two of its checks, an official render is earned by the ledger that its  *)
(* event names (analyze/findings/fence.py, run under both renderings), and *)
(* what renders is what analyze/fence.py shows ready.                      *)
THEOREM OfficialRendersAreEarned == Spec => []OfficialIsEarned
<1>1. Inv => OfficialIsEarned
  <2> SUFFICES ASSUME Inv PROVE OfficialIsEarned
    OBVIOUS
  <2>1. ASSUME NEW k \in Official
        PROVE  EarnedBy(SubSeq(ledger, 1, ledger[k].head), Method[ledger[k].data])
    <3>1. k \in 1..Len(ledger) /\ ledger[k].kind = "findings_rendered" /\ ledger[k].mode = "official"
      BY DEF Official, Positions
    <3>2. EarnedRender(ledger, ledger[k])
      BY <3>1 DEF Inv, Sound
    <3>. QED  BY <3>1, <3>2 DEF EarnedRender
  <2>2. ASSUME NEW a \in Analysts, pc[a] = "rendered", mode[a] = "official"
        PROVE  OfficialReady(FenceReport(SubSeq(ledger, 1, head[a]), manifest[a], TRUE, TRUE))
    <3>1. PassedAll(ledger, Analysis(a))
      BY <2>2 DEF Inv, Safe, Analysis
    <3>. QED  BY <3>1, PassedIsReady DEF PassedAll, Analysis
  <2>. QED  BY <2>1, <2>2 DEF OfficialIsEarned
<1>. QED  BY <1>1, InitInv, StepInv, PTL DEF Spec

(* AN-3: wherever an analysis dies, each artifact on disk has the event of *)
(* a render of the same findings (analyze/api.py run_analyze).             *)
THEOREM ArtifactsHaveEvents == Spec => []NoOrphanArtifacts
<1>1. Inv => NoOrphanArtifacts
  BY DEF Inv
<1>. QED  BY <1>1, InitInv, StepInv, PTL DEF Spec
=============================================================================
