---------------------------- MODULE GradeProofs ----------------------------
(***************************************************************************)
(* Proofs about Grade, for any trials, tasks, graders, outcomes and number *)
(* of passes: whatever overlapping passes and deaths append to the ledger; *)
(* and about what Evidence says of the texts that are blinded, of the      *)
(* evidence against a trial and of how it is graded, for more inputs than  *)
(* its questions are.                                                      *)
(***************************************************************************)
EXTENDS Grade, Evidence, SequenceLemmas, FiniteSetTheorems, TLAPS

Typed(l) == l \in Seq({l[k] : k \in DOMAIN l})
Answered(l, t) == \E k \in 1..Len(l) : l[k].trial = t /\ IsAnswer(l[k])

(* An override o of a trial t is earned on the ledger l by a pass that had *)
(* read its first n events.                                                *)
EarnedOverride(l, t, o, n) ==
  /\ o \in 1..Len(l) /\ l[o].trial = t /\ IsTerminalRefusal(l[o])
  /\ \A i \in 1..Len(l) : l[i].trial = t /\ i <= n => l[i].kind # "grade" /\ (Settles(l[i]) => i <= o)

(* What a pass knows: a trial that was settled before it began is one it   *)
(* skips or one that it overrides.                                         *)
Working == {"preflight", "mark", "grade"}
Pass(g) == [pc |-> pc[g], skip |-> skip[g], retry |-> retry[g], todo |-> todo[g], began |-> began[g]]
Knows(l, s) ==
  s.pc # "idle" =>
    /\ s.began \in 0..Len(l)
    /\ \A t \in s.skip : Answered(l, t)
    /\ s.pc \in Working \cup {"resolve"}
    /\ \A i \in 1..Len(l) : Settles(l[i]) /\ i <= s.began =>
         l[i].trial \in s.skip \/ (s.pc \in Working /\ l[i].trial \in DOMAIN s.retry)
    /\ s.pc \in Working => \A t \in DOMAIN s.retry : EarnedOverride(l, t, s.retry[t], s.began)
    /\ s.pc \in {"mark", "grade"} =>
         /\ s.todo \subseteq 1..Len(l)
         /\ \A i \in s.todo : l[i].trial \notin s.skip
         /\ \A i \in 1..s.began : l[i].kind = "trial" => i \in s.todo \/ Answered(l, l[i].trial)

(* An answer at j is explained and its override earned by what came before.*)
Explained(l, j) ==
  IsAnswer(l[j]) =>
    /\ l[j].seen \in 0..(j - 1)
    /\ \A i \in 1..(j - 1) : l[i].trial = l[j].trial /\ Settles(l[i]) => l[j].seen < i \/ l[j].over # 0
    /\ l[j].over # 0 =>
         /\ l[j].over \in 1..(j - 1) /\ l[l[j].over].trial = l[j].trial
         /\ IsTerminalRefusal(l[l[j].over])
         /\ \A i \in 1..(j - 1) : l[i].trial = l[j].trial /\ i <= l[j].seen =>
              l[i].kind # "grade" /\ (Settles(l[i]) => i <= l[j].over)

Functional ==
  /\ pc = [g \in Graders |-> pc[g]] /\ skip = [g \in Graders |-> skip[g]]
  /\ retry = [g \in Graders |-> retry[g]] /\ todo = [g \in Graders |-> todo[g]]
  /\ began = [g \in Graders |-> began[g]]

Covers(l, n) == n \in 0..Len(l) /\ \A i \in 1..n : l[i].kind = "trial" => Answered(l, l[i].trial)

Inv ==
  /\ Functional
  /\ Typed(ledger)
  /\ \A j \in 1..Len(ledger) : ledger[j].trial \in Trials /\ Explained(ledger, j)
  /\ \A g \in Graders : Knows(ledger, Pass(g))
  /\ Covers(ledger, covered)

-----------------------------------------------------------------------------
(* What is known of the ledger stays known when it grows.                  *)
LEMMA AppendKnows ==
  ASSUME NEW l, Typed(l), NEW e
  PROVE  /\ Typed(Append(l, e)) /\ Len(Append(l, e)) = Len(l) + 1 /\ Len(l) \in Nat
         /\ \A t : Answered(l, t) => Answered(Append(l, e), t)
         /\ \A s : Knows(l, s) => Knows(Append(l, e), s)
         /\ \A n : Covers(l, n) => Covers(Append(l, e), n)
         /\ \A j \in 1..Len(l) : Explained(l, j) => Explained(Append(l, e), j)
<1> DEFINE q == Append(l, e)
<1>1. /\ q \in Seq({q[k] : k \in DOMAIN q}) /\ Len(q) = Len(l) + 1 /\ Len(l) \in Nat
      /\ \A k \in 1..Len(l) : q[k] = l[k]
      /\ q[Len(l) + 1] = e
  BY AppendOwn DEF Typed
<1>. HIDE DEF q
<1>2. \A t : Answered(l, t) => Answered(q, t)
  BY <1>1 DEF Answered
<1>3. \A t, o : \A n \in 0..Len(l) : EarnedOverride(l, t, o, n) => EarnedOverride(q, t, o, n)
  <2> SUFFICES ASSUME NEW t, NEW o, NEW n \in 0..Len(l), EarnedOverride(l, t, o, n)
               PROVE  EarnedOverride(q, t, o, n)
    OBVIOUS
  <2>1. o \in 1..Len(q) /\ q[o] = l[o]
    BY <1>1 DEF EarnedOverride
  <2>2. \A i \in 1..Len(q) : i <= n => i \in 1..Len(l) /\ q[i] = l[i]
    BY <1>1
  <2>. QED  BY <2>1, <2>2 DEF EarnedOverride
<1>4. \A s : Knows(l, s) => Knows(q, s)
  <2> SUFFICES ASSUME NEW s, Knows(l, s), s.pc # "idle" PROVE Knows(q, s)
    BY DEF Knows
  <2>1. s.began \in 0..Len(l) /\ s.began \in 0..Len(q)
    BY <1>1 DEF Knows
  <2>2. \A i \in 1..Len(q) : i <= s.began => i \in 1..Len(l) /\ q[i] = l[i]
    BY <1>1, <2>1
  <2>3. \A i \in 1..Len(q) : Settles(q[i]) /\ i <= s.began =>
          q[i].trial \in s.skip \/ (s.pc \in Working /\ q[i].trial \in DOMAIN s.retry)
    BY <2>2 DEF Knows
  <2>4. s.pc \in Working => \A t \in DOMAIN s.retry : EarnedOverride(q, t, s.retry[t], s.began)
    BY <1>3, <2>1 DEF Knows
  <2>5. s.pc \in {"mark", "grade"} =>
          /\ s.todo \subseteq 1..Len(q)
          /\ \A i \in s.todo : q[i].trial \notin s.skip
    BY <1>1 DEF Knows
  <2>6. s.pc \in {"mark", "grade"} =>
          \A i \in 1..s.began : q[i].kind = "trial" => i \in s.todo \/ Answered(q, q[i].trial)
    BY <1>1, <1>2, <2>1 DEF Knows
  <2>7. /\ \A t \in s.skip : Answered(q, t)
        /\ s.pc \in Working \cup {"resolve"}
    BY <1>2 DEF Knows
  <2>. QED  BY <2>1, <2>3, <2>4, <2>5, <2>6, <2>7 DEF Knows
<1>5. \A n : Covers(l, n) => Covers(q, n)
  BY <1>1, <1>2 DEF Covers
<1>6. \A j \in 1..Len(l) : Explained(l, j) => Explained(q, j)
  <2> SUFFICES ASSUME NEW j \in 1..Len(l), Explained(l, j), IsAnswer(l[j]) PROVE Explained(q, j)
    BY <1>1 DEF Explained
  <2>1. q[j] = l[j] /\ \A i \in 1..(j - 1) : i \in 1..Len(l) /\ q[i] = l[i]
    BY <1>1
  <2>. QED  BY <2>1 DEF Explained
<1>7. Typed(q)
  BY <1>1 DEF Typed
<1>. QED  BY <1>1, <1>2, <1>4, <1>5, <1>6, <1>7, Zenon DEF q

-----------------------------------------------------------------------------
(* The invariant holds of an empty ledger, before any pass.                *)
LEMMA InitInv == Init => Inv
<1> SUFFICES ASSUME Init PROVE Inv
  OBVIOUS
<1>1. Typed(ledger) /\ Len(ledger) = 0
  BY EmptyOwn DEF Init, Typed
<1>2. Functional
  BY DEF Init, Functional
<1>3. \A g \in Graders : Knows(ledger, Pass(g))
  BY DEF Init, Knows, Pass
<1>4. Covers(ledger, covered)
  BY <1>1 DEF Init, Covers
<1>. QED  BY <1>1, <1>2, <1>3, <1>4 DEF Inv

(* A step that appends nothing keeps what the other passes know.           *)
LEMMA StepOfOne ==
  ASSUME Inv, NEW g \in Graders, UNCHANGED ledger, Functional',
         \A h \in Graders : h # g => Pass(h)' = Pass(h),
         Knows(ledger, Pass(g)'), Covers(ledger, covered')
  PROVE  Inv'
<1>1. ASSUME NEW h \in Graders
      PROVE  Knows(ledger, Pass(h)')
  <2>1. CASE h = g
    BY <2>1
  <2>2. CASE h # g
    <3>1. Pass(h)' = Pass(h) /\ Knows(ledger, Pass(h))
      BY <2>2 DEF Inv
    <3>. QED  BY <3>1, Zenon
  <2>. QED  BY <2>1, <2>2
<1>2. /\ Typed(ledger')
      /\ \A j \in 1..Len(ledger') : ledger'[j].trial \in Trials /\ Explained(ledger', j)
  BY DEF Inv
<1>3. \A h \in Graders : Knows(ledger', Pass(h)')
  BY <1>1
<1>. QED  BY <1>2, <1>3 DEF Inv

(* A pass that ends, whatever it covered, keeps the invariant.             *)
LEMMA LeaveInv ==
  ASSUME Inv, NEW g \in Graders, Leave(g), UNCHANGED ledger, Covers(ledger, covered')
  PROVE  Inv'
<1>1. /\ Functional' /\ pc'[g] = "idle"
      /\ \A h \in Graders : h # g => Pass(h)' = Pass(h)
  BY DEF Inv, Leave, Enter, Functional, Pass
<1>2. Knows(ledger, Pass(g)')
  BY <1>1 DEF Knows, Pass
<1>. QED  BY <1>1, <1>2, StepOfOne

(* A pass begins from what it reads of the ledger: the skip set.           *)
LEMMA BeginInv ==
  ASSUME Inv, NEW g \in Graders, Begin(g)
  PROVE  Inv'
<1>1. PICK named \in Named :
        /\ skip' = [skip EXCEPT ![g] = CompletedTrials]
        /\ began' = [began EXCEPT ![g] = Len(ledger)]
        /\ retry' = [retry EXCEPT ![g] = [t \in named |-> 0]]
        /\ pc' = [pc EXCEPT ![g] = IF named = {} THEN "preflight" ELSE "resolve"]
        /\ UNCHANGED <<ledger, todo, covered>>
  BY DEF Begin, Enter
<1>2. Functional /\ Typed(ledger) /\ Len(ledger) \in Nat /\ DOMAIN ledger = 1..Len(ledger)
  BY DEF Inv, Typed
<1>3. /\ \A t \in CompletedTrials : Answered(ledger, t)
  BY <1>2 DEF CompletedTrials, Positions, Answered, Settles, IsTerminalRefusal, IsAnswer
<1>4. \A i \in 1..Len(ledger) : Settles(ledger[i]) => ledger[i].trial \in CompletedTrials
  <2>1. \A i \in 1..Len(ledger) : ledger[i].trial \in Trials
    BY DEF Inv
  <2>. QED  BY <1>2, <2>1 DEF CompletedTrials, Positions
<1>. HIDE DEF CompletedTrials
<1>5. /\ skip'[g] = CompletedTrials /\ began'[g] = Len(ledger) /\ retry'[g] = [t \in named |-> 0]
      /\ pc'[g] = IF named = {} THEN "preflight" ELSE "resolve"
  BY <1>1, <1>2 DEF Functional
<1>6. Functional'
  BY <1>1, <1>2 DEF Functional
<1>7. \A h \in Graders : h # g => Pass(h)' = Pass(h)
  BY <1>1, <1>2 DEF Functional, Pass
<1>8. Knows(ledger, Pass(g)')
  BY <1>2, <1>3, <1>4, <1>5 DEF Knows, Pass, Working
<1>. QED  BY <1>1, <1>6, <1>7, <1>8, StepOfOne DEF Inv

(* The override resolved is the last refusal of a trial that has no grade. *)
LEMMA ResolveInv ==
  ASSUME Inv, NEW g \in Graders, ResolveOverrides(g)
  PROVE  Inv'
<1> DEFINE named == DOMAIN retry[g]
<1>1. /\ pc[g] = "resolve" /\ \A t \in named : MayOverride(t)
      /\ retry' = [retry EXCEPT ![g] = [t \in named |-> Overridden(t)]]
      /\ skip' = [skip EXCEPT ![g] = @ \ named]
      /\ pc' = [pc EXCEPT ![g] = "preflight"]
      /\ UNCHANGED <<ledger, todo, began, covered, passes>>
  BY DEF ResolveOverrides, Enter
<1>2. Functional /\ Typed(ledger) /\ Len(ledger) \in Nat /\ DOMAIN ledger = 1..Len(ledger)
  BY DEF Inv, Typed
<1>3. ASSUME NEW t \in named
      PROVE  EarnedOverride(ledger, t, Overridden(t), began[g])
  <2>1. TerminalRefusals(t) \in SUBSET (1..Len(ledger)) /\ TerminalRefusals(t) # {} /\ Graded(t) = {}
    BY <1>1, <1>2, <1>3 DEF MayOverride, TerminalRefusals, Positions
  <2>2. \E k \in TerminalRefusals(t) : \A j \in TerminalRefusals(t) : j <= k
    BY <1>2, <2>1, LastPosition
  <2>3. Overridden(t) \in TerminalRefusals(t) /\ \A j \in TerminalRefusals(t) : j <= Overridden(t)
    <3>1. \A j, k \in TerminalRefusals(t) : j <= k <=> k >= j
      BY <1>2, <2>1
    <3>2. \E k \in TerminalRefusals(t) : \A j \in TerminalRefusals(t) : k >= j
      BY <2>2, <3>1
    <3>3. Overridden(t) \in TerminalRefusals(t) /\ \A j \in TerminalRefusals(t) : Overridden(t) >= j
      BY <3>2 DEF Overridden, Max
    <3>. QED  BY <3>1, <3>3
  <2>4. \A i \in 1..Len(ledger) : (i \in Graded(t)) <=> (ledger[i].trial = t /\ ledger[i].kind = "grade")
    BY <1>2 DEF Graded, Positions
  <2>4a. \A i \in 1..Len(ledger) : (i \in TerminalRefusals(t)) <=> (ledger[i].trial = t /\ IsTerminalRefusal(ledger[i]))
    BY <1>2 DEF TerminalRefusals, Positions
  <2>. HIDE DEF TerminalRefusals, Graded, Overridden, IsTerminalRefusal, named
  <2>5. \A i \in 1..Len(ledger) : ledger[i].trial = t /\ Settles(ledger[i]) => i \in TerminalRefusals(t)
    <3> SUFFICES ASSUME NEW i \in 1..Len(ledger), ledger[i].trial = t, Settles(ledger[i])
                 PROVE  i \in TerminalRefusals(t)
      OBVIOUS
    <3>1. i \notin Graded(t)
      BY <2>1
    <3>2. ledger[i].kind # "grade"
      BY <2>4, <3>1
    <3>3. IsTerminalRefusal(ledger[i])
      BY <3>2 DEF Settles
    <3>. QED  BY <2>4a, <3>3
  <2>6. \A i \in 1..Len(ledger) : ledger[i].trial = t => ledger[i].kind # "grade"
    BY <2>1, <2>4
  <2> DEFINE o == Overridden(t)
  <2>7. o \in 1..Len(ledger) /\ ledger[o].trial = t /\ IsTerminalRefusal(ledger[o])
    <3>1. o \in 1..Len(ledger) /\ o \in TerminalRefusals(t)
      BY <2>1, <2>3
    <3>. QED  BY <2>4a, <3>1
  <2>8. \A i \in 1..Len(ledger) : ledger[i].trial = t /\ i <= began[g] =>
          ledger[i].kind # "grade" /\ (Settles(ledger[i]) => i <= o)
    BY <2>3, <2>5, <2>6
  <2>. QED  BY <2>7, <2>8 DEF EarnedOverride
<1>. HIDE DEF Overridden
<1>4. /\ skip'[g] = skip[g] \ named /\ began'[g] = began[g] /\ pc'[g] = "preflight"
      /\ retry'[g] = [t \in named |-> Overridden(t)]
  BY <1>1, <1>2 DEF Functional
<1>5. Functional'
  BY <1>1, <1>2 DEF Functional
<1>6. \A h \in Graders : h # g => Pass(h)' = Pass(h)
  BY <1>1, <1>2 DEF Functional, Pass
<1>7. Knows(ledger, Pass(g)')
  <2>1. Knows(ledger, Pass(g))
    BY DEF Inv
  <2>2. \A t \in DOMAIN retry'[g] : EarnedOverride(ledger, t, retry'[g][t], began'[g])
    BY <1>3, <1>4
  <2>3. DOMAIN retry'[g] = named
    BY <1>4
  <2>. QED  BY <1>1, <1>4, <2>1, <2>2, <2>3 DEF Knows, Pass, Working
<1>. QED  BY <1>1, <1>5, <1>6, <1>7, StepOfOne DEF Inv

(* The probe of the grader decides how the pass goes on, not what it       *)
(* knows.                                                                  *)
LEMMA PreflightInv ==
  ASSUME Inv, NEW g \in Graders, Preflight(g)
  PROVE  Inv'
<1>1. /\ pc[g] = "preflight" /\ todo' = [todo EXCEPT ![g] = Pending(g)]
      /\ pc' = [pc EXCEPT ![g] = "grade"] \/ pc' = [pc EXCEPT ![g] = "mark"]
      /\ UNCHANGED <<ledger, skip, retry, began, covered>>
  BY DEF Preflight, Enter
<1>2. Functional /\ Typed(ledger) /\ Len(ledger) \in Nat /\ DOMAIN ledger = 1..Len(ledger)
  BY DEF Inv, Typed
<1>3. /\ Functional' /\ todo'[g] = Pending(g) /\ pc'[g] \in {"grade", "mark"}
      /\ \A h \in Graders : h # g => Pass(h)' = Pass(h)
  BY <1>1, <1>2 DEF Functional, Pass
<1>4. Knows(ledger, Pass(g)')
  <2>1. Knows(ledger, Pass(g))
    BY DEF Inv
  <2>2. Pending(g) = {i \in 1..Len(ledger) : ledger[i].kind = "trial" /\ ledger[i].trial \notin skip[g]}
    BY <1>2 DEF Pending, TrialsNow
  <2>. QED  BY <1>1, <1>2, <1>3, <2>1, <2>2 DEF Knows, Pass, Working
<1>. QED  BY <1>1, <1>3, <1>4, StepOfOne DEF Inv

-----------------------------------------------------------------------------
(* An answer: it is explained, and what the passes know stays known.       *)
LEMMA AnswerInv ==
  ASSUME Inv, NEW g \in Graders, pc[g] \in {"mark", "grade"}, NEW i \in todo[g], NEW result,
         Answer(g, i, result)
  PROVE  Inv'
<1> DEFINE t == ledger[i].trial
           e == GradeEvent(t, result, OverrideOf(g, t), began[g])
           n == Len(ledger) + 1
<1>0. Functional /\ Typed(ledger) /\ Knows(ledger, Pass(g)) /\ Len(ledger) \in Nat
  BY DEF Inv, Typed
<1>1. /\ ledger' = Append(ledger, e) /\ todo' = [todo EXCEPT ![g] = @ \ {i}]
      /\ UNCHANGED <<pc, skip, retry, began, covered>>
  BY DEF Answer
<1>2. /\ Typed(ledger') /\ Len(ledger') = n
      /\ \A u : Answered(ledger, u) => Answered(ledger', u)
      /\ \A s : Knows(ledger, s) => Knows(ledger', s)
      /\ \A m : Covers(ledger, m) => Covers(ledger', m)
      /\ \A j \in 1..Len(ledger) : Explained(ledger, j) => Explained(ledger', j)
  BY <1>0, <1>1, AppendKnows
<1>3. /\ \A k \in 1..Len(ledger) : ledger'[k] = ledger[k]
      /\ ledger'[n] = e
  BY <1>0, <1>1, AppendOwn DEF Typed
<1>4. /\ e.trial = t /\ e.seen = began[g] /\ e.over = OverrideOf(g, t) /\ IsAnswer(e)
  BY DEF GradeEvent, IsAnswer
<1>5. /\ began[g] \in 0..Len(ledger) /\ i \in 1..Len(ledger) /\ t \notin skip[g]
      /\ \A k \in 1..Len(ledger) : Settles(ledger[k]) /\ k <= began[g] =>
            ledger[k].trial \in skip[g] \/ ledger[k].trial \in DOMAIN retry[g]
      /\ \A u \in DOMAIN retry[g] : EarnedOverride(ledger, u, retry[g][u], began[g])
  BY <1>0 DEF Knows, Pass, Working
<1>6. /\ t \in DOMAIN retry[g] => OverrideOf(g, t) = retry[g][t] /\ OverrideOf(g, t) # 0
      /\ t \notin DOMAIN retry[g] => OverrideOf(g, t) = 0
  BY <1>0, <1>5 DEF OverrideOf, EarnedOverride
<1>. HIDE DEF e, t
<1>7. Explained(ledger', n)
  <2>1. \A k \in 1..(n - 1) : k \in 1..Len(ledger) /\ ledger'[k] = ledger[k]
    BY <1>0, <1>3
  <2>2. \A k \in 1..(n - 1) : ledger'[k].trial = t /\ Settles(ledger'[k]) => began[g] < k \/ OverrideOf(g, t) # 0
    BY <1>0, <1>5, <1>6, <2>1
  <2>3. ASSUME OverrideOf(g, t) # 0
        PROVE  LET o == OverrideOf(g, t) IN
               /\ o \in 1..(n - 1) /\ ledger'[o].trial = t /\ IsTerminalRefusal(ledger'[o])
               /\ \A k \in 1..(n - 1) : ledger'[k].trial = t /\ k <= began[g] =>
                    ledger'[k].kind # "grade" /\ (Settles(ledger'[k]) => k <= o)
    <3> DEFINE o == OverrideOf(g, t)
    <3>1. EarnedOverride(ledger, t, o, began[g])
      BY <1>5, <1>6, <2>3
    <3>. HIDE DEF o
    <3>2. o \in 1..(n - 1) /\ ledger'[o] = ledger[o]
      BY <1>0, <2>1, <3>1 DEF EarnedOverride
    <3>3. /\ o \in 1..(n - 1) /\ ledger'[o].trial = t /\ IsTerminalRefusal(ledger'[o])
          /\ \A k \in 1..(n - 1) : ledger'[k].trial = t /\ k <= began[g] =>
                ledger'[k].kind # "grade" /\ (Settles(ledger'[k]) => k <= o)
      BY <2>1, <3>1, <3>2 DEF EarnedOverride
    <3>. QED  BY <3>3 DEF o
  <2>4. began[g] \in 0..(n - 1)
    BY <1>0, <1>5
  <2>. QED  BY <1>3, <1>4, <2>2, <2>3, <2>4 DEF Explained
<1>8. \A j \in 1..Len(ledger') : ledger'[j].trial \in Trials /\ Explained(ledger', j)
  <2>1. \A j \in 1..Len(ledger) : ledger[j].trial \in Trials /\ Explained(ledger, j)
    BY DEF Inv
  <2>2. t \in Trials
    BY <1>5, <2>1 DEF t
  <2>3. \A j \in 1..Len(ledger') : j \in 1..Len(ledger) \/ j = n
    BY <1>0, <1>2
  <2>4. ledger'[n].trial \in Trials
    BY <1>3, <1>4, <2>2
  <2>. QED  BY <1>2, <1>3, <1>7, <2>1, <2>3, <2>4
<1>9. Answered(ledger', t)
  <2>1. n \in 1..Len(ledger')
    BY <1>0, <1>2
  <2>. QED  BY <1>3, <1>4, <2>1 DEF Answered
<1>10. ASSUME NEW h \in Graders
       PROVE  Knows(ledger', Pass(h)')
  <2>1. Knows(ledger', Pass(h))
    BY <1>2 DEF Inv
  <2>2. CASE h # g
    <3>1. Pass(h)' = Pass(h)
      BY <1>0, <1>1, <2>2 DEF Functional, Pass
    <3>. QED  BY <2>1, <3>1, Zenon
  <2>3. CASE h = g
    <3>1. todo'[g] = todo[g] \ {i}
      BY <1>0, <1>1 DEF Functional
    <3>2. ledger'[i].trial = t
      BY <1>3, <1>5 DEF t
    <3>. QED  BY <1>1, <1>9, <2>1, <2>3, <3>1, <3>2 DEF Knows, Pass
  <2>. QED  BY <2>2, <2>3
<1>11. Functional'
  BY <1>0, <1>1 DEF Functional
<1>12. Covers(ledger', covered')
  <2>1. Covers(ledger, covered) /\ covered' = covered
    BY <1>1 DEF Inv
  <2>. QED  BY <1>2, <2>1
<1>. QED  BY <1>2, <1>8, <1>10, <1>11, <1>12 DEF Inv

(* A trial that ends under a pass is one that the pass did not see.        *)
LEMMA TrialEndsInv ==
  ASSUME Inv, NEW t \in Trials, TrialEnds(t)
  PROVE  Inv'
<1> DEFINE e == TrialEvent(t)
<1>0. Functional /\ Typed(ledger) /\ Len(ledger) \in Nat
  BY DEF Inv, Typed
<1>1. ledger' = Append(ledger, e) /\ UNCHANGED <<pc, skip, retry, todo, began, covered>>
  BY DEF TrialEnds, pass
<1>2. /\ Typed(ledger') /\ Len(ledger') = Len(ledger) + 1
      /\ \A s : Knows(ledger, s) => Knows(ledger', s)
      /\ \A m : Covers(ledger, m) => Covers(ledger', m)
      /\ \A j \in 1..Len(ledger) : Explained(ledger, j) => Explained(ledger', j)
  BY <1>0, <1>1, AppendKnows
<1>3. /\ \A k \in 1..Len(ledger) : ledger'[k] = ledger[k]
      /\ ledger'[Len(ledger) + 1] = e
  BY <1>0, <1>1, AppendOwn DEF Typed
<1>4. e.trial \in Trials /\ ~IsAnswer(e)
  BY DEF TrialEvent, IsAnswer
<1>. HIDE DEF e
<1>5. \A j \in 1..Len(ledger') : ledger'[j].trial \in Trials /\ Explained(ledger', j)
  <2>1. \A j \in 1..Len(ledger) : ledger[j].trial \in Trials /\ Explained(ledger, j)
    BY DEF Inv
  <2>2. \A j \in 1..Len(ledger') : j \in 1..Len(ledger) \/ j = Len(ledger) + 1
    BY <1>0, <1>2
  <2>3. Explained(ledger', Len(ledger) + 1)
    BY <1>3, <1>4 DEF Explained
  <2>. QED  BY <1>2, <1>3, <1>4, <2>1, <2>2, <2>3
<1>6. \A g \in Graders : Knows(ledger', Pass(g)')
  <2>1. \A g \in Graders : Pass(g)' = Pass(g) /\ Knows(ledger, Pass(g))
    BY <1>1 DEF Pass, Inv
  <2>. QED  BY <1>2, <2>1, Zenon
<1>7. Functional'
  BY <1>0, <1>1 DEF Functional
<1>8. Covers(ledger', covered')
  <2>1. Covers(ledger, covered) /\ covered' = covered
    BY <1>1 DEF Inv
  <2>. QED  BY <1>2, <2>1
<1>. QED  BY <1>2, <1>5, <1>6, <1>7, <1>8 DEF Inv

(* A pass that came to its end has answered for what it had read.          *)
LEMMA FinishInv ==
  ASSUME Inv, NEW g \in Graders, Finish(g)
  PROVE  Inv'
<1>1. /\ pc[g] \in {"mark", "grade"} /\ todo[g] = {} /\ covered' = Max({covered, began[g]})
      /\ Leave(g) /\ UNCHANGED ledger
  BY DEF Finish
<1>2. Covers(ledger, covered) /\ Knows(ledger, Pass(g)) /\ Len(ledger) \in Nat
  BY DEF Inv, Typed
<1>3. Covers(ledger, began[g])
  BY <1>1, <1>2 DEF Knows, Pass, Covers
<1>4. covered' \in {covered, began[g]}
  <2>1. covered \in Nat /\ began[g] \in Nat
    BY <1>2, <1>3 DEF Covers
  <2>2. \E x \in {covered, began[g]} : \A y \in {covered, began[g]} : x >= y
    BY <2>1
  <2>. QED  BY <1>1, <2>2 DEF Max
<1>5. Covers(ledger, covered')
  BY <1>2, <1>3, <1>4
<1>. QED  BY <1>1, <1>5, LeaveInv

(* Every step of every process keeps the invariant.                        *)
LEMMA StepInv == Inv /\ [Next]_vars => Inv'
<1> SUFFICES ASSUME Inv, [Next]_vars PROVE Inv'
  OBVIOUS
<1>1. ASSUME NEW g \in Graders,
             \/ Begin(g) \/ ResolveOverrides(g) \/ RefuseOverrides(g) \/ Preflight(g)
             \/ MarkUnavailable(g) \/ Attempt(g) \/ Finish(g) \/ Dies(g)
      PROVE  Inv'
  <2>1. CASE Begin(g)
    BY <2>1, BeginInv
  <2>2. CASE ResolveOverrides(g)
    BY <2>2, ResolveInv
  <2>3. CASE RefuseOverrides(g) \/ Dies(g)
    <3>1. Leave(g) /\ UNCHANGED ledger /\ covered' = covered
      BY <2>3 DEF RefuseOverrides, Dies
    <3>2. Covers(ledger, covered')
      BY <3>1 DEF Inv
    <3>. QED  BY <3>1, <3>2, LeaveInv
  <2>4. CASE Preflight(g)
    BY <2>4, PreflightInv
  <2>5. CASE MarkUnavailable(g) \/ Attempt(g)
    <3>1. PICK i \in todo[g] : \E result : Answer(g, i, result) /\ pc[g] \in {"mark", "grade"}
      BY <2>5 DEF MarkUnavailable, Attempt
    <3>2. PICK result : Answer(g, i, result) /\ pc[g] \in {"mark", "grade"}
      BY <3>1
    <3>. QED  BY <3>2, AnswerInv
  <2>6. CASE Finish(g)
    BY <2>6, FinishInv
  <2>. QED  BY <1>1, <2>1, <2>2, <2>3, <2>4, <2>5, <2>6
<1>2. ASSUME NEW t \in Trials, TrialEnds(t)
      PROVE  Inv'
  BY <1>2, TrialEndsInv
<1>3. CASE UNCHANGED vars
  <2>1. UNCHANGED <<ledger, pc, skip, retry, todo, began, covered>>
    BY <1>3 DEF vars, pass
  <2>. QED  BY <2>1 DEF Inv, Functional, Typed, Pass
<1>. QED  BY <1>1, <1>2, <1>3 DEF Next

-----------------------------------------------------------------------------
(* A trial gets a second outcome after a settling one only from a pass     *)
(* that began before it, or was told to try again (grade/api.py).          *)
THEOREM SecondOutcomesAreExplained == Spec => []SecondOutcomesExplained
<1>1. Inv => SecondOutcomesExplained
  <2> SUFFICES ASSUME Inv, NEW j \in DOMAIN ledger, IsAnswer(ledger[j]),
                      NEW i \in Positions(ledger[j].trial, Settles), i < j
               PROVE  ledger[j].seen < i \/ ledger[j].over # 0
    BY DEF SecondOutcomesExplained
  <2>1. j \in 1..Len(ledger) /\ i \in 1..(j - 1) /\ ledger[i].trial = ledger[j].trial /\ Settles(ledger[i])
    BY DEF Inv, Typed, Positions
  <2>2. Explained(ledger, j)
    BY <2>1 DEF Inv
  <2>. QED  BY <2>1, <2>2 DEF Explained
<1>. QED  BY <1>1, InitInv, StepInv, PTL DEF Spec

(* --retry-terminal: an override names the last refusal its pass could     *)
(* know, of that trial, and never a grade (grade/api.py).                  *)
THEOREM OverridesAreOfRefusals == Spec => []OverridesAreEarned
<1>1. Inv => OverridesAreEarned
  <2> SUFFICES ASSUME Inv, NEW j \in DOMAIN ledger, IsAnswer(ledger[j]), ledger[j].over # 0
               PROVE  /\ ledger[j].over \in Positions(ledger[j].trial, IsTerminalRefusal) /\ ledger[j].over < j
                      /\ \A i \in Positions(ledger[j].trial, Settles) : i <= ledger[j].seen => i <= ledger[j].over
                      /\ \A i \in Graded(ledger[j].trial) : i > ledger[j].seen
    BY DEF OverridesAreEarned
  <2>1. j \in 1..Len(ledger) /\ DOMAIN ledger = 1..Len(ledger) /\ Len(ledger) \in Nat
    BY DEF Inv, Typed
  <2>2. Explained(ledger, j)
    BY <2>1 DEF Inv
  <2>3. /\ ledger[j].seen \in 0..(j - 1) /\ ledger[j].over \in 1..(j - 1)
        /\ ledger[ledger[j].over].trial = ledger[j].trial /\ IsTerminalRefusal(ledger[ledger[j].over])
        /\ \A i \in 1..(j - 1) : ledger[i].trial = ledger[j].trial /\ i <= ledger[j].seen =>
             ledger[i].kind # "grade" /\ (Settles(ledger[i]) => i <= ledger[j].over)
    BY <2>2 DEF Explained
  <2>4. ledger[j].over \in Positions(ledger[j].trial, IsTerminalRefusal) /\ ledger[j].over < j
    BY <2>1, <2>3 DEF Positions
  <2>5. ASSUME NEW i \in Positions(ledger[j].trial, Settles), i <= ledger[j].seen
        PROVE  i <= ledger[j].over
    <3>1. i \in 1..(j - 1) /\ ledger[i].trial = ledger[j].trial /\ Settles(ledger[i])
      BY <2>1, <2>3, <2>5 DEF Positions
    <3>. QED  BY <2>3, <2>5, <3>1
  <2>6. ASSUME NEW i \in Graded(ledger[j].trial)
        PROVE  i > ledger[j].seen
    <3>1. i \in 1..Len(ledger) /\ ledger[i].trial = ledger[j].trial /\ ledger[i].kind = "grade"
      BY <2>1 DEF Graded, Positions
    <3>. QED  BY <2>1, <2>3, <3>1
  <2>. QED  BY <2>4, <2>5, <2>6
<1>. QED  BY <1>1, InitInv, StepInv, PTL DEF Spec

(* A pass that came to its end leaves no trial that it could see without   *)
(* an event (grade/api.py, grade/deterministic.py).                        *)
THEOREM TrialsAreAnswered == Spec => []NoTrialUnanswered
<1>1. Inv => NoTrialUnanswered
  <2> SUFFICES ASSUME Inv, NEW i \in 1..covered, ledger[i].kind = "trial"
               PROVE  Positions(ledger[i].trial, IsAnswer) # {}
    BY DEF NoTrialUnanswered
  <2>1. Answered(ledger, ledger[i].trial) /\ DOMAIN ledger = 1..Len(ledger)
    BY DEF Inv, Covers, Typed
  <2>. QED  BY <2>1 DEF Answered, Positions
<1>. QED  BY <1>1, InitInv, StepInv, PTL DEF Spec

-----------------------------------------------------------------------------
(* Blinding: what a pattern list makes of a text (blind/core.py), and what *)
(* the judge is sent of a pair (judge/packet.py).                          *)

(* g lists what is left of a text after each of its n patterns.            *)
ScrubSteps(n, patterns, text, g) ==
  /\ g[0] = text /\ g[n] = Blind!Scrub(patterns, text)
  /\ \A k \in 1..n : g[k] = Blind!ScrubOne(g[k - 1], patterns[k])

(* Each pattern is applied to what the ones before it made of the text.    *)
LEMMA ScrubFolds ==
  ASSUME NEW n \in Nat, NEW patterns, DOMAIN patterns = 1..n, NEW D, NEW X, NEW text \in [D -> X]
  PROVE  \E g : ScrubSteps(n, patterns, text, g)
<1> DEFINE V == [D -> X \cup {Blind!Mark}]
           step == [k \in 1..n |-> [v \in V |-> Blind!ScrubOne(v, patterns[k])]]
           iter[s \in SUBSET (DOMAIN patterns)] ==
             IF s = {} THEN text ELSE LET x == Blind!Max(s) IN Blind!ScrubOne(iter[s \ {x}], patterns[x])
<1>1. Blind!Scrub(patterns, text) = iter[DOMAIN patterns]
  BY DEF Blind!Scrub, Blind!FoldLeft, Blind!MapThenFoldSet
<1>2. text \in V
  OBVIOUS
<1>3. \A v \in V : \A k \in 1..n : Blind!ScrubOne(v, patterns[k]) \in V
  BY DEF Blind!ScrubOne
<1>4. step \in [1..n -> [V -> V]]
  BY <1>3
<1>5. PICK f \in [SUBSET (1..n) -> V] : FoldOver(n, text, step, f)
  <2>. HIDE DEF V, step
  <2>. QED  BY <1>2, <1>4, FoldsExist
<1>6. \A s : Blind!Max(s) = Greatest(s)
  BY DEF Blind!Max, Greatest
<1>7. f = [s \in SUBSET (DOMAIN patterns) |->
             IF s = {} THEN text ELSE LET x == Blind!Max(s) IN Blind!ScrubOne(f[s \ {x}], patterns[x])]
  <2> SUFFICES ASSUME NEW s \in SUBSET (1..n)
               PROVE  f[s] = IF s = {} THEN text ELSE Blind!ScrubOne(f[s \ {Greatest(s)}], patterns[Greatest(s)])
    BY <1>6
  <2>1. CASE s = {}
    BY <1>5, <2>1 DEF FoldOver
  <2>2. CASE s # {}
    <3>1. f[s] = step[Greatest(s)][f[s \ {Greatest(s)}]]
      BY <1>5, <2>2 DEF FoldOver
    <3>2. Greatest(s) \in 1..n
      BY <2>2, GreatestOfSome
    <3>3. f[s \ {Greatest(s)}] \in V
      OBVIOUS
    <3>. QED  BY <2>2, <3>1, <3>2, <3>3
  <2>. QED  BY <2>1, <2>2
<1>8. iter = [s \in SUBSET (DOMAIN patterns) |->
             IF s = {} THEN text ELSE LET x == Blind!Max(s) IN Blind!ScrubOne(iter[s \ {x}], patterns[x])]
  <2>. HIDE DEF V, step
  <2>. QED  BY <1>7, Zenon
<1>. HIDE DEF iter, step
<1>9. /\ iter[{}] = text
      /\ \A k \in 1..n : iter[1..k] = Blind!ScrubOne(iter[1..(k - 1)], patterns[k])
  <2>1. {} \in SUBSET (DOMAIN patterns)
    OBVIOUS
  <2>2. ASSUME NEW k \in 1..n
        PROVE  iter[1..k] = Blind!ScrubOne(iter[1..(k - 1)], patterns[k])
    <3>1. 1..k \in SUBSET (1..n) /\ 1..k # {} /\ k \in 1..k /\ (1..k) \ {k} = 1..(k - 1)
      <4>1. k \in Nat /\ 1 <= k /\ k <= n
        OBVIOUS
      <4>. QED  BY ONLY <4>1, n \in Nat
    <3>2. Blind!Max(1..k) = k
      BY <1>6, <3>1, GreatestOfInterval
    <3>. QED  BY <1>8, <3>1, <3>2
  <2>. QED  BY <1>8, <2>1, <2>2
<1> DEFINE g == [k \in 0..n |-> iter[1..k]]
<1>10. g[0] = text /\ g[n] = Blind!Scrub(patterns, text)
  <2>1. 1..0 = {}
    OBVIOUS
  <2>. QED  BY <1>1, <1>9, <2>1
<1>11. \A k \in 1..n : g[k] = Blind!ScrubOne(g[k - 1], patterns[k])
  BY <1>9
<1> DEFINE P == {k \in 0..n : g[k] \in V}
<1>12. 0 \in P
  BY <1>2, <1>10
<1>13. \A k \in 0..n : k \in P \cup {n + 1} => k + 1 \in P \cup {n + 1}
  <2> SUFFICES ASSUME NEW k \in 0..n, k \in P, k # n
               PROVE  g[k + 1] \in V
    OBVIOUS
  <2>1. k + 1 \in 1..n /\ (k + 1) - 1 = k
    OBVIOUS
  <2>2. g[k + 1] = Blind!ScrubOne(g[k], patterns[k + 1])
    BY <1>11, <2>1
  <2>. HIDE DEF g, V
  <2>. QED  BY <1>3, <2>1, <2>2
<1>14. \A k \in 0..n : g[k] \in V
  <2>1. ASSUME NEW k \in 0..n PROVE g[k] \in V
    <3> DEFINE Q == P \cup {n + 1}
    <3>1. k \in Nat /\ 0 \in Q /\ \A j \in 0..k : j \in Q => j + 1 \in Q
      BY <1>12, <1>13
    <3>. HIDE DEF Q
    <3>2. k \in Q
      BY <3>1, UpTo
    <3>. QED  BY <3>2 DEF Q
  <2>. QED  BY <2>1
<1>. HIDE DEF g
<1>. QED  BY <1>10, <1>11, <1>14 DEF ScrubSteps

(* A fragment that some pattern matches becomes the mark, every other one  *)
(* stays what it was.                                                      *)
Scrubbed(n, patterns, text, out) ==
  /\ n \in Nat /\ DOMAIN patterns = 1..n
  /\ Blind!Range(patterns) = {patterns[k] : k \in 1..n}
  /\ DOMAIN out = DOMAIN text
  /\ \A i \in DOMAIN text :
       out[i] = IF \E k \in 1..n : text[i] \in patterns[k] THEN Blind!Mark ELSE text[i]

(* A symbol is the mark if some pattern has it, and is kept otherwise.     *)
LEMMA ScrubIs ==
  ASSUME NEW n \in Nat, NEW patterns, DOMAIN patterns = 1..n, NEW D, NEW X, NEW text \in [D -> X]
  PROVE  Scrubbed(n, patterns, text, Blind!Scrub(patterns, text))
<1>0. \E g : ScrubSteps(n, patterns, text, g)
  BY ScrubFolds
<1>1. PICK g : /\ g[0] = text /\ g[n] = Blind!Scrub(patterns, text)
               /\ \A k \in 1..n : g[k] = Blind!ScrubOne(g[k - 1], patterns[k])
  BY <1>0 DEF ScrubSteps
<1> DEFINE Upto(k) == [i \in D |-> IF \E j \in 1..k : text[i] \in patterns[j] THEN Blind!Mark ELSE text[i]]
           Q == {k \in 0..n : g[k] = Upto(k)} \cup {n + 1}
<1>2. 0 \in Q
  <2>1. text = Upto(0)
    OBVIOUS
  <2>. QED  BY <1>1, <2>1
<1>3. ASSUME NEW k \in 0..n, k \in Q PROVE k + 1 \in Q
  <2>1. CASE k = n
    BY <2>1
  <2>2. CASE k # n
    <3>1. k + 1 \in 1..n /\ k + 1 \in 0..n /\ (k + 1) - 1 = k /\ k \in Nat /\ k # n + 1
      BY <2>2
    <3>2. g[k] = Upto(k) /\ g[k + 1] = Blind!ScrubOne(g[k], patterns[k + 1])
      BY <1>1, <1>3, <3>1
    <3>3. g[k + 1] = [i \in D |-> IF g[k][i] \in patterns[k + 1] THEN Blind!Mark ELSE g[k][i]]
      BY <3>2 DEF Blind!ScrubOne
    <3>4. \A i \in D : g[k][i] = IF \E j \in 1..k : text[i] \in patterns[j] THEN Blind!Mark ELSE text[i]
      BY <3>2
    <3>5. \A i \in D : (\E j \in 1..(k + 1) : text[i] \in patterns[j]) <=>
                       (\E j \in 1..k : text[i] \in patterns[j]) \/ text[i] \in patterns[k + 1]
      <4>1. \A j : j \in 1..(k + 1) <=> j \in 1..k \/ j = k + 1
        BY <3>1
      <4>. QED  BY <4>1, Zenon
    <3>6. \A i \in D : (IF g[k][i] \in patterns[k + 1] THEN Blind!Mark ELSE g[k][i]) =
                       IF \E j \in 1..(k + 1) : text[i] \in patterns[j] THEN Blind!Mark ELSE text[i]
      BY <3>4, <3>5
    <3>7. g[k + 1] = Upto(k + 1)
      BY <3>3, <3>6
    <3>. QED  BY <3>1, <3>7
  <2>. QED  BY <2>1, <2>2
<1>. HIDE DEF Q
<1>4. \A k \in 0..n : k \in Q => k + 1 \in Q
  BY <1>3
<1>5. n \in Q
  BY <1>2, <1>4, UpTo
<1>6. g[n] = Upto(n)
  BY <1>5 DEF Q
<1>7. Blind!Range(patterns) = {patterns[k] : k \in 1..n}
  BY DEF Blind!Range
<1> DEFINE out == Blind!Scrub(patterns, text)
<1>8. out = Upto(n) /\ DOMAIN text = D
  BY <1>1, <1>6
<1>. HIDE DEF out
<1>9. /\ DOMAIN out = D
      /\ \A i \in D : out[i] = IF \E k \in 1..n : text[i] \in patterns[k] THEN Blind!Mark ELSE text[i]
  BY <1>8
<1>. QED  BY <1>7, <1>8, <1>9 DEF Scrubbed, out

(* The literals of the arms: each is one of those that have a pattern.     *)
Names == {"alpha", "beta", "red", "m1", "m2"}
(* Literals that are added one after another are names.                    *)
LEMMA AddedLiterals ==
  ASSUME NEW n \in Nat, NEW lits, DOMAIN lits = 1..n, \A k \in 1..n : lits[k] \in Names \cup {Null}
  PROVE  Blind!FoldLeft(Blind!AddLiteral, <<>>, lits) \in Seq(Names)
<1> DEFINE V == Seq(Names)
           step == [k \in 1..n |-> [v \in V |-> Blind!AddLiteral(v, lits[k])]]
           iter[s \in SUBSET (DOMAIN lits)] ==
             IF s = {} THEN <<>> ELSE LET x == Blind!Max(s) IN Blind!AddLiteral(iter[s \ {x}], lits[x])
<1>1. Blind!FoldLeft(Blind!AddLiteral, <<>>, lits) = iter[DOMAIN lits]
  BY DEF Blind!FoldLeft, Blind!MapThenFoldSet
<1>2. <<>> \in V
  OBVIOUS
<1>3. \A v \in V : \A k \in 1..n : Blind!AddLiteral(v, lits[k]) \in V
  <2> SUFFICES ASSUME NEW v \in V, NEW k \in 1..n, lits[k] # Null
               PROVE  Append(v, lits[k]) \in V
    BY DEF Blind!AddLiteral
  <2>. QED  OBVIOUS
<1>4. step \in [1..n -> [V -> V]]
  BY <1>3
<1>5. PICK f \in [SUBSET (1..n) -> V] : FoldOver(n, <<>>, step, f)
  <2>. HIDE DEF V, step
  <2>. QED  BY <1>2, <1>4, FoldsExist
<1>6. \A s : Blind!Max(s) = Greatest(s)
  BY DEF Blind!Max, Greatest
<1>. HIDE DEF V
<1>7. f = [s \in SUBSET (DOMAIN lits) |->
             IF s = {} THEN <<>> ELSE LET x == Blind!Max(s) IN Blind!AddLiteral(f[s \ {x}], lits[x])]
  <2> SUFFICES ASSUME NEW s \in SUBSET (1..n)
               PROVE  f[s] = IF s = {} THEN <<>> ELSE Blind!AddLiteral(f[s \ {Greatest(s)}], lits[Greatest(s)])
    BY <1>6
  <2>1. CASE s = {}
    BY <1>5, <2>1 DEF FoldOver
  <2>2. CASE s # {}
    <3>1. f[s] = step[Greatest(s)][f[s \ {Greatest(s)}]]
      BY <1>5, <2>2 DEF FoldOver
    <3>2. Greatest(s) \in 1..n
      BY <2>2, GreatestOfSome
    <3>3. f[s \ {Greatest(s)}] \in V
      OBVIOUS
    <3>. QED  BY <2>2, <3>1, <3>2, <3>3
  <2>. QED  BY <2>1, <2>2
<1>8. iter = [s \in SUBSET (DOMAIN lits) |->
             IF s = {} THEN <<>> ELSE LET x == Blind!Max(s) IN Blind!AddLiteral(iter[s \ {x}], lits[x])]
  <2>. HIDE DEF step
  <2>. QED  BY <1>7, Zenon
<1>. HIDE DEF iter, step
<1> DEFINE P == {k \in 0..n : iter[1..k] \in V} \cup {n + 1}
<1>9. 0 \in P
  <2>1. {} \in SUBSET (DOMAIN lits) /\ 1..0 = {}
    OBVIOUS
  <2>. QED  BY <1>2, <1>8, <2>1
<1>10. ASSUME NEW k \in 0..n, k \in P, k # n
       PROVE  iter[1..(k + 1)] \in V
  <2>1. /\ 1..(k + 1) \in SUBSET (1..n) /\ 1..(k + 1) # {} /\ k + 1 \in 1..(k + 1)
        /\ (1..(k + 1)) \ {k + 1} = 1..k /\ k + 1 \in 1..n
    <3>1. k \in Nat /\ k + 1 <= n
      BY <1>10
    <3>. QED  BY ONLY <3>1, n \in Nat
  <2>2. Blind!Max(1..(k + 1)) = k + 1
    BY <1>6, <2>1, GreatestOfInterval
  <2>3. iter[1..(k + 1)] = Blind!AddLiteral(iter[1..k], lits[k + 1])
    BY <1>8, <2>1, <2>2
  <2>4. iter[1..k] \in V
    BY <1>10
  <2>. QED  BY <1>3, <2>1, <2>3, <2>4
<1>11. \A k \in 0..n : k \in P => k + 1 \in P
  BY <1>10
<1>. HIDE DEF P
<1>12. n \in P
  BY <1>9, <1>11, UpTo
<1>13. iter[1..n] \in V
  BY <1>12 DEF P
<1>. QED  BY <1>1, <1>13 DEF V

(* arm_canaries of two arms: refused, or literals that have a pattern.     *)
Rostered(arm) ==
  /\ {arm.name, arm.platform, arm.model} \subseteq Names \cup {Null}
  /\ arm.aux \in Seq(Names \cup {Null})

(* The canaries of two arms are names, or arming them was refused.         *)
LEMMA CanariesHavePatterns ==
  ASSUME NEW a, NEW b, Rostered(a), Rostered(b)
  PROVE  LET canaries == Blind!ArmCanaries(<<a, b>>)
         IN  canaries = Refused \/ canaries \in Seq(Names)
<1> DEFINE S == Names \cup {Null}
           seqs == [i \in DOMAIN <<a, b>> |-> Blind!ArmLiterals(<<a, b>>[i])]
           flatten[i \in 1..Len(seqs)] == IF i = 1 THEN seqs[i] ELSE flatten[i - 1] \o seqs[i]
           x == Blind!ArmLiterals(a)
           y == Blind!ArmLiterals(b)
<1>1. x \in Seq(S) /\ y \in Seq(S)
  <2>1. \A arm : Rostered(arm) => <<arm.name, arm.platform, arm.model>> \in Seq(S) /\ arm.aux \in Seq(S)
    BY DEF Rostered
  <2>2. \A arm : Rostered(arm) => Blind!ArmLiterals(arm) \in Seq(S)
    <3>. HIDE DEF S
    <3>. QED  BY <2>1 DEF Blind!ArmLiterals
  <2>. QED  BY <2>2
<1>2. seqs = <<x, y>> /\ Len(seqs) = 2 /\ 1..Len(seqs) = {1, 2} /\ seqs[1] = x /\ seqs[2] = y
  <2>1. DOMAIN <<a, b>> = {1, 2} /\ <<a, b>>[1] = a /\ <<a, b>>[2] = b
    OBVIOUS
  <2>2. seqs = [i \in {1, 2} |-> IF i = 1 THEN x ELSE y]
    BY <2>1
  <2>3. seqs = <<x, y>>
    <3>. HIDE DEF x, y
    <3>. QED  BY <2>2
  <2>. HIDE DEF seqs, x, y
  <2>. QED  BY <2>3
<1>3. Blind!FlattenSeq(seqs) = flatten[2]
  <2>. HIDE DEF seqs
  <2>. QED  BY <1>2 DEF Blind!FlattenSeq
<1>. HIDE DEF x, y, seqs, S
<1>4. flatten = [i \in {1, 2} |-> IF i = 1 THEN x ELSE flatten[i - 1] \o seqs[i]]
  <2> DEFINE f == [i \in {1, 2} |-> IF i = 1 THEN x ELSE x \o y]
  <2>1. f = [i \in 1..Len(seqs) |-> IF i = 1 THEN seqs[i] ELSE f[i - 1] \o seqs[i]]
    BY <1>2
  <2>2. flatten = [i \in 1..Len(seqs) |-> IF i = 1 THEN seqs[i] ELSE flatten[i - 1] \o seqs[i]]
    <3>. HIDE DEF f
    <3>. QED  BY <2>1, Zenon
  <2>. HIDE DEF flatten, f
  <2>. QED  BY <1>2, <2>2
<1>. HIDE DEF flatten
<1>5. flatten[2] = x \o y
  BY <1>2, <1>4
<1> DEFINE lits == x \o y
<1>6. lits \in Seq(S)
  BY <1>1
<1>7. Blind!ArmCanaries(<<a, b>>) \in {Refused, Blind!FoldLeft(Blind!AddLiteral, <<>>, lits)}
  BY <1>3, <1>5 DEF Blind!ArmCanaries, seqs
<1>. HIDE DEF lits
<1>8. Len(lits) \in Nat /\ DOMAIN lits = 1..Len(lits) /\ \A k \in 1..Len(lits) : lits[k] \in Names \cup {Null}
  BY <1>6 DEF S
<1>9. Blind!FoldLeft(Blind!AddLiteral, <<>>, lits) \in Seq(Names)
  BY <1>8, AddedLiterals
<1>. QED  BY <1>7, <1>9, Zenon

(* The patterns of a list of names: the vendors, then each of the names.   *)
LEMMA IdentityPatternsAre ==
  ASSUME NEW literals \in Seq(Names)
  PROVE  LET patterns == Blind!IdentityPatterns(literals)
         IN  /\ Len(literals) \in Nat /\ DOMAIN patterns = 1..(Len(literals) + 1)
             /\ patterns[1] = {"vendor"}
             /\ \A k \in 1..Len(literals) : patterns[k + 1] = Blind!Literals[literals[k]]
<1> DEFINE tail == [i \in DOMAIN literals |-> Blind!Literals[literals[i]]]
           T == {tail[i] : i \in DOMAIN literals} \cup {{"vendor"}}
<1>1. Len(literals) \in Nat /\ DOMAIN literals = 1..Len(literals)
  OBVIOUS
<1>2. \A i \in 1..Len(literals) : tail[i] \in T
  BY <1>1
<1>3. tail \in Seq(T) /\ Len(tail) = Len(literals)
  BY <1>1, <1>2
<1>4. <<{"vendor"}>> \in Seq(T)
  OBVIOUS
<1>5. \A k \in 1..Len(literals) : tail[k] = Blind!Literals[literals[k]]
  BY <1>1
<1>. HIDE DEF tail, T
<1>6. /\ DOMAIN (<<{"vendor"}>> \o tail) = 1..(Len(literals) + 1)
      /\ (<<{"vendor"}>> \o tail)[1] = {"vendor"}
      /\ \A k \in 1..Len(literals) : (<<{"vendor"}>> \o tail)[k + 1] = tail[k]
  BY <1>1, <1>3, <1>4
<1>7. Blind!IdentityPatterns(literals) = <<{"vendor"}>> \o tail
  BY DEF Blind!IdentityPatterns, Blind!VendorPatterns, tail
<1>. QED  BY <1>1, <1>5, <1>6, <1>7

(* Only the name "red" has a pattern that reads the mark.                  *)
LEMMA OnlyRedReadsTheMark ==
  ASSUME NEW literals \in Seq(Names), NEW k \in 1..(Len(literals) + 1),
         Blind!Mark \in Blind!IdentityPatterns(literals)[k]
  PROVE  "red" \in Blind!Range(literals)
<1>1. Len(literals) \in Nat /\ DOMAIN literals = 1..Len(literals) /\ \A i \in 1..Len(literals) : literals[i] \in Names
  OBVIOUS
<1>2. k # 1
  BY IdentityPatternsAre DEF Blind!Mark
<1>3. k - 1 \in 1..Len(literals) /\ (k - 1) + 1 = k
  BY <1>1, <1>2
<1>4. Blind!Mark \in Blind!Literals[literals[k - 1]] /\ literals[k - 1] \in Names
  BY <1>1, <1>3, IdentityPatternsAre
<1>5. literals[k - 1] = "red"
  BY <1>4 DEF Blind!Literals, Blind!Mark, Names
<1>. QED  BY <1>1, <1>3, <1>5 DEF Blind!Range

(* A text is scrubbed by those patterns.                                   *)
LEMMA ScrubsByName ==
  ASSUME NEW literals \in Seq(Names), NEW X, NEW text \in Seq(X)
  PROVE  LET patterns == Blind!IdentityPatterns(literals)
         IN  Scrubbed(Len(literals) + 1, patterns, text, Blind!Scrub(patterns, text))
<1> DEFINE patterns == Blind!IdentityPatterns(literals)
           n == Len(literals) + 1
           D == DOMAIN text
<1>1. n \in Nat /\ DOMAIN patterns = 1..n
  BY IdentityPatternsAre
<1>2. text \in [D -> X]
  OBVIOUS
<1>. HIDE DEF patterns, n, D
<1>3. Scrubbed(n, patterns, text, Blind!Scrub(patterns, text))
  BY <1>1, <1>2, ScrubIs
<1>. QED  BY <1>3 DEF n, patterns

(* Whatever the text and the two arms: what the scrub leaves names no arm, *)
(* and a leak is found where one is left (blind/core.py).                  *)
THEOREM TextsAreBlind ==
  ASSUME NEW c, NEW X, c.text \in Seq(X), NEW a, NEW b, Rostered(a), Rostered(b), c.arms = <<a, b>>
  PROVE  Blind!TextIsBlind(c)
<1> DEFINE canaries == Blind!ArmCanaries(c.arms)
           patterns == Blind!IdentityPatterns(canaries)
           blinded  == Blind!Scrub(patterns, c.text)
           packet   == Blind!BuildForensicPacket(c.text, canaries, c.over)
           n == Len(canaries) + 1
<1>1. CASE canaries = Refused
  BY <1>1 DEF Blind!TextIsBlind
<1>2. CASE canaries # Refused
  <2>1. canaries \in Seq(Names)
    BY <1>2, CanariesHavePatterns
  <2>. HIDE DEF canaries
  <2>2. Scrubbed(n, patterns, c.text, blinded)
    BY <2>1, ScrubsByName
  <2>3. packet = [rejected |-> IF c.over THEN "context_overflow"
                               ELSE IF Blind!HasAny(patterns, blinded) THEN "identity_leak"
                               ELSE IF Blind!HasAny(Blind!SecretPatterns, blinded) THEN "redaction_leak" ELSE Null,
                  body |-> blinded]
    BY DEF Blind!BuildForensicPacket
  <2>4. Null # "context_overflow" /\ Null # "identity_leak" /\ Null # "redaction_leak"
    BY EvidenceAssumption DEF Blind!Reasons
  <2>. HIDE DEF patterns, blinded, packet, n
  <2>5. /\ packet.body = blinded
        /\ packet.rejected = Null => ~Blind!HasAny(patterns, blinded) /\ ~Blind!HasAny(Blind!SecretPatterns, blinded)
        /\ packet.rejected = "identity_leak" => Blind!HasAny(patterns, blinded)
    BY <2>3, <2>4
  <2>6. packet.rejected = Null => ~Blind!Leaks(canaries, packet.body)
    BY <2>5 DEF Blind!Leaks, patterns
  <2>7. \A i \in DOMAIN c.text : i \notin Blind!Scan(patterns, c.text) => packet.body[i] = c.text[i]
    <3> SUFFICES ASSUME NEW i \in DOMAIN c.text, i \notin Blind!Scan(patterns, c.text)
                 PROVE  blinded[i] = c.text[i]
      BY <2>5
    <3>1. \A k \in 1..n : c.text[i] \notin patterns[k]
      BY <2>2 DEF Blind!Scan, Scrubbed
    <3>. QED  BY <2>2, <3>1 DEF Scrubbed
  <2>8. packet.rejected = "identity_leak" => "red" \in Blind!Range(canaries)
    <3> SUFFICES ASSUME Blind!HasAny(patterns, blinded)
                 PROVE  "red" \in Blind!Range(canaries)
      BY <2>5
    <3>1. PICK i \in DOMAIN c.text, k \in 1..n : blinded[i] \in patterns[k]
      BY <2>2 DEF Blind!HasAny, Blind!Scan, Scrubbed
    <3>2. blinded[i] = Blind!Mark
      BY <2>2, <3>1 DEF Scrubbed
    <3>3. k \in 1..(Len(canaries) + 1) /\ Blind!Mark \in Blind!IdentityPatterns(canaries)[k]
      BY <3>1, <3>2 DEF patterns, n
    <3>. QED  BY <2>1, <3>3, OnlyRedReadsTheMark
  <2>. QED  BY <2>6, <2>7, <2>8, Zenon DEF Blind!TextIsBlind, canaries, patterns, packet
<1>. QED  BY <1>1, <1>2

(* What is sent of a pair: in each order the same six blocks.              *)
SentPair(p, m, w) ==
  /\ m = Blind!Render(p, "AB") /\ w = Blind!Render(p, "BA")
  /\ DOMAIN m = 1..6 /\ DOMAIN w = 1..6
  /\ m[1] = w[1] /\ m[2] = w[2] /\ m[3] = w[5] /\ m[4] = w[6] /\ m[5] = w[3] /\ m[6] = w[4]
  /\ \A i \in 1..6 : m[i].text \in Blind!Blobs(p)
  /\ \A i \in 3..6 : m[i].fence = Blind!Fence(p)

(* The two messages of a pair: one has the answers as given, the other has *)
(* them swapped.                                                           *)
LEMMA PairsAreSent ==
  ASSUME NEW p
  PROVE  SentPair(p, Blind!Render(p, "AB"), Blind!Render(p, "BA"))
<1> DEFINE m == Blind!Render(p, "AB")
           w == Blind!Render(p, "BA")
<1>1. m = <<Blind!Open(p.prompt), Blind!Open(p.rubric), Blind!Fenced(p, p.a.diff), Blind!Fenced(p, p.a.holdouts),
            Blind!Fenced(p, p.b.diff), Blind!Fenced(p, p.b.holdouts)>>
  BY DEF Blind!Render
<1>2. w = <<Blind!Open(p.prompt), Blind!Open(p.rubric), Blind!Fenced(p, p.b.diff), Blind!Fenced(p, p.b.holdouts),
            Blind!Fenced(p, p.a.diff), Blind!Fenced(p, p.a.holdouts)>>
  BY DEF Blind!Render
<1>. HIDE DEF m, w
<1>3. /\ DOMAIN m = 1..6 /\ DOMAIN w = 1..6
      /\ m[1] = w[1] /\ m[2] = w[2] /\ m[3] = w[5] /\ m[4] = w[6] /\ m[5] = w[3] /\ m[6] = w[4]
  BY <1>1, <1>2
<1>4. \A i \in 1..6 : i \in {1, 2, 3, 4, 5, 6}
  OBVIOUS
<1>5. \A i \in 1..6 : m[i].text \in Blind!Blobs(p)
  <2>1. /\ m[1].text = p.prompt /\ m[2].text = p.rubric /\ m[3].text = p.a.diff /\ m[4].text = p.a.holdouts
        /\ m[5].text = p.b.diff /\ m[6].text = p.b.holdouts
    BY <1>1 DEF Blind!Open, Blind!Fenced
  <2>. QED  BY <1>4, <2>1 DEF Blind!Blobs
<1>6. \A i \in 3..6 : m[i].fence = Blind!Fence(p)
  <2>1. m[3].fence = Blind!Fence(p) /\ m[4].fence = Blind!Fence(p) /\ m[5].fence = Blind!Fence(p) /\ m[6].fence = Blind!Fence(p)
    BY <1>1 DEF Blind!Fenced
  <2>2. \A i \in 3..6 : i \in {3, 4, 5, 6}
    OBVIOUS
  <2>. QED  BY <2>1, <2>2
<1>. QED  BY <1>3, <1>5, <1>6 DEF SentPair, m, w

(* Nothing of a pair is sent that names an arm or holds a secret, and both *)
(* orders carry the same blocks under one hash.                            *)
THEOREM PairsAreBlind ==
  ASSUME NEW c
  PROVE  Blind!PairIsBlind(c)
<1> DEFINE canaries == Blind!ArmCanaries(c.arms)
           packet   == Blind!BuildPacket(c.a, c.b, c.prompt, c.rubric)
           ab       == Blind!JudgeSends(packet, canaries, "AB")
           ba       == Blind!JudgeSends(packet, canaries, "BA")
           clean    == Blind!ValidateIdentityFree(packet, canaries) /\ Blind!ValidateSecretFree(packet)
<1>. HIDE DEF canaries
<1>1. packet.sha = Blind!BuildPacket(c.b, c.a, c.prompt, c.rubric).sha
  BY DEF Blind!BuildPacket
<1>. HIDE DEF packet
<1>2. /\ ~clean => ab = {} /\ ba = {}
      /\ clean => ab = {Blind!Render(packet, "AB")} /\ ba = {Blind!Render(packet, "BA")}
  BY DEF Blind!JudgeSends
<1>3. clean => \A t \in Blind!Blobs(packet) : ~Blind!Leaks(canaries, t)
  BY DEF Blind!ValidateIdentityFree, Blind!ValidateSecretFree, Blind!Leaks
<1>. HIDE DEF ab, ba, clean
<1>4. (ab = {}) = (ba = {})
  BY <1>2
<1>5. ASSUME NEW m \in ab, NEW w \in ba
      PROVE  /\ \A i \in DOMAIN m : ~Blind!Leaks(canaries, m[i].text)
             /\ Blind!Range(m) = Blind!Range(w)
             /\ m[3] = w[5] /\ m[4] = w[6] /\ m[5] = w[3] /\ m[6] = w[4]
             /\ \A i \in 3..6 : m[i].fence = Blind!Fence(packet)
  <2>1. clean /\ SentPair(packet, m, w)
    BY <1>2, <1>5, PairsAreSent
  <2>2. \A i \in DOMAIN m : ~Blind!Leaks(canaries, m[i].text)
    BY <1>3, <2>1 DEF SentPair
  <2>3. Blind!Range(m) = Blind!Range(w)
    <3>1. Blind!Range(m) = {m[i] : i \in 1..6} /\ Blind!Range(w) = {w[i] : i \in 1..6}
      BY <2>1 DEF SentPair, Blind!Range
    <3>2. \A i \in 1..6 : \E j \in 1..6 : m[i] = w[j]
      BY <2>1 DEF SentPair
    <3>3. \A i \in 1..6 : \E j \in 1..6 : w[i] = m[j]
      BY <2>1 DEF SentPair
    <3>. QED  BY <3>1, <3>2, <3>3
  <2>4. /\ m[3] = w[5] /\ m[4] = w[6] /\ m[5] = w[3] /\ m[6] = w[4]
        /\ \A i \in 3..6 : m[i].fence = Blind!Fence(packet)
    BY <2>1 DEF SentPair
  <2>. QED  BY <2>2, <2>3, <2>4
<1>. QED  BY <1>1, <1>4, <1>5, Zenon DEF Blind!PairIsBlind, canaries, packet, ab, ba

(* Every question about blinding is answered as it should be.              *)
LEMMA BlindAnswers ==
  ASSUME NEW c \in Blind!BlindCases
  PROVE  Blind!BlindSound(c)
<1>1. CASE c.kind = "pair"
  <2>1. Blind!PairIsBlind(c)
    BY PairsAreBlind
  <2>. QED  BY <1>1, <2>1 DEF Blind!BlindSound
<1>2. CASE c.kind # "pair"
  <2>1. c \in [kind : {"text"}, arms : Blind!ArmCases, text : Blind!Texts, over : BOOLEAN]
    BY <1>2 DEF Blind!BlindCases
  <2>2. c.arms \in Blind!ArmCases /\ c.text \in Blind!Texts /\ c.kind = "text"
    BY <2>1
  <2>3. c.text \in Seq(Blind!Fragments \cup {"work", "alpha", "key"})
    <3> DEFINE F == Blind!Fragments
               G == F \cup {"work", "alpha", "key"}
    <3>1. /\ <<>> \in Seq(G)
          /\ \A f \in F : <<f>> \in Seq(G)
          /\ \A f \in F, g \in {"work", "alpha", "key"} : <<f, g>> \in Seq(G)
      <4>. HIDE DEF F
      <4>. QED  OBVIOUS
    <3>2. \/ c.text = <<>> 
          \/ \E f \in F : c.text = <<f>>
          \/ \E f \in F, g \in {"work", "alpha", "key"} : c.text = <<f, g>>
      <4>. HIDE DEF F
      <4>. QED  BY <2>2 DEF Blind!Texts, F
    <3>. HIDE DEF F, G
    <3>3. c.text \in Seq(G)
      BY <3>1, <3>2
    <3>. QED  BY <3>3 DEF F, G
  <2>4. PICK n \in {"alpha", "red"}, aux \in {<<>>, <<"m2">>, <<"m2", Null>>} : c.arms = Blind!Arms(n, aux)
    BY <2>2 DEF Blind!ArmCases
  <2> DEFINE a == [name |-> n, platform |-> Null, model |-> "m1", aux |-> aux]
             b == [name |-> "beta", platform |-> "alpha", model |-> "m1", aux |-> <<>>]
  <2>5. c.arms = <<a, b>>
    BY <2>4 DEF Blind!Arms
  <2>6. Rostered(a) /\ Rostered(b)
    <3>1. aux \in Seq(Names \cup {Null}) /\ <<>> \in Seq(Names \cup {Null})
      <4> DEFINE S == Names \cup {Null}
      <4>1. "m2" \in S /\ Null \in S
        BY DEF Names
      <4>. HIDE DEF S
      <4>2. <<>> \in Seq(S) /\ <<"m2">> \in Seq(S) /\ <<"m2", Null>> \in Seq(S)
        BY <4>1
      <4>. QED  BY <4>2 DEF S
    <3>2. n \in Names
      BY DEF Names
    <3>. QED  BY <3>1, <3>2 DEF Rostered, Names
  <2>. HIDE DEF a, b
  <2>7. Blind!TextIsBlind(c)
    BY <2>3, <2>5, <2>6, TextsAreBlind
  <2>. QED  BY <2>2, <2>7 DEF Blind!BlindSound
<1>. QED  BY <1>1, <1>2

-----------------------------------------------------------------------------
(* Contamination: what overlap, dates and probes say (contamination/).     *)

(* The operators of an instance are those of the library.                  *)
LEMMA InstanceOperators ==
  /\ \A S : Contamination!Cardinality(S) = Cardinality(S)
  /\ \A S : Contamination!Min(S) = CHOOSE x \in S : \A y \in S : x <= y
  /\ \A f : Contamination!Range(f) = {f[x] : x \in DOMAIN f}
<1>1. \A S : Contamination!Cardinality(S) = Cardinality(S)
  BY DEF Contamination!Cardinality, Cardinality
<1>2. \A S : Contamination!Min(S) = CHOOSE x \in S : \A y \in S : x <= y
  BY DEF Contamination!Min
<1>3. \A f : Contamination!Range(f) = {f[x] : x \in DOMAIN f}
  BY DEF Contamination!Range
<1>. QED  BY <1>1, <1>2, <1>3

(* Min is an element of a set of naturals that is not empty.               *)
LEMMA LeastOfSome ==
  ASSUME NEW S \in SUBSET Nat, S # {}
  PROVE  Contamination!Min(S) \in S
<1>1. \E x \in S : \A y \in S : x <= y
  <2> SUFFICES ASSUME \A x \in S : \E y \in S : ~(x <= y)
               PROVE  FALSE
    OBVIOUS
  <2> DEFINE Below == {n \in Nat : \A x \in S : n <= x}
  <2>1. PICK z \in S : z \in Nat
    OBVIOUS
  <2>2. 0 \in Below /\ \A n \in 0..(z + 1) : n \in Below => n + 1 \in Below
    OBVIOUS
  <2>3. z + 1 \notin Below
    BY <2>1
  <2>. HIDE DEF Below
  <2>. QED  BY <2>1, <2>2, <2>3, UpTo
<1>. QED  BY <1>1, InstanceOperators

(* A window of the reference is one of every text that holds a copy of it. *)
LEMMA WindowsOfACopy ==
  ASSUME Ngram \in Nat \ {0}, NEW ref \in Seq(Nat), NEW before \in Seq(Nat), NEW after \in Seq(Nat)
  PROVE  Contamination!Windows(ref) \subseteq Contamination!Windows(before \o ref \o after)
<1> DEFINE sol == before \o ref \o after
           b == Len(before)
           n == Len(ref)
<1>1. b \in Nat /\ n \in Nat /\ Len(after) \in Nat /\ sol \in Seq(Nat) /\ Len(sol) = b + n + Len(after)
  OBVIOUS
<1>2. \A i \in 1..n : sol[i + b] = ref[i]
  OBVIOUS
<1>. HIDE DEF sol, b, n
<1>3. ASSUME NEW s \in 1..(n - Ngram + 1)
      PROVE  /\ s + b \in 1..(Len(sol) - Ngram + 1)
             /\ {ref[i] : i \in s..(s + Ngram - 1)} = {sol[i] : i \in (s + b)..((s + b) + Ngram - 1)}
  <2>1. s + b \in 1..(Len(sol) - Ngram + 1)
    BY <1>1
  <2>2. \A i \in s..(s + Ngram - 1) : i + b \in (s + b)..((s + b) + Ngram - 1) /\ ref[i] = sol[i + b]
    BY <1>1, <1>2
  <2>3. \A i \in (s + b)..((s + b) + Ngram - 1) : i - b \in s..(s + Ngram - 1) /\ sol[i] = ref[i - b]
    <3> SUFFICES ASSUME NEW i \in (s + b)..((s + b) + Ngram - 1)
                 PROVE  i - b \in s..(s + Ngram - 1) /\ sol[i] = ref[i - b]
      OBVIOUS
    <3>1. i - b \in s..(s + Ngram - 1) /\ i - b \in 1..n /\ (i - b) + b = i
      BY <1>1
    <3>. QED  BY <1>2, <3>1
  <2> DEFINE x == {ref[i] : i \in s..(s + Ngram - 1)}
             y == {sol[i] : i \in (s + b)..((s + b) + Ngram - 1)}
  <2>4. ASSUME NEW e \in x PROVE e \in y
    <3>1. PICK i \in s..(s + Ngram - 1) : e = ref[i]
      OBVIOUS
    <3>2. i + b \in (s + b)..((s + b) + Ngram - 1) /\ e = sol[i + b]
      BY <2>2, <3>1
    <3>. QED  BY <3>2
  <2>6. ASSUME NEW e \in y PROVE e \in x
    <3>1. PICK i \in (s + b)..((s + b) + Ngram - 1) : e = sol[i]
      OBVIOUS
    <3>. QED  BY <2>3, <3>1
  <2>5. x = y
    <3>. HIDE DEF x, y
    <3>. QED  BY <2>4, <2>6
  <2>. QED  BY <2>1, <2>5
<1>. QED  BY <1>3 DEF Contamination!Windows, sol, n

(* The fingerprints of a text are some of its hashes.                      *)
LEMMA FingerprintsAreHashes ==
  ASSUME Ngram \in Nat \ {0}, NEW text \in Seq(Nat)
  PROVE  /\ Contamination!Fingerprints(text) \subseteq Contamination!Range(text)
         /\ Contamination!Range(text) \subseteq Nat
         /\ IsFiniteSet(Contamination!Range(text))
         /\ text # <<>> => Contamination!Fingerprints(text) # {}
<1> DEFINE n == Len(text)
<1>1. n \in Nat /\ DOMAIN text = 1..n /\ \A i \in 1..n : text[i] \in Nat
  OBVIOUS
<1>2. Contamination!Range(text) = {text[i] : i \in 1..n}
  BY <1>1, InstanceOperators
<1>3. IsFiniteSet(Contamination!Range(text))
  <2>1. IsFiniteSet(1..n)
    BY <1>1, FS_Interval
  <2> DEFINE R == Contamination!Range(text)
  <2>2. text \in Surjection(1..n, R)
    <3>1. text \in [1..n -> R] /\ \A e \in R : \E i \in 1..n : text[i] = e
      BY <1>1, <1>2
    <3>. QED  BY <3>1 DEF Surjection
  <2>. HIDE DEF R
  <2>3. IsFiniteSet(R)
    BY <2>1, <2>2, FS_Surjection
  <2>. QED  BY <2>3 DEF R
<1>4. CASE n <= Ngram
  <2>1. Contamination!Fingerprints(text) = Contamination!Range(text)
    BY <1>4 DEF Contamination!Fingerprints
  <2>2. text # <<>> => 1 \in 1..n
    BY <1>1
  <2>. QED  BY <1>1, <1>2, <1>3, <2>1, <2>2
<1>5. CASE ~(n <= Ngram)
  <2>1. Contamination!Fingerprints(text) = {Contamination!Min(w) : w \in Contamination!Windows(text)}
    BY <1>5 DEF Contamination!Fingerprints
  <2>2. ASSUME NEW w \in Contamination!Windows(text)
        PROVE  Contamination!Min(w) \in Contamination!Range(text)
    <3>1. PICK s \in 1..(n - Ngram + 1) : w = {text[i] : i \in s..(s + Ngram - 1)}
      BY DEF Contamination!Windows
    <3>2. s..(s + Ngram - 1) \subseteq 1..n /\ s \in s..(s + Ngram - 1)
      BY <1>1
    <3>3. w # {} /\ \A e \in w : e \in Nat /\ e \in {text[i] : i \in 1..n}
      <4>. HIDE DEF n
      <4>. QED  BY <1>1, <3>1, <3>2
    <3>4. w \subseteq Contamination!Range(text) /\ w # {} /\ w \in SUBSET Nat
      BY <1>2, <3>3, Zenon
    <3>. QED  BY <3>4, LeastOfSome
  <2>3. Contamination!Windows(text) # {}
    <3>1. 1 \in 1..(n - Ngram + 1)
      BY <1>1, <1>5
    <3>. QED  BY <3>1 DEF Contamination!Windows
  <2>. QED  BY <1>1, <1>2, <1>3, <2>1, <2>2, <2>3
<1>. QED  BY <1>1, <1>4, <1>5

(* What is found of a reference that was copied whole.                     *)
LEMMA CopiedWhole ==
  ASSUME Ngram \in Nat \ {0}, NEW ref \in Seq(Nat), NEW before \in Seq(Nat), NEW after \in Seq(Nat)
  PROVE  LET sol == before \o ref \o after
             found == Contamination!Containment(ref, sol)
         IN  /\ found[1] \in Nat /\ found[2] \in Nat
             /\ Len(ref) > Ngram => found[1] = found[2] /\ found[1] > 0
             /\ Len(ref) = Ngram => found[1] > 0
<1> DEFINE sol == before \o ref \o after
           F == Contamination!Fingerprints(ref)
           G == Contamination!Fingerprints(sol)
           found == Contamination!Containment(ref, sol)
           b == Len(before)
           n == Len(ref)
<1>1. sol \in Seq(Nat) /\ n \in Nat /\ b \in Nat /\ Len(sol) = b + n + Len(after) /\ Len(after) \in Nat
  OBVIOUS
<1>2. \A i \in 1..n : sol[i + b] = ref[i] /\ i + b \in 1..Len(sol)
  OBVIOUS
<1>3. DOMAIN ref = 1..n /\ DOMAIN sol = 1..Len(sol) /\ \A i \in 1..n : ref[i] \in Nat
  OBVIOUS
<1>. HIDE DEF sol, b, n
<1>4. IsFiniteSet(F) /\ (ref # <<>> => F # {})
  BY FingerprintsAreHashes, FS_Subset
<1>5. /\ found[1] = Cardinality(F \cap G) /\ found[2] = Cardinality(F)
  BY InstanceOperators DEF Contamination!Containment
<1>6. IsFiniteSet(F \cap G)
  BY <1>4, FS_Subset
<1>7. found[1] \in Nat /\ found[2] \in Nat /\ (F \cap G # {} => found[1] > 0)
  <2>1. Cardinality(F) \in Nat /\ Cardinality(F \cap G) \in Nat /\ (Cardinality(F \cap G) = 0 <=> F \cap G = {})
    BY <1>4, <1>6, FS_CardinalityType, FS_EmptySet
  <2>. HIDE DEF F, G, found
  <2>. QED  BY <1>5, <2>1
<1>8. ASSUME n > Ngram
      PROVE  found[1] = found[2] /\ found[1] > 0
  <2>1. F = {Contamination!Min(w) : w \in Contamination!Windows(ref)}
    BY <1>1, <1>8 DEF Contamination!Fingerprints, n
  <2>2. G = {Contamination!Min(w) : w \in Contamination!Windows(sol)}
    BY <1>1, <1>8 DEF Contamination!Fingerprints
  <2>3. F \subseteq G
    BY <2>1, <2>2, WindowsOfACopy DEF sol
  <2>4. F \cap G = F /\ ref # <<>>
    BY <1>1, <1>8, <2>3 DEF n
  <2>. QED  BY <1>4, <1>5, <1>7, <2>4
<1>9. ASSUME n = Ngram
      PROVE  found[1] > 0
  <2>1. F = Contamination!Range(ref)
    BY <1>1, <1>9 DEF Contamination!Fingerprints, n
  <2>2. F = {ref[i] : i \in 1..n} /\ 1 \in 1..n
    <3>1. Contamination!Range(ref) = {ref[i] : i \in DOMAIN ref}
      BY InstanceOperators, Zenon
    <3>2. F = {ref[i] : i \in 1..n}
      BY <1>3, <2>1, <3>1
    <3>3. 1 \in 1..n
      BY <1>1, <1>9
    <3>. QED  BY <3>2, <3>3
  <2>3. CASE Len(sol) <= Ngram
    <3>1. G = {sol[i] : i \in 1..Len(sol)}
      BY <1>3, <2>3, InstanceOperators DEF Contamination!Fingerprints
    <3>2. ref[1] \in F \cap G
      BY <1>2, <2>2, <3>1
    <3>. QED  BY <1>7, <3>2
  <2>4. CASE ~(Len(sol) <= Ngram)
    <3>1. G = {Contamination!Min(w) : w \in Contamination!Windows(sol)}
      BY <2>4 DEF Contamination!Fingerprints
    <3>2. F \in Contamination!Windows(ref)
      <4>1. 1 \in 1..(n - Ngram + 1) /\ 1..n = 1..(1 + Ngram - 1)
        BY <1>1, <1>9
      <4>. QED  BY <2>2, <4>1 DEF Contamination!Windows, n
    <3>3. Contamination!Min(F) \in F \cap G
      <4>1. Contamination!Min(F) \in G
        BY <3>1, <3>2, WindowsOfACopy DEF sol
      <4>2. F \in SUBSET Nat /\ F # {}
        BY <1>3, <2>2
      <4>. QED  BY <4>1, <4>2, LeastOfSome
    <3>. QED  BY <1>7, <3>3
  <2>. QED  BY <2>3, <2>4
<1>. QED  BY <1>7, <1>8, <1>9 DEF n, sol

(* A reference that was copied whole is found, and alarms if it is a       *)
(* holdout's.                                                              *)
THEOREM CopiesAreFound ==
  ASSUME Ngram \in Nat \ {0}, NEW c, c.ref \in Seq(Nat), c.before \in Seq(Nat), c.after \in Seq(Nat),
         c.holdout \in BOOLEAN, c.ref # <<>>, c.ref # Null
  PROVE  Contamination!CopyIsFound(c)
<1> DEFINE ref  == c.ref
           sol  == c.before \o ref \o c.after
           refs == [oracle |-> IF c.holdout THEN Null ELSE ref, holdouts |-> IF c.holdout THEN <<ref>> ELSE <<>>]
           seen == Contamination!SolutionOverlap(sol, refs, 100)
           found == Contamination!Containment(ref, sol)
           Found(x) == Contamination!AtLeast(Contamination!Containment(x, sol), Contamination!Resolved(100))
<1>. HIDE DEF ref
<1>0. ref \in Seq(Nat) /\ ref # <<>> /\ ref # Null
  BY DEF ref
<1>1. /\ found[1] \in Nat /\ found[2] \in Nat
      /\ Len(ref) > Ngram => found[1] = found[2] /\ found[1] > 0
      /\ Len(ref) = Ngram => found[1] > 0
  BY <1>0, CopiedWhole
<1>. HIDE DEF sol, found
<1>2. Contamination!Resolved(100) \in {50, 100}
  BY DEF Contamination!Resolved, Contamination!DefaultOverlapThreshold
<1>3. ~Contamination!OverlapRefuses(refs, 100)
  <2>1. Contamination!Fingerprintable(ref)
    BY <1>0, FingerprintsAreHashes DEF Contamination!Fingerprintable
  <2>2. /\ refs.oracle # Null => refs.oracle = ref
        /\ \A i \in DOMAIN refs.holdouts : refs.holdouts[i] = ref
    OBVIOUS
  <2>3. Contamination!Resolved(100) \in 1..100
    BY <1>2
  <2>. HIDE DEF refs
  <2>. QED  BY <2>1, <2>2, <2>3 DEF Contamination!OverlapRefuses
<1>4. ASSUME Len(ref) > Ngram
      PROVE  seen.flagged /\ seen.leaks = c.holdout
  <2>1. Found(ref)
    <3>1. found[1] \in Nat /\ found[2] = found[1]
      BY <1>1, <1>4
    <3>2. 100 * found[1] >= 50 * found[2] /\ 100 * found[1] >= 100 * found[2]
      BY <3>1
    <3>. QED  BY <1>2, <3>2 DEF Contamination!AtLeast, found
  <2>2. seen = [flagged |-> (\E i \in DOMAIN refs.holdouts : Found(refs.holdouts[i])) \/ (refs.oracle # Null /\ Found(refs.oracle)),
                leaks |-> \E i \in DOMAIN refs.holdouts : Found(refs.holdouts[i])]
    <3>. HIDE DEF refs
    <3>. QED  BY <1>3 DEF Contamination!SolutionOverlap
  <2>. HIDE DEF Found, seen
  <2>3. CASE c.holdout
    <3>1. DOMAIN refs.holdouts = {1} /\ refs.holdouts[1] = ref
      BY <2>3
    <3>. QED  BY <2>1, <2>2, <2>3, <3>1
  <2>4. CASE ~c.holdout
    <3>1. DOMAIN refs.holdouts = {} /\ refs.oracle = ref
      BY <2>4
    <3>. QED  BY <1>0, <2>1, <2>2, <2>4, <3>1
  <2>. QED  BY <2>3, <2>4
<1>. HIDE DEF refs, seen
<1>. QED  BY <1>1, <1>4 DEF Contamination!CopyIsFound, ref, sol, refs, seen, found

(* What a scan says, with its parts named.                                 *)
ScanSays(trials, refs, threshold, r) ==
  LET S == Contamination!Scanned(trials, refs)
      Overlap(i) == Contamination!SolutionOverlap(trials[i].solution, refs, threshold)
  IN  /\ r.skipped = {i \in DOMAIN trials : Contamination!Measurable(refs) /\ Contamination!Unscanned(trials[i])}
      /\ r.alarms = {i \in S : Overlap(i).leaks}
      /\ r.overlap_flags = [a \in {trials[i].arm : i \in S} |-> \E i \in S : trials[i].arm = a /\ Overlap(i).flagged]

(* What a scan reports, in the words of that predicate.                    *)
LEMMA ScansSay ==
  ASSUME NEW trials, NEW refs, NEW threshold, ~Contamination!ScanRefuses(trials, refs, threshold)
  PROVE  ScanSays(trials, refs, threshold, Contamination!ScanTrials(trials, refs, threshold))
<1> DEFINE r == Contamination!ScanTrials(trials, refs, threshold)
           S == Contamination!Scanned(trials, refs)
           Overlap(i) == Contamination!SolutionOverlap(trials[i].solution, refs, threshold)
           flags == [a \in {trials[i].arm : i \in S} |-> \E i \in S : trials[i].arm = a /\ Overlap(i).flagged]
           alarms == {i \in S : Overlap(i).leaks}
           skipped == {i \in DOMAIN trials : Contamination!Measurable(refs) /\ Contamination!Unscanned(trials[i])}
<1>1. r = [overlap_flags |-> flags, alarms |-> alarms, skipped |-> skipped]
  BY DEF Contamination!ScanTrials
<1>2. r.overlap_flags = flags /\ r.alarms = alarms /\ r.skipped = skipped
  <2>. HIDE DEF r, flags, alarms, skipped
  <2>. QED  BY <1>1
<1>. QED  BY <1>2, Zenon DEF ScanSays

(* A scan alarms only on what a trial of its own shows.                    *)
LEMMA ScansAreHonest ==
  ASSUME Ngram \in Nat \ {0}, NEW c, c.refs \in Contamination!RefsSeen
  PROVE  Contamination!ScanHonest(c)
<1> DEFINE trials == <<c.first, c.second>>
           refs == c.refs
           r == Contamination!ScanTrials(trials, refs, Null)
           alone(i) == Contamination!ScanTrials(<<trials[i]>>, refs, Null)
<1>1. ~Contamination!OverlapRefuses(refs, Null)
  <2>1. Contamination!Resolved(Null) \in 1..100
    BY DEF Contamination!Resolved, Contamination!DefaultOverlapThreshold
  <2>2. Contamination!Fingerprintable(Contamination!Oracle) /\ Contamination!Fingerprintable(Contamination!Holdout)
    <3>1. <<1, 2, 3>> \in Seq(Nat) /\ <<4, 5, 6>> \in Seq(Nat) /\ <<1, 2, 3>> # <<>> /\ <<4, 5, 6>> # <<>>
      OBVIOUS
    <3>. QED  BY <3>1, FingerprintsAreHashes DEF Contamination!Fingerprintable, Contamination!Oracle, Contamination!Holdout
  <2>3. refs.oracle \in {Null, Contamination!Oracle} /\ refs.holdouts \in {<<>>, <<Contamination!Holdout>>}
    BY DEF Contamination!RefsSeen
  <2>4. \A i \in DOMAIN refs.holdouts : refs.holdouts[i] = Contamination!Holdout
    BY <2>3
  <2>. HIDE DEF refs
  <2>. QED  BY <2>1, <2>2, <2>3, <2>4 DEF Contamination!OverlapRefuses
<1>. HIDE DEF refs
<1>2. ScanSays(trials, refs, Null, r) /\ \A i : ScanSays(<<trials[i]>>, refs, Null, alone(i))
  BY <1>1, ScansSay DEF Contamination!ScanRefuses
<1>3. DOMAIN trials = {1, 2} /\ \A t : DOMAIN <<t>> = {1} /\ <<t>>[1] = t
  OBVIOUS
<1>. HIDE DEF r, alone, trials
<1> DEFINE M == Contamination!Measurable(refs)
           U(i) == Contamination!Unscanned(trials[i])
           S == {j \in {1, 2} : M /\ ~U(j)}
           Overlap(i) == Contamination!SolutionOverlap(trials[i].solution, refs, Null)
<1>4. /\ r.skipped = {i \in {1, 2} : M /\ U(i)}
      /\ r.alarms = {i \in S : Overlap(i).leaks}
      /\ DOMAIN r.overlap_flags = {trials[i].arm : i \in S}
      /\ \A a \in DOMAIN r.overlap_flags : r.overlap_flags[a] = \E i \in S : trials[i].arm = a /\ Overlap(i).flagged
  <2>1. Contamination!Scanned(trials, refs) = S
    BY <1>3 DEF Contamination!Scanned
  <2>2. r.skipped = {i \in {1, 2} : M /\ U(i)}
    BY <1>2, <1>3 DEF ScanSays
  <2>. HIDE DEF S
  <2>3. r.alarms = {i \in S : Overlap(i).leaks}
    BY <1>2, <2>1 DEF ScanSays
  <2>4. r.overlap_flags = [a \in {trials[i].arm : i \in S} |-> \E i \in S : trials[i].arm = a /\ Overlap(i).flagged]
    BY <1>2, <2>1 DEF ScanSays
  <2>5. /\ DOMAIN r.overlap_flags = {trials[i].arm : i \in S}
        /\ \A a \in DOMAIN r.overlap_flags : r.overlap_flags[a] = \E i \in S : trials[i].arm = a /\ Overlap(i).flagged
    <3>. HIDE DEF Overlap
    <3>. QED  BY <2>4
  <2>. QED  BY <2>2, <2>3, <2>5
<1>5. ASSUME NEW i
      PROVE  /\ alone(i).skipped # {} <=> M /\ U(i)
             /\ M /\ ~U(i) => alone(i).overlap_flags[trials[i].arm] = (Overlap(i).flagged = TRUE)
  <2> DEFINE one == <<trials[i]>>
             T == Contamination!Scanned(one, refs)
  <2>1. ScanSays(one, refs, Null, alone(i)) /\ DOMAIN one = {1} /\ one[1] = trials[i]
    BY <1>2, <1>3
  <2>. HIDE DEF one
  <2>2. alone(i).skipped = {j \in {1} : M /\ Contamination!Unscanned(one[j])}
    BY <2>1 DEF ScanSays
  <2>3. ASSUME M, ~U(i)
        PROVE  alone(i).overlap_flags[trials[i].arm] = (Overlap(i).flagged = TRUE)
    <3>1. T = {1}
      BY <2>1, <2>3 DEF Contamination!Scanned
    <3>2. alone(i).overlap_flags = [a \in {one[j].arm : j \in T} |->
             \E j \in T : one[j].arm = a /\ Contamination!SolutionOverlap(one[j].solution, refs, Null).flagged]
      BY <2>1 DEF ScanSays
    <3>. HIDE DEF T
    <3>3. trials[i].arm \in {one[j].arm : j \in T}
      BY <2>1, <3>1
    <3>4. alone(i).overlap_flags[trials[i].arm] =
            \E j \in T : one[j].arm = trials[i].arm /\ Contamination!SolutionOverlap(one[j].solution, refs, Null).flagged
      BY <3>2, <3>3
    <3>5. (\E j \in T : one[j].arm = trials[i].arm /\ Contamination!SolutionOverlap(one[j].solution, refs, Null).flagged)
            <=> Overlap(i).flagged
      BY <2>1, <3>1
    <3>. QED  BY <3>4, <3>5
  <2>. QED  BY <2>1, <2>2, <2>3
<1>6. r.skipped = {i \in {1, 2} : alone(i).skipped # {}}
  BY <1>4, <1>5
<1>7. M => S = {1, 2} \ r.skipped
  BY <1>4
<1>8. ~M => S = {}
  OBVIOUS
<1>9. S \cap r.skipped = {} /\ S \subseteq {1, 2} /\ \A i \in S : M /\ ~U(i)
  BY <1>4
<1>. HIDE DEF S
<1>10. DOMAIN r.overlap_flags = {trials[i].arm : i \in {1, 2} \ r.skipped} \/ ~M
  BY <1>4, <1>7
<1>11. ASSUME NEW a \in DOMAIN r.overlap_flags
       PROVE  r.overlap_flags[a] = \E i \in {1, 2} \ r.skipped : trials[i].arm = a /\ alone(i).overlap_flags[a]
  <2>1. M
    BY <1>4, <1>8, <1>11
  <2>2. r.overlap_flags[a] = \E i \in S : trials[i].arm = a /\ Overlap(i).flagged
    BY <1>4, <1>11
  <2>3. \A i \in S : trials[i].arm = a => alone(i).overlap_flags[a] = (Overlap(i).flagged = TRUE)
    BY <1>5, <1>9
  <2>4. S = {1, 2} \ r.skipped
    BY <1>7, <2>1
  <2>. HIDE DEF U, M, Overlap
  <2>. QED  BY <2>2, <2>3, <2>4
<1>12. \A i \in {1, 2} : trials[i].quarantined \/ trials[i].mismatch => i \notin r.alarms
  BY <1>4, <1>9 DEF Contamination!Unscanned
<1>13. r.alarms \cap r.skipped = {}
  BY <1>4, <1>9
<1>. QED  BY <1>6, <1>10, <1>11, <1>12, <1>13, Zenon DEF Contamination!ScanHonest, r, alone, trials, refs

(* A probe has a result of every arm or of none.                           *)
LEMMA ProbesAreWhole ==
  ASSUME Null \notin Contamination!TasksSeen,
         NEW c, c.task \in Contamination!TasksSeen, c.a \in Contamination!RepliesSeen, c.b \in Contamination!RepliesSeen,
         c.flags \in Contamination!FlagsSeen
  PROVE  Contamination!ProbeAllOrNothing(c)
<1> DEFINE ArmNames == Contamination!ArmNames
           replies == [a \in ArmNames |-> IF a = "A" THEN c.a ELSE c.b]
           probe == Contamination!RunMemoryProbe(ArmNames, c.task, replies, Null, c.flags, {}, {})
           failed == Contamination!Calls(c.task) /\ \E a \in ArmNames : replies[a] = Null
           refused == Contamination!Preflight(c.task) # Null \/ failed
           outcome == [a \in ArmNames |->
                         Contamination!Outcome(c.task, replies[a], c.flags, a, Contamination!Resolved(Null))]
<1>1. DOMAIN c.flags \subseteq ArmNames /\ ArmNames # {} /\ c.task # Null
  BY DEF Contamination!FlagsSeen, Contamination!ArmNames
<1>2. probe = IF refused
              THEN [status |-> "cant_probe", overlap_flags |-> c.flags, alarms |-> {}, skipped |-> {}, outcomes |-> <<>>]
              ELSE [status |-> "complete", overlap_flags |-> c.flags, alarms |-> {}, skipped |-> {}, outcomes |-> outcome]
  BY <1>1 DEF Contamination!RunMemoryProbe, Contamination!ProbeRefuses
<1>3. DOMAIN outcome = ArmNames
  OBVIOUS
<1>4. DOMAIN <<>> = {} /\ ArmNames # {}
  BY DEF Contamination!ArmNames
<1>5. replies["A"] = c.a /\ replies["B"] = c.b /\ "A" \in ArmNames /\ "B" \in ArmNames
  BY DEF Contamination!ArmNames
<1>6. \A a \in ArmNames : outcome[a] = Contamination!Outcome(c.task, replies[a], c.flags, a, Contamination!Resolved(Null))
  OBVIOUS
<1>7. \A a \in ArmNames : replies[a] \in Contamination!RepliesSeen
  OBVIOUS
<1>. HIDE DEF outcome, replies, probe, ArmNames
<1>8. ASSUME NEW a \in ArmNames, ~refused, outcome[a] = "flagged"
      PROVE  \/ a \in DOMAIN c.flags /\ c.flags[a]
             \/ c.task.canary /\ replies[a].recalls
             \/ c.task.oracle /\ replies[a].true > replies[a].control
  <2> DEFINE reply == replies[a]
  <2>1. ASSUME c.task.oracle, Contamination!OraclePrefixChannel(reply, Contamination!Resolved(Null)) # {}
        PROVE  reply.true > reply.control
    <3>1. reply # Null
      BY <1>8, <2>1 DEF Contamination!Calls
    <3>2. reply.true \in Int /\ reply.control \in Int
      BY <1>7, <3>1 DEF Contamination!RepliesSeen
    <3>3. reply.true - reply.control >= 20
      BY <2>1 DEF Contamination!OraclePrefixChannel
    <3>. QED  BY <3>2, <3>3
  <2>2. ASSUME c.task.canary, Contamination!CanaryRegurgitationChannel(reply) # {}
        PROVE  reply.recalls
    BY <2>2 DEF Contamination!CanaryRegurgitationChannel
  <2>3. ASSUME a \in DOMAIN c.flags, Contamination!SolutionOverlapChannel(c.flags[a]) # {}
        PROVE  c.flags[a]
    BY <2>3 DEF Contamination!SolutionOverlapChannel
  <2>. QED  BY <1>6, <1>8, <2>1, <2>2, <2>3 DEF Contamination!Outcome
<1>9. /\ probe.overlap_flags = c.flags
      /\ DOMAIN probe.outcomes \in {{}, ArmNames}
      /\ probe.status = "complete" <=> DOMAIN probe.outcomes = ArmNames
      /\ refused <=> probe.status = "cant_probe"
      /\ ~refused => probe.outcomes = outcome
      /\ refused => probe.outcomes = <<>>
  BY <1>2, <1>3, <1>4
<1>10. Contamination!Calls(c.task) /\ (c.a = Null \/ c.b = Null) => probe.status = "cant_probe"
  BY <1>5, <1>9
<1>11. \A a \in DOMAIN probe.outcomes : probe.outcomes[a] = "flagged" =>
           \/ a \in DOMAIN c.flags /\ c.flags[a]
           \/ c.task.canary /\ replies[a].recalls
           \/ c.task.oracle /\ replies[a].true > replies[a].control
  BY <1>3, <1>4, <1>8, <1>9
<1>12. ArmNames \subseteq DOMAIN probe.outcomes \cup DOMAIN probe.overlap_flags =>
         Contamination!ProbeAsymmetries(probe) = Contamination!SummaryAsymmetric(probe, ArmNames)
  <2>1. DOMAIN probe.outcomes \cup DOMAIN probe.overlap_flags \subseteq ArmNames
    BY <1>1, <1>9
  <2>2. ASSUME ArmNames \subseteq DOMAIN probe.outcomes \cup DOMAIN probe.overlap_flags
        PROVE  ArmNames = DOMAIN probe.outcomes \cup DOMAIN probe.overlap_flags
    BY <2>1, <2>2
  <2>. QED  BY <2>2, Zenon DEF Contamination!ProbeAsymmetries, Contamination!SummaryAsymmetric
<1>. QED  BY <1>9, <1>10, <1>11, <1>12, Zenon DEF Contamination!ProbeAllOrNothing, probe, replies, ArmNames

(* A task is clean by date only when it is later than every cutoff, and    *)
(* every cutoff is known (contamination/dating.py).                        *)
THEOREM DatesAreConservative ==
  ASSUME NEW c, c.created \in Nat \cup {Null}, NEW n \in Nat, c.cutoffs \in [1..n -> Nat \cup {Null}]
  PROVE  Contamination!DatingConservative(c)
<1> DEFINE R == Contamination!Range(c.cutoffs)
           cutoff == Contamination!EffectiveCutoff(c.cutoffs)
<1>1. R = {c.cutoffs[i] : i \in 1..n}
  BY InstanceOperators
<1> SUFFICES ASSUME Contamination!CutoffStatus(c.created, cutoff, c.flagged) = "clean_by_date"
             PROVE  ~c.flagged /\ c.cutoffs # <<>> /\ \A i \in DOMAIN c.cutoffs : c.cutoffs[i] # Null /\ c.created > c.cutoffs[i]
  BY DEF Contamination!DatingConservative
<1>2. ~c.flagged /\ c.created # Null /\ cutoff # Null /\ c.created > cutoff
  BY DEF Contamination!CutoffStatus
<1>3. c.cutoffs # <<>> /\ Null \notin R /\ cutoff = Contamination!Max(R)
  BY <1>2 DEF Contamination!EffectiveCutoff
<1>4. R \subseteq Nat /\ R # {} /\ IsFiniteSet(R)
  <2>1. R \subseteq Nat
    BY <1>1, <1>3
  <2>2. n # 0
    BY <1>3
  <2>3. R # {}
    <3>1. 1 \in 1..n
      BY <2>2
    <3>2. c.cutoffs[1] \in R
      BY <1>1, <3>1
    <3>. QED  BY <3>2
  <2>4. c.cutoffs \in Surjection(1..n, R) /\ IsFiniteSet(1..n)
    <3>1. c.cutoffs \in [1..n -> R] /\ \A e \in R : \E i \in 1..n : c.cutoffs[i] = e
      BY <1>1
    <3>2. IsFiniteSet(1..n)
      BY FS_Interval
    <3>. HIDE DEF R
    <3>. QED  BY <3>1, <3>2 DEF Surjection
  <2>. HIDE DEF R
  <2>5. IsFiniteSet(R)
    BY <2>4, FS_Surjection
  <2>. QED  BY <2>1, <2>3, <2>5
<1>. HIDE DEF R, cutoff
<1>5. cutoff \in R /\ \A x \in R : x <= cutoff
  <2>1. PICK m \in R : \A x \in R : x <= m
    BY <1>4, HasLargest
  <2>2. \A x \in R : m >= x
    BY <1>4, <2>1
  <2>3. Contamination!Max(R) = CHOOSE x \in R : \A y \in R : x >= y
    BY DEF Contamination!Max
  <2>4. cutoff \in R /\ \A x \in R : cutoff >= x
    BY <1>3, <2>2, <2>3
  <2>. QED  BY <1>4, <2>4
<1>6. \A i \in DOMAIN c.cutoffs : c.cutoffs[i] \in R
  BY <1>1
<1>7. \A x \in R : x # Null /\ c.created > x
  <2>1. c.created \in Nat /\ cutoff \in Nat /\ c.created > cutoff
    BY <1>2, <1>4, <1>5
  <2>2. \A x \in R : x \in Nat /\ x <= cutoff /\ x # Null
    BY <1>3, <1>4, <1>5
  <2> DEFINE k == c.created
  <2>3. k \in Nat /\ k > cutoff
    BY <2>1
  <2>. HIDE DEF k
  <2>4. \A x \in R : k > x
    BY <2>1, <2>2, <2>3
  <2>. QED  BY <2>2, <2>4 DEF k
<1>. QED  BY <1>2, <1>3, <1>6, <1>7

(* The command of the two channels discloses what each of them found.      *)
LEMMA CommandsDisclose ==
  ASSUME Null \notin Contamination!TasksSeen,
         NEW c, c.task \in Contamination!TasksSeen, NEW first, NEW second, c.trials = <<first, second>>,
         first.arm = "A", second.arm = "B"
  PROVE  Contamination!CommandDiscloses(c)
<1> DEFINE ArmNames == Contamination!ArmNames
           out  == Contamination!ContaminationProbe(c, ArmNames)
           refs == [oracle |-> c.oracle, holdouts |-> IF c.dir = "there" THEN <<c.holdout>> ELSE <<>>]
           scan == Contamination!ScanTrials(c.trials, refs, c.threshold)
           report == IF c.scan THEN scan ELSE Contamination!NoReport
           probe  == Contamination!RunMemoryProbe(ArmNames, c.task, c.replies, c.threshold,
                                                  report.overlap_flags, report.alarms, report.skipped)
           failed == Contamination!Calls(c.task) /\ \E a \in ArmNames : c.replies[a] = Null
           refused == Contamination!Preflight(c.task) # Null \/ failed
           outcome == [a \in ArmNames |-> Contamination!Outcome(c.task, c.replies[a], report.overlap_flags, a,
                                                                Contamination!Resolved(c.threshold))]
           S == Contamination!Scanned(c.trials, refs)
           Overlap(i) == Contamination!SolutionOverlap(c.trials[i].solution, refs, c.threshold)
<1> SUFFICES ASSUME out # Refused
             PROVE  /\ c.locked /\ c.dir # "gone" /\ ~out.probe_error
                    /\ out.probe.alarms = out.alarms /\ out.probe.skipped = out.skipped
                    /\ c.scan /\ Contamination!Measurable(refs) =>
                         \A i \in DOMAIN c.trials :
                           \/ i \in out.skipped
                           \/ /\ c.trials[i].arm \in DOMAIN out.probe.overlap_flags
                              /\ i \in out.alarms => Contamination!FlaggedInProbe(out.probe, c.trials[i].arm)
                    /\ (\E i \in DOMAIN c.trials : c.task.oracle /\ c.replies[c.trials[i].arm] = Null)
                          => out.probe.outcomes = <<>>
  BY Zenon DEF Contamination!CommandDiscloses
<1>1. DOMAIN c.trials = {1, 2} /\ c.trials[1] = first /\ c.trials[2] = second
  OBVIOUS
<1>2. \A i \in DOMAIN c.trials : c.trials[i].arm \in ArmNames
  BY <1>1 DEF Contamination!ArmNames
<1>3. c.locked /\ c.dir # "gone" /\ (c.scan => ~Contamination!ScanRefuses(c.trials, refs, c.threshold))
  BY DEF Contamination!ContaminationProbe
<1>4. out = [alarms |-> report.alarms, skipped |-> report.skipped,
             probe_error |-> Contamination!ProbeRefuses(ArmNames, c.task, report.overlap_flags),
             probe |-> IF Contamination!ProbeRefuses(ArmNames, c.task, report.overlap_flags) THEN Null ELSE probe]
  BY <1>3 DEF Contamination!ContaminationProbe
<1>. HIDE DEF out, refs
<1>5. c.scan => ScanSays(c.trials, refs, c.threshold, scan)
  BY <1>3, ScansSay
<1>. HIDE DEF scan
<1>6. DOMAIN report.overlap_flags \subseteq ArmNames
  <2>1. CASE c.scan
    <3>1. DOMAIN scan.overlap_flags = {c.trials[i].arm : i \in S}
      BY <1>5, <2>1 DEF ScanSays
    <3>2. S \subseteq DOMAIN c.trials
      BY DEF Contamination!Scanned
    <3>. QED  BY <1>2, <2>1, <3>1, <3>2
  <2>2. CASE ~c.scan
    <3>1. report.overlap_flags = <<>>
      BY <2>2 DEF Contamination!NoReport
    <3>. QED  BY <3>1
  <2>. QED  BY <2>1, <2>2
<1>. HIDE DEF report
<1>7. ~Contamination!ProbeRefuses(ArmNames, c.task, report.overlap_flags)
  BY <1>6 DEF Contamination!ProbeRefuses, Contamination!ArmNames
<1>8. probe = IF refused
              THEN [status |-> "cant_probe", overlap_flags |-> report.overlap_flags, alarms |-> report.alarms,
                    skipped |-> report.skipped, outcomes |-> <<>>]
              ELSE [status |-> "complete", overlap_flags |-> report.overlap_flags, alarms |-> report.alarms,
                    skipped |-> report.skipped, outcomes |-> outcome]
  BY <1>7 DEF Contamination!RunMemoryProbe
<1>9. ~out.probe_error /\ out.alarms = report.alarms /\ out.skipped = report.skipped /\ out.probe = probe
  <2>. HIDE DEF probe
  <2>. QED  BY <1>4, <1>7
<1>10. /\ probe.alarms = report.alarms /\ probe.skipped = report.skipped
       /\ probe.overlap_flags = report.overlap_flags
       /\ refused => probe.outcomes = <<>>
  <2>. HIDE DEF probe, refused, outcome
  <2>. QED  BY <1>8
<1>. HIDE DEF probe
<1>11. ASSUME c.scan, Contamination!Measurable(refs), NEW i \in DOMAIN c.trials, i \notin out.skipped
       PROVE  /\ c.trials[i].arm \in DOMAIN out.probe.overlap_flags
              /\ i \in out.alarms => Contamination!FlaggedInProbe(out.probe, c.trials[i].arm)
  <2> DEFINE a == c.trials[i].arm
  <2>1. report = scan
    BY <1>11 DEF report
  <2>2. i \in S
    BY <1>5, <1>9, <1>11, <2>1 DEF ScanSays, Contamination!Scanned
  <2>3. ~Contamination!OverlapRefuses(refs, c.threshold)
    BY <1>3, <1>11, <2>2 DEF Contamination!ScanRefuses
  <2>4. Overlap(i).leaks => Overlap(i).flagged
    BY <2>3 DEF Contamination!SolutionOverlap
  <2>. HIDE DEF Overlap
  <2>5. /\ DOMAIN report.overlap_flags = {c.trials[j].arm : j \in S}
        /\ \A x \in DOMAIN report.overlap_flags :
             report.overlap_flags[x] = \E j \in S : c.trials[j].arm = x /\ Overlap(j).flagged
    <3>1. report.overlap_flags = [x \in {c.trials[j].arm : j \in S} |->
                                    \E j \in S : c.trials[j].arm = x /\ Overlap(j).flagged]
      BY <1>5, <1>11, <2>1 DEF ScanSays, Overlap
    <3>. HIDE DEF S
    <3>. QED  BY <3>1
  <2>6. i \in report.alarms => Overlap(i).leaks
    BY <1>5, <1>11, <2>1 DEF ScanSays, Overlap
  <2>. HIDE DEF S
  <2>7. a \in DOMAIN report.overlap_flags
    BY <2>2, <2>5
  <2>8. Overlap(i).flagged => report.overlap_flags[a]
    BY <2>2, <2>5, <2>7
  <2>. QED  BY <1>9, <1>10, <2>4, <2>6, <2>7, <2>8 DEF Contamination!FlaggedInProbe
<1>12. ASSUME NEW i \in DOMAIN c.trials, c.task.oracle, c.replies[c.trials[i].arm] = Null
       PROVE  out.probe.outcomes = <<>>
  BY <1>2, <1>9, <1>10, <1>12 DEF Contamination!Calls
<1>. QED  BY <1>3, <1>9, <1>10, <1>11, <1>12

(* Every question about contamination is answered as it should be.         *)
LEMMA ContaminationAnswers ==
  ASSUME Ngram \in Nat \ {0}, Null \notin Contamination!TasksSeen, Null \notin Contamination!Copies,
         NEW c \in Contamination!ContaminationCases
  PROVE  Contamination!ContaminationSound(c)
<1>1. CASE c \in [kind : {"copy"}, ref : Contamination!Copies, before : Contamination!Padding,
                   after : Contamination!Padding, holdout : BOOLEAN]
  <2>1. c.kind = "copy" /\ c.ref \in Contamination!Copies /\ c.before \in Contamination!Padding
        /\ c.after \in Contamination!Padding /\ c.holdout \in BOOLEAN
    BY <1>1
  <2>2. PICK n \in 1..4 : c.ref \in [1..n -> 1..4]
    BY <2>1 DEF Contamination!Copies
  <2>3. c.ref \in Seq(Nat) /\ c.ref # <<>> /\ c.ref # Null
    <3>1. \A r \in [1..n -> 1..4] : r \in Seq(Nat) /\ r # <<>>
      OBVIOUS
    <3>. QED  BY <2>1, <2>2, <3>1
  <2>4. \A p \in Contamination!Padding : p \in Seq(Nat)
    <3>1. <<>> \in Seq(Nat) /\ <<1>> \in Seq(Nat) /\ <<5, 1>> \in Seq(Nat)
      OBVIOUS
    <3>. QED  BY <3>1 DEF Contamination!Padding
  <2>5. Contamination!CopyIsFound(c)
    BY <2>1, <2>3, <2>4, CopiesAreFound
  <2>. QED  BY <2>1, <2>5 DEF Contamination!ContaminationSound
<1>2. CASE c \in [kind : {"scan"}, first : Contamination!TrialsSeen,
                   second : {t \in Contamination!TrialsSeen : ~t.quarantined}, refs : Contamination!RefsSeen]
  <2>1. c.kind = "scan" /\ c.refs \in Contamination!RefsSeen
    BY <1>2
  <2>. QED  BY <2>1, ScansAreHonest DEF Contamination!ContaminationSound
<1>3. CASE c \in [kind : {"probe"}, task : {t \in Contamination!TasksSeen : ~t.marked \/ (t.canary /\ t.oracle)},
                   a : Contamination!RepliesSeen, b : Contamination!RepliesSeen, flags : Contamination!FlagsSeen]
  <2>1. /\ c.kind = "probe" /\ c.task \in Contamination!TasksSeen /\ c.a \in Contamination!RepliesSeen
        /\ c.b \in Contamination!RepliesSeen /\ c.flags \in Contamination!FlagsSeen
    BY <1>3
  <2>. QED  BY <2>1, ProbesAreWhole DEF Contamination!ContaminationSound
<1>4. CASE c \in {[kind |-> "command", locked |-> l, dir |-> d, scan |-> s, oracle |-> o, holdout |-> Contamination!Holdout,
          threshold |-> t, trials |-> <<first, second>>, replies |-> replies,
          task |-> [canary |-> FALSE, marked |-> FALSE, oracle |-> o # Null, halves |-> o = Contamination!Oracle]] :
         l \in BOOLEAN, d \in {"none", "gone", "there"}, s \in BOOLEAN,
         o \in {Null, Contamination!Oracle, Contamination!ShortOracle},
         t \in {Null, 100}, first \in Contamination!CommandTrials("A"), second \in Contamination!CommandTrials("B"),
         replies \in [Contamination!ArmNames -> {Null, [recalls |-> FALSE, true |-> 90, control |-> 20]}]}
  <2>1. PICK l \in BOOLEAN, d \in {"none", "gone", "there"}, s \in BOOLEAN,
             o \in {Null, Contamination!Oracle, Contamination!ShortOracle}, t \in {Null, 100},
             first \in Contamination!CommandTrials("A"), second \in Contamination!CommandTrials("B"),
             replies \in [Contamination!ArmNames -> {Null, [recalls |-> FALSE, true |-> 90, control |-> 20]}] :
          c = [kind |-> "command", locked |-> l, dir |-> d, scan |-> s, oracle |-> o, holdout |-> Contamination!Holdout,
               threshold |-> t, trials |-> <<first, second>>, replies |-> replies,
               task |-> [canary |-> FALSE, marked |-> FALSE, oracle |-> o # Null, halves |-> o = Contamination!Oracle]]
    BY <1>4
  <2>2. c.kind = "command" /\ c.trials = <<first, second>>
        /\ c.task = [canary |-> FALSE, marked |-> FALSE, oracle |-> o # Null, halves |-> o = Contamination!Oracle]
    BY <2>1
  <2>3. c.task \in Contamination!TasksSeen
    BY <2>2 DEF Contamination!TasksSeen
  <2>4. first.arm = "A" /\ second.arm = "B"
    BY DEF Contamination!CommandTrials
  <2>5. Contamination!CommandDiscloses(c)
    BY <2>2, <2>3, <2>4, CommandsDisclose
  <2>. QED  BY <2>2, <2>5 DEF Contamination!ContaminationSound
<1>5. CASE c \in [kind : {"date"}, created : {Null, 1, 2, 3}, cutoffs : UNION {[1..n -> {Null, 1, 2}] : n \in 0..2},
                   flagged : BOOLEAN]
  <2>1. c.kind = "date" /\ c.created \in {Null, 1, 2, 3}
        /\ c.cutoffs \in UNION {[1..n -> {Null, 1, 2}] : n \in 0..2}
    BY <1>5
  <2>2. PICK n \in 0..2 : c.cutoffs \in [1..n -> {Null, 1, 2}]
    BY <2>1
  <2>3. c.cutoffs \in [1..n -> Nat \cup {Null}] /\ c.created \in Nat \cup {Null} /\ n \in Nat
    BY <2>1, <2>2
  <2>. QED  BY <2>1, <2>3, DatesAreConservative DEF Contamination!ContaminationSound
<1>. QED  BY <1>1, <1>2, <1>3, <1>4, <1>5 DEF Contamination!ContaminationCases

-----------------------------------------------------------------------------
(* Forensics: evidence, coverage, metrics and reviews (forensics/).        *)

(* The operators of sets and sums of the instance are the library's.       *)
LEMMA ForensicOperators ==
  /\ \A S : Forensics!Cardinality(S) = Cardinality(S)
  /\ \A S : Forensics!Min(S) = CHOOSE x \in S : \A y \in S : x <= y
  /\ \A f : Forensics!SumFunction(f) = SumFunction(f)
<1>1. \A S : Forensics!Cardinality(S) = Cardinality(S)
  BY DEF Forensics!Cardinality, Cardinality
<1>2. \A S : Forensics!Min(S) = CHOOSE x \in S : \A y \in S : x <= y
  BY DEF Forensics!Min
<1>3. \A f : Forensics!SumFunction(f) = SumFunction(f)
  BY DEF Forensics!SumFunction, SumFunction, Forensics!SumFunctionOnSet, SumFunctionOnSet,
         Forensics!FoldFunctionOnSet, FoldFunctionOnSet, Forensics!MapThenFoldSet, MapThenFoldSet
<1>. QED  BY <1>1, <1>2, <1>3

(* Bytes that lost their commitment: the evidence is that of a trial       *)
(* without them.                                                           *)
LEMMA EvidenceWithoutThem ==
  ASSUME NEW t, DOMAIN t = {"recorded", "disk", "steps", "grade", "committed", "live", "holdouts", "values", "arm"}
  PROVE  /\ t.grade # Null /\ t.committed # Null /\ t.live # t.committed =>
              Forensics!Evidence(t) = Forensics!Evidence([t EXCEPT !.live = Forensics!Nothing, !.committed = Forensics!Nothing])
         /\ Forensics!ResolveTrajectory(t) # "verified" =>
              Forensics!Evidence(t) = Forensics!Evidence([t EXCEPT !.recorded = FALSE])
<1>1. ASSUME t.grade # Null, t.committed # Null, t.live # t.committed
      PROVE  Forensics!Evidence(t) = Forensics!Evidence([t EXCEPT !.live = Forensics!Nothing, !.committed = Forensics!Nothing])
  <2> DEFINE u == [t EXCEPT !.live = Forensics!Nothing, !.committed = Forensics!Nothing]
  <2>1. /\ u.recorded = t.recorded /\ u.disk = t.disk /\ u.steps = t.steps /\ u.grade = t.grade
        /\ u.holdouts = t.holdouts /\ u.values = t.values /\ u.live = Forensics!Nothing
    OBVIOUS
  <2>. HIDE DEF u
  <2>2. Forensics!WorkspaceFiles(t) = Forensics!Nothing
    BY <1>1 DEF Forensics!WorkspaceFiles, Forensics!ResolveWorkspace
  <2>3. Forensics!WorkspaceFiles(u) = Forensics!Nothing
    BY <2>1 DEF Forensics!WorkspaceFiles, Forensics!ReadTextFiles
  <2>4. Forensics!ResolveTrajectory(t) = Forensics!ResolveTrajectory(u)
    BY <2>1 DEF Forensics!ResolveTrajectory
  <2>. QED  BY <2>1, <2>2, <2>3, <2>4 DEF Forensics!Evidence, u
<1>2. ASSUME Forensics!ResolveTrajectory(t) # "verified"
      PROVE  Forensics!Evidence(t) = Forensics!Evidence([t EXCEPT !.recorded = FALSE])
  <2> DEFINE u == [t EXCEPT !.recorded = FALSE]
  <2>1. /\ u.recorded = FALSE /\ u.steps = t.steps /\ u.grade = t.grade
        /\ u.holdouts = t.holdouts /\ u.values = t.values /\ u.live = t.live /\ u.committed = t.committed
    OBVIOUS
  <2>. HIDE DEF u
  <2>2. Forensics!WorkspaceFiles(t) = Forensics!WorkspaceFiles(u)
    BY <2>1 DEF Forensics!WorkspaceFiles, Forensics!ReadTextFiles, Forensics!ResolveWorkspace
  <2>3. Forensics!ResolveTrajectory(u) # "verified"
    BY <2>1 DEF Forensics!ResolveTrajectory
  <2>. QED  BY <1>2, <2>1, <2>2, <2>3 DEF Forensics!Evidence, u
<1>. QED  BY <1>1, <1>2

(* A flag about the workspace is of a file that the agent edited.          *)
LEMMA WorkspaceFlagsAreEdits ==
  ASSUME NEW ev, NEW token, NEW f \in Forensics!FilesWith(ev, token), ev.pristine = Null
  PROVE  /\ token \in ev.workspace[f] /\ f \in Forensics!WorkFiles /\ ev.steps # Null
         /\ \E i \in DOMAIN ev.steps : ev.steps[i].kind = "file_edit"
                                       /\ f \in UNION {Forensics!NamedBy(p) : p \in ev.steps[i].files}
<1>1. /\ f \in Forensics!WorkFiles /\ token \in ev.workspace[f]
      /\ Forensics!InsertedByAgent(ev, f, token) # Null /\ Forensics!InsertedByAgent(ev, f, token).by
  BY DEF Forensics!FilesWith
<1>2. Forensics!Touched(ev.steps) # Null /\ Forensics!AgentEdited(f, Forensics!Touched(ev.steps))
  BY <1>1 DEF Forensics!InsertedByAgent
<1>3. PICK p \in Forensics!Touched(ev.steps) : f \in Forensics!NamedBy(p)
  BY <1>2 DEF Forensics!AgentEdited
<1>4. ev.steps # Null /\ Forensics!Touched(ev.steps) = UNION {ev.steps[i].files : i \in Forensics!Edits(ev.steps)}
  BY <1>2 DEF Forensics!Touched
<1>5. PICK i \in Forensics!Edits(ev.steps) : p \in ev.steps[i].files
  BY <1>3, <1>4
<1>6. i \in DOMAIN ev.steps /\ ev.steps[i].kind = "file_edit"
  BY DEF Forensics!Edits
<1>. QED  BY <1>1, <1>3, <1>4, <1>5, <1>6

(* Whatever its steps: bytes of a trial that no longer match their         *)
(* commitment say nothing, and the report names the gap                    *)
(* (forensics/assembler.py).                                               *)
THEOREM TamperingIsSilent ==
  ASSUME NEW t, DOMAIN t = {"recorded", "disk", "steps", "grade", "committed", "live", "holdouts", "values", "arm"},
         t.disk \in {"intact", "edited"}, t.live \in Forensics!Workspaces \cup {Gone}, t.steps # Null, DOMAIN t.steps = {1, 2}
  PROVE  Forensics!TamperedBytesAreSilent(t)
<1> DEFINE ev == Forensics!Evidence(t)
           flags == Forensics!RunDetectors(ev)
           one == <<t>>
<1>0. DOMAIN one = {1} /\ one[1] = t
  OBVIOUS
<1>. HIDE DEF one
<1>1. ASSUME t.grade # Null, t.committed # Null, t.live # t.committed
      PROVE  Forensics!WorkspaceGaps(one) # {}
  <2>1. Forensics!ResolveWorkspace(t) # "verified"
    BY <1>1 DEF Forensics!ResolveWorkspace
  <2>2. 1 \in {j \in DOMAIN one : Forensics!ResolveWorkspace(one[j]) # "verified"}
    BY <1>0, <2>1
  <2>3. [trial |-> 1, reason |-> Forensics!ResolveWorkspace(one[1])] \in Forensics!WorkspaceGaps(one)
    BY <2>2 DEF Forensics!WorkspaceGaps
  <2>. QED  BY <2>3
<1>2. ASSUME t.disk # "intact"
      PROVE  Forensics!ResolveTrajectory(t) # "verified" /\ Forensics!TrajectoryGaps(one) # {}
  <2>1. Forensics!ResolveTrajectory(t) # "verified"
    BY <1>2 DEF Forensics!ResolveTrajectory
  <2>2. 1 \in {j \in DOMAIN one : Forensics!ResolveTrajectory(one[j]) # "verified"}
    BY <1>0, <2>1
  <2>3. [trial |-> 1, reason |-> Forensics!ResolveTrajectory(one[1])] \in Forensics!TrajectoryGaps(one)
    BY <2>2 DEF Forensics!TrajectoryGaps
  <2>. QED  BY <2>1, <2>3
<1>3. /\ ev.pristine = Null /\ ev.workspace = Forensics!WorkspaceFiles(t) /\ (ev.steps # Null => ev.steps = t.steps)
      /\ Forensics!ResolveTrajectory(t) = "verified" => ev.steps = t.steps
  BY DEF Forensics!Evidence
<1>4. /\ "hardcoded_expected_output" \in flags => Forensics!HardcodedExpectedOutput(ev) # {}
      /\ "test_skip_insertion" \in flags => Forensics!TestSkipInsertion(ev) # {}
      /\ Forensics!TransientTestSkip(ev) # {} => "transient_test_skip" \in flags
  <2>. HIDE DEF ev
  <2>. QED  BY DEF Forensics!RunDetectors, Forensics!Detected
<1>. HIDE DEF ev, flags
<1>5. ASSUME flags \cap Forensics!WorkspaceDetectors # {}
      PROVE  /\ t.live \notin {Gone, Forensics!Nothing}
             /\ t.committed \in {t.live, Null} \/ t.grade = Null
             /\ \E i \in DOMAIN t.steps : t.steps[i].kind = "file_edit"
                                          /\ "a" \in UNION {Forensics!NamedBy(p) : p \in t.steps[i].files}
  <2>1. PICK token, f : f \in Forensics!FilesWith(ev, token)
    BY <1>4, <1>5 DEF Forensics!WorkspaceDetectors, Forensics!HardcodedExpectedOutput, Forensics!TestSkipInsertion
  <2>2. /\ token \in ev.workspace[f] /\ f \in Forensics!WorkFiles /\ ev.steps # Null
        /\ \E i \in DOMAIN ev.steps : ev.steps[i].kind = "file_edit"
                                      /\ f \in UNION {Forensics!NamedBy(p) : p \in ev.steps[i].files}
    BY <1>3, <2>1, WorkspaceFlagsAreEdits
  <2>3. Forensics!WorkspaceFiles(t) # Forensics!Nothing
    BY <1>3, <2>2 DEF Forensics!Nothing
  <2>4. t.live \notin {Gone, Forensics!Nothing} /\ Forensics!WorkspaceFiles(t) = t.live
        /\ Forensics!ResolveWorkspace(t) \in {"verified", "absent"}
    BY <2>3 DEF Forensics!WorkspaceFiles, Forensics!ReadTextFiles
  <2>5. t.committed \in {t.live, Null} \/ t.grade = Null
    BY <2>4 DEF Forensics!ResolveWorkspace
  <2>6. f = "a"
    <3>1. t.live = [g \in Forensics!WorkFiles |-> IF g = "a" THEN {"value", "marker"} ELSE {}]
      BY <2>4 DEF Forensics!Workspaces
    <3>. QED  BY <1>3, <2>2, <2>4, <3>1
  <2>. QED  BY <1>3, <2>2, <2>4, <2>5, <2>6
<1>6. ASSUME Forensics!ResolveTrajectory(t) = "verified", "marker" \in Forensics!Patch(t.steps[1])
      PROVE  "transient_test_skip" \in flags
  <2>1. ev.steps = t.steps /\ 1 \in DOMAIN t.steps
    BY <1>3, <1>6
  <2>2. t.steps[1].detail # Null
    BY <1>6 DEF Forensics!Patch, Forensics!Measured
  <2>3. Forensics!DetailEvaluable(ev.steps)
    BY <2>1, <2>2 DEF Forensics!DetailEvaluable
  <2>. QED  BY <1>4, <1>6, <2>1, <2>3 DEF Forensics!TransientTestSkip
<1>. QED  BY <1>1, <1>2, <1>5, <1>6, EvidenceWithoutThem, Zenon DEF Forensics!TamperedBytesAreSilent, ev, flags, one

(* As many indices as there are records that name one each.                *)
LEMMA NamedOnce ==
  ASSUME NEW S, IsFiniteSet(S), NEW R
  PROVE  LET T == {[trial |-> i, reason |-> R[i]] : i \in S}
         IN  Cardinality(T) = Cardinality(S) /\ {g.trial : g \in T} = S
<1> DEFINE T == {[trial |-> i, reason |-> R[i]] : i \in S}
           f == [i \in S |-> [trial |-> i, reason |-> R[i]]]
<1>1. f \in Surjection(S, T) /\ f \in Injection(S, T)
  <2>1. f \in [S -> T] /\ \A e \in T : \E i \in S : f[i] = e
    OBVIOUS
  <2>2. \A i, j \in S : f[i] = f[j] => i = j
    OBVIOUS
  <2>. HIDE DEF f, T
  <2>4. f \in Surjection(S, T)
    BY <2>1 DEF Surjection
  <2>5. f \in Injection(S, T)
    BY <2>1, <2>2 DEF Injection, IsInjective
  <2>. QED  BY <2>4, <2>5
<1>2. {g.trial : g \in T} = S
  <2>1. \A g \in T : g.trial \in S
    OBVIOUS
  <2>2. ASSUME NEW i \in S PROVE \E g \in T : i = g.trial
    <3>1. [trial |-> i, reason |-> R[i]] \in T /\ [trial |-> i, reason |-> R[i]].trial = i
      OBVIOUS
    <3>. QED  BY <3>1
  <2>. HIDE DEF T
  <2>. QED  BY <2>1, <2>2
<1>. HIDE DEF f, T
<1>3. Cardinality(T) = Cardinality(S)
  BY <1>1, FS_Surjection
<1>. QED  BY <1>2, <1>3 DEF T

(* A set in two parts, those that pass a test and those that fail it, is   *)
(* counted by its parts.                                                   *)
Parts(S, P, Q) == P \subseteq S /\ Q \subseteq S /\ P \cap Q = {} /\ P \cup Q = S
CountedBy(S, P, Q) ==
  /\ Cardinality(S) = Cardinality(P) + Cardinality(Q)
  /\ Cardinality(P) \in Nat /\ Cardinality(Q) \in Nat /\ IsFiniteSet(P) /\ IsFiniteSet(Q)

(* A finite set in two parts has as many elements as the two together.     *)
LEMMA TwoParts ==
  ASSUME NEW S, IsFiniteSet(S), NEW P, NEW Q, Parts(S, P, Q)
  PROVE  CountedBy(S, P, Q)
<1>0. P \subseteq S /\ Q \subseteq S /\ P \cap Q = {} /\ P \cup Q = S
  BY DEF Parts
<1>1. IsFiniteSet(P) /\ IsFiniteSet(Q)
  BY <1>0, FS_Subset
<1>2. Cardinality(P) \in Nat /\ Cardinality(Q) \in Nat
  BY <1>1, FS_CardinalityType
<1>3. Cardinality(P \cup Q) = Cardinality(P) + Cardinality(Q) - Cardinality(P \cap Q)
  BY <1>1, FS_Union
<1>4. Cardinality(P \cap Q) = 0
  BY <1>0, FS_EmptySet
<1>5. Cardinality(S) = Cardinality(P) + Cardinality(Q) - 0
  BY <1>0, <1>3, <1>4
<1>6. Cardinality(S) = Cardinality(P) + Cardinality(Q)
  BY ONLY <1>2, <1>5
<1>. QED  BY <1>1, <1>2, <1>6, Zenon DEF CountedBy

(* A trial whose steps can be counted, on one of the two arms.             *)
Countable(t) == t.arm \in {"A", "B"} /\ \E X : t.steps \in Seq(X)

(* What the report tallies of an arm: its trials, those with detail, and   *)
(* no more steps with detail than steps.                                   *)
Tallied(d, trials, arm, n) ==
  LET mine == {i \in 1..n : trials[i].arm = arm}
  IN  /\ d.trials = Cardinality(mine)
      /\ d.detail_evaluable = Cardinality({i \in mine : Forensics!DetailEvaluable(Forensics!Evidence(trials[i]).steps)})
      /\ d.steps_total \in Nat /\ d.steps_with_detail \in Nat /\ d.steps_with_detail <= d.steps_total

(* The tallies of an arm are those counts, whatever evidence was lost.     *)
LEMMA StepsAreCounted ==
  ASSUME NEW trials, NEW arm, NEW n \in Nat, DOMAIN trials = 1..n, \A i \in 1..n : Countable(trials[i])
  PROVE  Tallied(Forensics!DetailByArm(trials, arm), trials, arm, n)
<1> DEFINE mine == {i \in 1..n : trials[i].arm = arm}
           seen == [i \in 1..n |-> IF Forensics!Evidence(trials[i]).steps = Null THEN <<>> ELSE Forensics!Evidence(trials[i]).steps]
           total == [i \in mine |-> Len(seen[i])]
           detailed == [i \in mine |-> Cardinality({j \in DOMAIN seen[i] : seen[i][j].detail # Null})]
           d == Forensics!DetailByArm(trials, arm)
<1>1. /\ d.trials = Cardinality(mine)
      /\ d.detail_evaluable = Cardinality({i \in mine : Forensics!DetailEvaluable(Forensics!Evidence(trials[i]).steps)})
      /\ d.steps_total = SumFunction(total)
      /\ d.steps_with_detail = SumFunction(detailed)
  BY ForensicOperators DEF Forensics!DetailByArm
<1>2. \A i \in 1..n : /\ Len(seen[i]) \in Nat
                      /\ Cardinality({j \in DOMAIN seen[i] : seen[i][j].detail # Null}) \in Nat
                      /\ Cardinality({j \in DOMAIN seen[i] : seen[i][j].detail # Null}) <= Len(seen[i])
  <2> SUFFICES ASSUME NEW i \in 1..n
               PROVE  /\ Len(seen[i]) \in Nat
                      /\ Cardinality({j \in DOMAIN seen[i] : seen[i][j].detail # Null}) \in Nat
                      /\ Cardinality({j \in DOMAIN seen[i] : seen[i][j].detail # Null}) <= Len(seen[i])
    OBVIOUS
  <2>1. PICK X : seen[i] \in Seq(X)
    <3>1. seen[i] = <<>> \/ seen[i] = trials[i].steps
      BY DEF Forensics!Evidence
    <3>2. PICK X : trials[i].steps \in Seq(X)
      BY DEF Countable
    <3>. HIDE DEF seen
    <3> DEFINE s == seen[i]
    <3>4. s = <<>> \/ s = trials[i].steps
      BY <3>1
    <3>. HIDE DEF s
    <3>6. <<>> \in Seq(X)
      OBVIOUS
    <3>5. s \in Seq(X)
      BY <3>2, <3>4, <3>6, Zenon
    <3>3. seen[i] \in Seq(X)
      BY <3>5 DEF s
    <3>. QED  BY <3>3
  <2> DEFINE s == seen[i]
             D == {j \in DOMAIN s : s[j].detail # Null}
  <2>. HIDE DEF seen
  <2>2. Len(s) \in Nat /\ DOMAIN s = 1..Len(s)
    BY <2>1
  <2>3. IsFiniteSet(1..Len(s)) /\ Cardinality(1..Len(s)) = Len(s)
    <3> DEFINE k == Len(s)
    <3>1. k \in Nat
      BY <2>2
    <3>. HIDE DEF k
    <3>2. IsFiniteSet(1..k) /\ Cardinality(1..k) = IF 1 > k THEN 0 ELSE k - 1 + 1
      BY <3>1, FS_Interval
    <3>3. Cardinality(1..k) = k
      BY <3>1, <3>2
    <3>. QED  BY <3>2, <3>3 DEF k
  <2>4. D \subseteq 1..Len(s)
    BY <2>2
  <2>. HIDE DEF s, D
  <2>5. IsFiniteSet(D) /\ Cardinality(D) <= Len(s)
    BY <2>3, <2>4, FS_Subset
  <2>6. Cardinality(D) \in Nat
    BY <2>5, FS_CardinalityType
  <2>. QED  BY <2>2, <2>5, <2>6 DEF s, D
<1>. HIDE DEF seen
<1>3. IsFiniteSet(mine)
  <2>1. IsFiniteSet(1..n) /\ mine \subseteq 1..n
    BY FS_Interval
  <2>. QED  BY <2>1, FS_Subset
<1>4. total \in [mine -> Nat] /\ detailed \in [mine -> Nat] /\ \A i \in mine : detailed[i] <= total[i]
  BY <1>2
<1>. HIDE DEF mine, total, detailed, d
<1>5. SumFunction(detailed) <= SumFunction(total)
  BY <1>3, <1>4, SumIsMonotone
<1>6. SumFunction(detailed) \in Nat /\ SumFunction(total) \in Nat
  BY <1>3, <1>4, SumIsNat DEF Numbers
<1>. QED  BY <1>1, <1>5, <1>6 DEF mine, d, Tallied

(* However many trials: each is measured or has one named gap, and the     *)
(* arms add up to the report (forensics/report.py).                        *)
THEOREM CoverageOfAll ==
  ASSUME Null \notin Forensics!GapReasons,
         NEW trials, NEW n \in Nat, DOMAIN trials = 1..n, Len(trials) = n, \A i \in 1..n : Countable(trials[i])
  PROVE  Forensics!CoverageAddsUp(trials)
<1> DEFINE r == Forensics!Report(trials)
           Verified(i) == Forensics!ResolveTrajectory(trials[i]) = "verified"
           Detailed(i) == Forensics!DetailEvaluable(Forensics!Evidence(trials[i]).steps)
           measured == {i \in 1..n : Verified(i)}
           lost == {i \in 1..n : ~Verified(i)}
           rich == {i \in 1..n : Detailed(i)}
           poor == {i \in 1..n : ~Detailed(i)}
           armA == {i \in 1..n : trials[i].arm = "A"}
           armB == {i \in 1..n : trials[i].arm = "B"}
           status == [i \in 1..n |-> Forensics!ResolveTrajectory(trials[i])]
           reason == [i \in 1..n |-> Forensics!DetailReason(trials[i])]
           a == Forensics!DetailByArm(trials, "A")
           b == Forensics!DetailByArm(trials, "B")
<1>1. /\ r.trials = n /\ r.covered = Cardinality(measured) /\ DOMAIN r.metrics = measured
      /\ r.gaps = Forensics!TrajectoryGaps(trials) /\ r.detail_gaps = Forensics!DetailGaps(trials)
      /\ r.detail_by_arm["A"] = a /\ r.detail_by_arm["B"] = b
      /\ r.flags = UNION {{i} \X Forensics!RunDetectors(Forensics!Evidence(trials[i])) : i \in 1..n}
  BY ForensicOperators DEF Forensics!Report
<1>2. /\ IsFiniteSet(1..n) /\ Cardinality(1..n) = n
  <2>1. IsFiniteSet(1..n) /\ Cardinality(1..n) = IF 1 > n THEN 0 ELSE n - 1 + 1
    BY FS_Interval
  <2>. QED  BY <2>1
<1>3. n = Cardinality(measured) + Cardinality(lost) /\ IsFiniteSet(lost)
  <2>1. Parts(1..n, measured, lost)
    BY DEF Parts
  <2>. HIDE DEF measured, lost
  <2>2. CountedBy(1..n, measured, lost)
    BY <1>2, <2>1, TwoParts
  <2>. QED  BY <1>2, <2>2 DEF CountedBy
<1>4. n = Cardinality(rich) + Cardinality(poor) /\ IsFiniteSet(poor) /\ IsFiniteSet(rich)
  <2>1. Parts(1..n, rich, poor)
    BY DEF Parts
  <2>. HIDE DEF rich, poor
  <2>2. CountedBy(1..n, rich, poor)
    BY <1>2, <2>1, TwoParts
  <2>. QED  BY <1>2, <2>2 DEF CountedBy
<1>5. armA \cap armB = {} /\ armA \cup armB = 1..n
  BY DEF Countable
<1>6. n = Cardinality(armA) + Cardinality(armB)
  <2>1. Parts(1..n, armA, armB)
    BY <1>5 DEF Parts
  <2>. HIDE DEF armA, armB
  <2>2. CountedBy(1..n, armA, armB)
    BY <1>2, <2>1, TwoParts
  <2>. QED  BY <1>2, <2>2 DEF CountedBy
<1>7. Cardinality(rich) = Cardinality({i \in armA : Detailed(i)}) + Cardinality({i \in armB : Detailed(i)})
  <2> DEFINE P == {i \in armA : Detailed(i)}
             Q == {i \in armB : Detailed(i)}
  <2>1. Parts(rich, P, Q)
    BY <1>5 DEF Parts
  <2>. HIDE DEF P, Q, rich
  <2>2. CountedBy(rich, P, Q)
    BY <1>4, <2>1, TwoParts
  <2>. QED  BY <2>2 DEF P, Q, CountedBy
<1>8. \A i \in 1..n : Detailed(i) <=> Forensics!DetailReason(trials[i]) = Null
  <2> SUFFICES ASSUME NEW i \in 1..n, ~Detailed(i)
               PROVE  Forensics!DetailReason(trials[i]) # Null
    BY DEF Forensics!DetailReason
  <2>1. Forensics!DetailReason(trials[i]) \in Forensics!GapReasons
    BY DEF Forensics!DetailReason, Forensics!GapReasons, Forensics!ResolveTrajectory
  <2>. QED  BY <2>1
<1>9. r.gaps = {[trial |-> i, reason |-> status[i]] : i \in lost}
  <2>1. {j \in DOMAIN trials : Forensics!ResolveTrajectory(trials[j]) # "verified"} = lost
    OBVIOUS
  <2>2. r.gaps = {[trial |-> i, reason |-> Forensics!ResolveTrajectory(trials[i])] : i \in lost}
    BY <1>1, <2>1 DEF Forensics!TrajectoryGaps
  <2>3. \A i \in lost : status[i] = Forensics!ResolveTrajectory(trials[i])
    OBVIOUS
  <2>. HIDE DEF lost, status, r
  <2>. QED  BY <2>2, <2>3
<1>10. r.detail_gaps = {[trial |-> i, reason |-> reason[i]] : i \in poor}
  <2>1. {j \in DOMAIN trials : Forensics!DetailReason(trials[j]) # Null} = poor
    BY <1>8
  <2>2. r.detail_gaps = {[trial |-> i, reason |-> Forensics!DetailReason(trials[i])] : i \in poor}
    BY <1>1, <2>1 DEF Forensics!DetailGaps
  <2>3. \A i \in poor : reason[i] = Forensics!DetailReason(trials[i])
    OBVIOUS
  <2>. HIDE DEF poor, reason, r
  <2>. QED  BY <2>2, <2>3
<1>11. /\ a.trials = Cardinality(armA) /\ a.detail_evaluable = Cardinality({i \in armA : Detailed(i)})
       /\ a.steps_total \in Nat /\ a.steps_with_detail \in Nat /\ a.steps_with_detail <= a.steps_total
  <2>1. Tallied(a, trials, "A", n)
    BY StepsAreCounted
  <2>. HIDE DEF a
  <2>. QED  BY <2>1 DEF Tallied
<1>12. /\ b.trials = Cardinality(armB) /\ b.detail_evaluable = Cardinality({i \in armB : Detailed(i)})
       /\ b.steps_total \in Nat /\ b.steps_with_detail \in Nat /\ b.steps_with_detail <= b.steps_total
  <2>1. Tallied(b, trials, "B", n)
    BY StepsAreCounted
  <2>. HIDE DEF b
  <2>. QED  BY <2>1 DEF Tallied
<1>13. ASSUME NEW f \in r.flags, f[2] \notin Forensics!WorkspaceDetectors \cup {"suspicious_single_step", "holdout_tamper"}
       PROVE  f[1] \notin poor
  <2>1. PICK i \in 1..n : f \in {i} \X Forensics!RunDetectors(Forensics!Evidence(trials[i]))
    BY <1>1
  <2>2. f[1] = i /\ f[2] \in Forensics!RunDetectors(Forensics!Evidence(trials[i]))
    BY <2>1
  <2> DEFINE ev == Forensics!Evidence(trials[i])
  <2>. HIDE DEF ev
  <2>3. /\ f[2] \in DOMAIN Forensics!Detected(ev) /\ Forensics!Detected(ev)[f[2]] # {}
    BY <2>2 DEF Forensics!RunDetectors, ev
  <2>4. f[2] \in {"transient_holdout_tamper", "transient_hardcoded_output", "transient_test_skip"}
    BY <1>13, <2>3 DEF Forensics!Detected, Forensics!WorkspaceDetectors
  <2>5. Forensics!DetailEvaluable(ev.steps)
    <3>1. /\ Forensics!Detected(ev)["transient_holdout_tamper"] = Forensics!TransientHoldoutTamper(ev)
          /\ Forensics!Detected(ev)["transient_hardcoded_output"] = Forensics!TransientHardcodedOutput(ev)
          /\ Forensics!Detected(ev)["transient_test_skip"] = Forensics!TransientTestSkip(ev)
      BY DEF Forensics!Detected
    <3>2. \/ Forensics!TransientHoldoutTamper(ev) # {} \/ Forensics!TransientHardcodedOutput(ev) # {}
          \/ Forensics!TransientTestSkip(ev) # {}
      BY <2>3, <2>4, <3>1
    <3>. QED  BY <3>2 DEF Forensics!TransientHoldoutTamper, Forensics!TransientHardcodedOutput, Forensics!TransientTestSkip
  <2>. QED  BY <2>2, <2>5 DEF ev
<1>. HIDE DEF r, measured, lost, rich, poor, armA, armB, status, reason, a, b, Detailed
<1>14. Cardinality(r.gaps) = Cardinality(lost) /\ {g.trial : g \in r.gaps} = lost
  BY <1>3, <1>9, NamedOnce
<1>15. Cardinality(r.detail_gaps) = Cardinality(poor) /\ {g.trial : g \in r.detail_gaps} = poor
  BY <1>4, <1>10, NamedOnce
<1>16. DOMAIN r.metrics \cap lost = {}
  BY <1>1 DEF measured, lost
<1>17. n = a.trials + b.trials /\ n = a.detail_evaluable + b.detail_evaluable + Cardinality(r.detail_gaps)
  BY <1>4, <1>6, <1>7, <1>11, <1>12, <1>15
<1>18. a.steps_with_detail + b.steps_with_detail <= a.steps_total + b.steps_total
  BY <1>11, <1>12
<1>19. n = r.covered + Cardinality(r.gaps)
  BY <1>1, <1>3, <1>14
<1>. QED  BY <1>1, <1>13, <1>14, <1>15, <1>16, <1>17, <1>18, <1>19, ForensicOperators DEF Forensics!CoverageAddsUp, r

(* The first of a set of positions.                                        *)
Least(S) == CHOOSE x \in S : \A y \in S : x <= y

(* A set of positions that is not empty has a first one.                   *)
LEMMA LeastOfPositions ==
  ASSUME NEW n \in Nat, NEW S \in SUBSET (1..n), S # {}
  PROVE  Least(S) \in S /\ \A y \in S : Least(S) <= y
<1> DEFINE T == {m \in 1..n : n + 1 - m \in S}
<1>1. T \in SUBSET (1..n) /\ T # {}
  <2>1. PICK x \in S : x \in 1..n
    OBVIOUS
  <2>2. n + 1 - x \in T
    BY <2>1
  <2>. QED  BY <2>2
<1>2. PICK x \in T : \A y \in T : y <= x
  <2>. HIDE DEF T
  <2>. QED  BY <1>1, LastPosition
<1>3. n + 1 - x \in S /\ \A y \in S : n + 1 - x <= y
  <2>1. x \in 1..n /\ n + 1 - x \in S
    BY <1>2
  <2>2. ASSUME NEW y \in S PROVE n + 1 - x <= y
    <3>1. n + 1 - y \in T
      OBVIOUS
    <3>2. n + 1 - y <= x
      BY <1>2, <3>1
    <3>. QED  BY <2>1, <3>2
  <2>. QED  BY <2>1, <2>2
<1>. QED  BY <1>3, Zenon DEF Least

(* Its operators of sets and sums are the library's.                       *)
LEMMA MetricOperators ==
  /\ \A S : Forensics!Cardinality(S) = Cardinality(S)
  /\ \A S : Forensics!Min(S) = Least(S)
  /\ \A S : Forensics!Max(S) = Greatest(S)
<1>1. \A S : Forensics!Cardinality(S) = Cardinality(S)
  BY DEF Forensics!Cardinality, Cardinality
<1>2. \A S : Forensics!Min(S) = Least(S)
  BY DEF Forensics!Min, Least
<1>3. \A S : Forensics!Max(S) = Greatest(S)
  BY DEF Forensics!Max, Greatest
<1>. QED  BY <1>1, <1>2, <1>3

(* Steps are n records of those fields.                                    *)
StepFields == {"kind", "files", "detail", "command", "exit", "ts"}
Steps(steps, n) ==
  /\ DOMAIN steps = 1..n /\ Len(steps) = n
  /\ steps = [j \in 1..n |-> steps[j]] /\ \A j \in 1..n : steps[j] = [f \in StepFields |-> steps[j][f]]

(* u is the steps with one measurement of the step i taken away.           *)
Without(u, steps, i, what, n) ==
  /\ DOMAIN u = 1..n /\ Len(u) = n
  /\ \A j \in 1..n : u[j].kind = steps[j].kind /\ u[j].exit = steps[j].exit
  /\ \A j \in 1..n : what # "files" \/ j # i => u[j].files = steps[j].files
  /\ \A j \in 1..n : what # "command" \/ j # i => u[j].command = steps[j].command
  /\ \A j \in 1..n : what # "ts" \/ j # i => u[j].ts = steps[j].ts
  /\ what = "files" => u[i].files = Null
  /\ what = "command" => u[i].command = Null
  /\ what = "ts" => u[i].ts = Null

(* Hide takes one measurement away and leaves the others.                  *)
LEMMA HideTakesAway ==
  ASSUME NEW n \in Nat, NEW steps, Steps(steps, n), NEW i \in 1..n, NEW what \in {"files", "command", "ts"}
  PROVE  Without(Forensics!Hide(steps, i, what), steps, i, what, n)
<1> DEFINE u == Forensics!Hide(steps, i, what)
           hid == [steps[i] EXCEPT ![what] = Null]
<1>1. u = [steps EXCEPT ![i] = hid]
  BY DEF Forensics!Hide
<1>2. DOMAIN steps = 1..n /\ steps[i] = [f \in StepFields |-> steps[i][f]]
  BY DEF Steps
<1>3. /\ hid.kind = steps[i].kind /\ hid.exit = steps[i].exit
      /\ what # "files" => hid.files = steps[i].files
      /\ what # "command" => hid.command = steps[i].command
      /\ what # "ts" => hid.ts = steps[i].ts
      /\ what = "files" => hid.files = Null
      /\ what = "command" => hid.command = Null
      /\ what = "ts" => hid.ts = Null
  <2>1. hid = [f \in StepFields |-> IF f = what THEN Null ELSE steps[i][f]]
    BY <1>2 DEF StepFields
  <2>2. \A f \in StepFields : hid[f] = IF f = what THEN Null ELSE steps[i][f]
    BY <2>1
  <2>3. {"kind", "files", "command", "exit", "ts"} \subseteq StepFields
    BY DEF StepFields
  <2>. HIDE DEF hid
  <2>. QED  BY <2>2, <2>3
<1>. HIDE DEF hid, u
<1>4. DOMAIN u = 1..n /\ u[i] = hid /\ \A j \in 1..n : j # i => u[j] = steps[j]
  BY <1>1, <1>2
<1>5. Len(u) = n
  <2>1. u = [j \in 1..n |-> u[j]]
    <3>1. u = [j \in DOMAIN steps |-> IF j = i THEN hid ELSE steps[j]]
      BY <1>1, <1>2
    <3>2. u = [j \in 1..n |-> IF j = i THEN hid ELSE steps[j]]
      BY <3>1, <1>2
    <3>. QED  BY <3>2
  <2>2. u \in Seq({u[j] : j \in 1..n})
    <3>1. u \in [1..n -> {u[j] : j \in 1..n}]
      BY <2>1
    <3>. QED  BY <3>1
  <2>. QED  BY <1>4, <2>2
<1>. QED  BY <1>3, <1>4, <1>5, Zenon DEF Without, u

(* u is such a list of n steps, of which one was not measured whole.       *)
Untold(u, steps, i, what, n) == n \in Nat /\ DOMAIN steps = 1..n /\ Len(steps) = n /\ i \in 1..n /\ Without(u, steps, i, what, n)

(* The cadence reads what kind each step is, and no measurement.           *)
LEMMA CadenceIsOfKinds ==
  ASSUME NEW n, NEW steps, NEW u, NEW i, NEW what, Untold(u, steps, i, what, n)
  PROVE  Forensics!EditTestCadence(u) = Forensics!EditTestCadence(steps)
<1>1. /\ n \in Nat /\ DOMAIN steps = 1..n /\ DOMAIN u = 1..n /\ \A j \in 1..n : u[j].kind = steps[j].kind
  BY DEF Untold, Without
<1>2. ASSUME NEW j \in 1..n, NEW kinds
      PROVE  Forensics!LastBefore(u, j, kinds) = Forensics!LastBefore(steps, j, kinds)
  <2> DEFINE found == {k \in 1..(j - 1) : steps[k].kind \in kinds}
  <2>1. {k \in 1..(j - 1) : u[k].kind \in kinds} = found
    <3>1. \A k \in 1..(j - 1) : u[k].kind = steps[k].kind
      BY <1>1
    <3>. QED  BY <3>1
  <2>2. found # {} => Greatest(found) \in found
    <3>1. found \in SUBSET (1..n)
      BY <1>1
    <3>. HIDE DEF found
    <3>. QED  BY <1>1, <3>1, GreatestOfSome
  <2>3. found # {} => u[Greatest(found)].kind = steps[Greatest(found)].kind
    <3>1. found \subseteq 1..n
      BY <1>1
    <3>. HIDE DEF found
    <3>. QED  BY <1>1, <2>2, <3>1
  <2>4. Forensics!LastBefore(steps, j, kinds) = IF found = {} THEN Null ELSE steps[Greatest(found)].kind
    BY MetricOperators DEF Forensics!LastBefore
  <2>5. Forensics!LastBefore(u, j, kinds) = IF found = {} THEN Null ELSE u[Greatest(found)].kind
    <3>. HIDE DEF found
    <3>. QED  BY <2>1, MetricOperators DEF Forensics!LastBefore
  <2>. HIDE DEF found
  <2>. QED  BY <2>3, <2>4, <2>5
<1> DEFINE K == {"file_edit", "test_run"}
           CadenceSet(v) == {j \in DOMAIN v : v[j].kind = "test_run" /\ Forensics!LastBefore(v, j, K) = "file_edit"}
<1>3. CadenceSet(u) = CadenceSet(steps)
  <2>. HIDE DEF K
  <2>. QED  BY <1>1, <1>2
<1>. QED  BY <1>3 DEF Forensics!EditTestCadence

(* The thrash rate reads the files of the edits.                           *)
LEMMA ThrashIsOfFiles ==
  ASSUME NEW n, NEW steps, NEW u, NEW i, NEW what, Untold(u, steps, i, what, n), u # Null, steps # Null
  PROVE  Forensics!ThrashRate(u) \in {Forensics!ThrashRate(steps), Null}
<1>1. /\ n \in Nat /\ i \in 1..n /\ DOMAIN steps = 1..n /\ DOMAIN u = 1..n /\ \A j \in 1..n : u[j].kind = steps[j].kind
      /\ \A j \in 1..n : what # "files" \/ j # i => u[j].files = steps[j].files
      /\ what = "files" => u[i].files = Null
  BY DEF Untold, Without
<1>2. Forensics!Edits(u) = Forensics!Edits(steps) /\ Forensics!Edits(steps) \subseteq 1..n
  BY <1>1 DEF Forensics!Edits
<1>3. CASE what = "files" /\ i \in Forensics!Edits(steps)
  <2>1. Forensics!Touched(u) = Null
    BY <1>1, <1>2, <1>3 DEF Forensics!Touched
  <2>. QED  BY <2>1 DEF Forensics!ThrashRate
<1>4. CASE ~(what = "files" /\ i \in Forensics!Edits(steps))
  <2>1. \A j \in Forensics!Edits(steps) : u[j].files = steps[j].files
    BY <1>1, <1>2, <1>4
  <2>2. Forensics!Touched(u) = Forensics!Touched(steps)
    <3>1. {u[j].files : j \in Forensics!Edits(u)} = {steps[j].files : j \in Forensics!Edits(steps)}
      BY <1>2, <2>1
    <3>2. (\E j \in Forensics!Edits(u) : u[j].files = Null) <=> (\E j \in Forensics!Edits(steps) : steps[j].files = Null)
      BY <1>2, <2>1
    <3>. QED  BY <3>1, <3>2, Zenon DEF Forensics!Touched
  <2>3. Forensics!ReEdits(u) = Forensics!ReEdits(steps)
    BY <1>2, <2>1 DEF Forensics!ReEdits
  <2>. QED  BY <1>2, <2>2, <2>3 DEF Forensics!ThrashRate
<1>. QED  BY <1>3, <1>4

(* The first test's time is what its step says, or nothing.                *)
LEMMA FirstTestIsItsStep ==
  ASSUME NEW n, NEW steps, NEW u, NEW i, NEW what, Untold(u, steps, i, what, n)
  PROVE  Forensics!TimeToFirstTest(u) \in {Forensics!TimeToFirstTest(steps), Null}
<1>1. /\ n \in Nat /\ DOMAIN steps = 1..n /\ DOMAIN u = 1..n /\ \A j \in 1..n : u[j].kind = steps[j].kind
      /\ \A j \in 1..n : what # "ts" \/ j # i => u[j].ts = steps[j].ts
      /\ what = "ts" => u[i].ts = Null
  BY DEF Untold, Without
<1>2. Forensics!Tests(u) = Forensics!Tests(steps) /\ Forensics!Tests(steps) \subseteq 1..n
  BY <1>1 DEF Forensics!Tests
<1>3. CASE Forensics!Tests(steps) = {}
  BY <1>2, <1>3 DEF Forensics!TimeToFirstTest
<1>4. CASE Forensics!Tests(steps) # {}
  <2> DEFINE m == Least(Forensics!Tests(steps))
  <2>1. m \in 1..n
    BY <1>1, <1>2, <1>4, LeastOfPositions
  <2>2. Forensics!TimeToFirstTest(u) = u[m].ts /\ Forensics!TimeToFirstTest(steps) = steps[m].ts
    BY <1>2, <1>4, MetricOperators DEF Forensics!TimeToFirstTest
  <2>. HIDE DEF m
  <2>. QED  BY <1>1, <2>1, <2>2
<1>. QED  BY <1>3, <1>4

(* The recovery of a failure is what its step says, or nothing.            *)
LEMMA RecoveryIsItsStep ==
  ASSUME NEW n, NEW steps, NEW u, NEW i, NEW what, Untold(u, steps, i, what, n), NEW j \in 1..n
  PROVE  /\ Forensics!Recovery(u, j) \in {Forensics!Recovery(steps, j), Null}
         /\ what # "ts" => Forensics!Recovery(u, j) = Forensics!Recovery(steps, j)
<1>1. /\ n \in Nat /\ DOMAIN steps = 1..n /\ DOMAIN u = 1..n /\ Len(steps) = n /\ Len(u) = n
      /\ \A k \in 1..n : u[k].exit = steps[k].exit
      /\ \A k \in 1..n : what # "ts" \/ k # i => u[k].ts = steps[k].ts
      /\ what = "ts" => u[i].ts = Null
  BY DEF Untold, Without
<1> DEFINE later == {k \in (j + 1)..n : steps[k].exit = 0}
<1>2. {k \in (j + 1)..n : u[k].exit = 0} = later /\ later \in SUBSET (1..n)
  BY <1>1
<1>3. /\ Forensics!Recovery(steps, j) = IF later = {} THEN Null ELSE steps[Least(later)].ts
      /\ Forensics!Recovery(u, j) = IF later = {} THEN Null ELSE u[Least(later)].ts
  BY <1>1, <1>2, MetricOperators DEF Forensics!Recovery
<1>. HIDE DEF later
<1>4. later # {} => Least(later) \in 1..n
  BY <1>1, <1>2, LeastOfPositions
<1> DEFINE m == Least(later)
<1>. HIDE DEF m
<1>5. later # {} => u[m].ts \in {steps[m].ts, Null} /\ (what # "ts" => u[m].ts = steps[m].ts)
  BY <1>1, <1>4 DEF m
<1>. QED  BY <1>3, <1>5 DEF m

(* The mean recovery is of the same failures, or nothing.                  *)
LEMMA LatencyIsOfTimes ==
  ASSUME NEW n, NEW steps, NEW u, NEW i, NEW what, Untold(u, steps, i, what, n)
  PROVE  Forensics!ErrorRecoveryLatency(u) \in {Forensics!ErrorRecoveryLatency(steps), Null}
<1> DEFINE failed == Forensics!Failures(steps)
           Missing(v) == \E j \in failed : v[j].ts = Null \/ Forensics!Recovery(v, j) = Null
           Took(v) == [j \in failed |-> Forensics!Recovery(v, j) - v[j].ts]
           Mean(v) == <<Forensics!SumFunction(Took(v)), Forensics!Cardinality(failed)>>
<1>1. /\ n \in Nat /\ DOMAIN steps = 1..n /\ DOMAIN u = 1..n
      /\ \A k \in 1..n : u[k].exit = steps[k].exit
      /\ \A k \in 1..n : what # "ts" \/ k # i => u[k].ts = steps[k].ts
      /\ what = "ts" => u[i].ts = Null
  BY DEF Untold, Without
<1>2. Forensics!Failures(u) = failed /\ failed \subseteq 1..n
  BY <1>1 DEF Forensics!Failures
<1>3. /\ Forensics!ErrorRecoveryLatency(steps) = IF failed = {} \/ Missing(steps) THEN Null ELSE Mean(steps)
      /\ Forensics!ErrorRecoveryLatency(u) = IF failed = {} \/ Missing(u) THEN Null ELSE Mean(u)
  BY <1>2 DEF Forensics!ErrorRecoveryLatency
<1>. HIDE DEF failed
<1>4. ASSUME ~Missing(u) PROVE ~Missing(steps) /\ Mean(u) = Mean(steps)
  <2>1. \A j \in failed : u[j].ts = steps[j].ts /\ Forensics!Recovery(u, j) = Forensics!Recovery(steps, j)
    BY <1>1, <1>2, <1>4, RecoveryIsItsStep
  <2>2. Took(u) = Took(steps)
    BY <2>1
  <2>3. ~Missing(steps)
    BY <1>4, <2>1
  <2>. QED  BY <2>2, <2>3
<1>. HIDE DEF Missing, Mean
<1>. QED  BY <1>3, <1>4

(* Commands are counted only where every one is known.                     *)
LEMMA DestructionIsOfCommands ==
  ASSUME NEW n, NEW steps, NEW u, NEW i, NEW what, Untold(u, steps, i, what, n)
  PROVE  Forensics!DestructiveCommandCount(u) \in {Forensics!DestructiveCommandCount(steps), Null}
<1>1. /\ n \in Nat /\ i \in 1..n /\ DOMAIN steps = 1..n /\ DOMAIN u = 1..n
      /\ \A k \in 1..n : what # "command" \/ k # i => u[k].command = steps[k].command
      /\ what = "command" => u[i].command = Null
  BY DEF Untold, Without
<1>2. CASE what = "command"
  BY <1>1, <1>2 DEF Forensics!DestructiveCommandCount
<1>3. CASE what # "command"
  <2>1. \A k \in 1..n : u[k].command = steps[k].command
    BY <1>1, <1>3
  <2>2. {k \in DOMAIN u : "rm" \in u[k].command} = {k \in DOMAIN steps : "rm" \in steps[k].command}
    BY <1>1, <2>1
  <2>. QED  BY <1>1, <2>1, <2>2 DEF Forensics!DestructiveCommandCount
<1>. QED  BY <1>2, <1>3

(* A measurement that is taken away leaves a metric as it was, or null.    *)
THEOREM NullIsNoEstimate ==
  ASSUME NEW n \in Nat, NEW steps, Steps(steps, n), steps # Null, NEW what \in {"files", "command", "ts"},
         \A i \in 1..n : Forensics!Hide(steps, i, what) # Null
  PROVE  Forensics!NullNeverEstimates(steps, what)
<1> SUFFICES ASSUME NEW i \in 1..n, NEW m \in DOMAIN Forensics!TrajectoryMetrics(steps)
             PROVE  Forensics!TrajectoryMetrics(Forensics!Hide(steps, i, what))[m]
                      \in {Forensics!TrajectoryMetrics(steps)[m], Null}
  BY DEF Forensics!NullNeverEstimates, Steps
<1> DEFINE u == Forensics!Hide(steps, i, what)
<1>1. Untold(u, steps, i, what, n) /\ u # Null
  BY HideTakesAway DEF Untold, Steps
<1>. HIDE DEF u
<1> DEFINE full == Forensics!TrajectoryMetrics(steps)
           less == Forensics!TrajectoryMetrics(u)
<1>2. m \in {"edit_test_cadence", "thrash_rate", "time_to_first_test", "error_recovery_latency", "destructive_command_count"}
  BY DEF Forensics!TrajectoryMetrics
<1>3. less["edit_test_cadence"] = full["edit_test_cadence"]
  BY <1>1, CadenceIsOfKinds DEF Forensics!TrajectoryMetrics
<1>4. less["thrash_rate"] \in {full["thrash_rate"], Null}
  BY <1>1, ThrashIsOfFiles DEF Forensics!TrajectoryMetrics
<1>5. less["time_to_first_test"] \in {full["time_to_first_test"], Null}
  BY <1>1, FirstTestIsItsStep DEF Forensics!TrajectoryMetrics
<1>6. less["error_recovery_latency"] \in {full["error_recovery_latency"], Null}
  BY <1>1, LatencyIsOfTimes DEF Forensics!TrajectoryMetrics
<1>7. less["destructive_command_count"] \in {full["destructive_command_count"], Null}
  BY <1>1, DestructionIsOfCommands DEF Forensics!TrajectoryMetrics
<1>. HIDE DEF full, less
<1>8. less[m] \in {full[m], Null}
  BY <1>2, <1>3, <1>4, <1>5, <1>6, <1>7
<1>. QED  BY <1>8, Zenon DEF full, less, u

(* A review that was completed, or the reason why not.                     *)
LEMMA ReviewsFailClosed ==
  ASSUME Null \notin Blind!Reasons, NEW r \in Forensics!Replies
  PROVE  Forensics!ReviewFailsClosed(r)
<1> DEFINE review == Forensics!ForensicReview(r)
           input == Forensics!Spliced(r)
           checks == <<[d |-> TRUE], [e |-> FALSE], [d |-> FALSE]>>
           rejected == IF input.budget /\ r.large THEN "context_overflow" ELSE r.leak
           parsed == IF r.keys THEN r.suspected ELSE Null
<1>1. /\ r.transcript \in BOOLEAN /\ r.large \in BOOLEAN /\ r.keys \in BOOLEAN
      /\ r.leak \in {Null, "identity_leak", "redaction_leak"}
      /\ r.answer \in {"text", "overflow", "timeout", "refusal", "provider_error"}
  BY DEF Forensics!Replies
<1>2. Null \notin {"timeout", "refusal", "provider_error", "no_transcript", "identity_leak", "redaction_leak",
                   "context_overflow", "parse"}
  BY DEF Blind!Reasons, Blind!ProviderFailures
<1>3. /\ input.text = {} <=> (r.reasoning # "verified" /\ ~r.transcript)
      /\ input.budget <=> r.reasoning = "verified"
  BY <1>1 DEF Forensics!Spliced
<1>4. review =
        IF input.text = {} THEN Forensics!Blind!Cant("no_transcript", FALSE)
        ELSE IF rejected # Null THEN Forensics!Blind!Cant(rejected, FALSE)
        ELSE IF r.large THEN Forensics!Blind!Cant("context_overflow", FALSE)
        ELSE IF r.model # "known" THEN Forensics!Blind!Cant("provider_error", FALSE)
        ELSE IF r.answer = "overflow" THEN Forensics!Blind!Cant("context_overflow", TRUE)
        ELSE IF r.answer \in {"timeout", "refusal", "provider_error"} THEN Forensics!Blind!Cant(r.answer, TRUE)
        ELSE IF parsed = Null THEN Forensics!Blind!Cant("parse", TRUE)
        ELSE Forensics!Blind!Scored(parsed)
  <2>. HIDE DEF input
  <2>. QED  BY <1>1 DEF Forensics!ForensicReview, Forensics!Blind!ScoredCompletion, Forensics!Blind!ProviderFailures, input
<1>. HIDE DEF input, review
<1>5. (review.value = Null) # (review.cant = Null)
  BY <1>1, <1>2, <1>4 DEF Forensics!Blind!Cant, Forensics!Blind!Scored
<1>6. review.sent = TRUE => r.leak = Null /\ ~r.large /\ r.model = "known" /\ input.text # {}
  BY <1>1, <1>2, <1>4 DEF Forensics!Blind!Cant, Forensics!Blind!Scored
<1>7. input.text = {} => review.cant = "no_transcript"
  BY <1>4 DEF Forensics!Blind!Cant
<1>8. DOMAIN Forensics!SpotcheckItems(review, checks, "d") = IF review.cant = Null THEN {1, 3} ELSE {}
  <2>1. {j \in DOMAIN checks : "d" \in DOMAIN checks[j]} = {1, 3}
    OBVIOUS
  <2>. HIDE DEF checks
  <2>2. CASE review.value = Null
    <3>1. Forensics!SpotcheckItems(review, checks, "d") = <<>>
      BY <2>2 DEF Forensics!SpotcheckItems
    <3>2. DOMAIN <<>> = {}
      OBVIOUS
    <3>. QED  BY <1>5, <2>2, <3>1, <3>2
  <2>3. CASE review.value # Null
    <3>1. DOMAIN Forensics!SpotcheckItems(review, checks, "d") = {j \in DOMAIN checks : "d" \in DOMAIN checks[j]}
      BY <2>3 DEF Forensics!SpotcheckItems
    <3>. QED  BY <1>5, <2>1, <2>3, <3>1
  <2>. QED  BY <2>2, <2>3
<1>9. review.sent \in BOOLEAN
  BY <1>4 DEF Forensics!Blind!Cant, Forensics!Blind!Scored
<1>. HIDE DEF checks
<1>. QED  BY <1>3, <1>5, <1>6, <1>7, <1>8, <1>9, Zenon DEF Forensics!ReviewFailsClosed, review, input, checks

(* The inputs checked are ones that those lemmas are about.                *)
LEMMA TrialsAreTampered ==
  ASSUME Null \notin Forensics!StepPairs, NEW t \in Forensics!TrialsSeen
  PROVE  Forensics!TamperedBytesAreSilent(t)
<1>1. /\ DOMAIN t = {"recorded", "disk", "steps", "grade", "committed", "live", "holdouts", "values", "arm"}
      /\ t.disk \in {"intact", "edited"} /\ t.live \in Forensics!Workspaces \cup {Gone}
      /\ t.steps \in Forensics!StepPairs
  BY DEF Forensics!TrialsSeen
<1>2. t.steps # Null /\ DOMAIN t.steps = {1, 2}
  BY <1>1 DEF Forensics!StepPairs
<1>. QED  BY <1>1, <1>2, TamperingIsSilent

(* A scan of two sampled trials.                                           *)
LEMMA SampledAreCovered ==
  ASSUME Null \notin Forensics!GapReasons, NEW t \in Forensics!Sampled, NEW v \in Forensics!Sampled
  PROVE  Forensics!CoverageAddsUp(<<t, v>>)
<1>1. \A x \in Forensics!Sampled : Countable(x)
  <2> SUFFICES ASSUME NEW x \in Forensics!Sampled PROVE Countable(x)
    OBVIOUS
  <2>1. x.arm \in {"A", "B"} /\ x.steps \in {<<Forensics!Step("file_edit", {"a"}, d, Null, Null, 1)>> : d \in {Null, {"marker"}}}
    BY DEF Forensics!Sampled
  <2>2. PICK s : x.steps = <<s>>
    BY <2>1
  <2>3. <<s>> \in Seq({s})
    OBVIOUS
  <2>. QED  BY <2>1, <2>2, <2>3 DEF Countable
<1> DEFINE trials == <<t, v>>
<1>2. DOMAIN trials = 1..2 /\ Len(trials) = 2 /\ \A i \in 1..2 : Countable(trials[i])
  BY <1>1
<1>. HIDE DEF trials
<1>3. Forensics!CoverageAddsUp(trials)
  BY <1>2, CoverageOfAll
<1>. QED  BY <1>3 DEF trials

(* Two steps with one measurement taken away.                              *)
LEMMA PairsNeverEstimate ==
  ASSUME Null \notin Forensics!MetricPairs, NEW p \in Forensics!MetricPairs, NEW what \in {"files", "command", "ts"}
  PROVE  Forensics!NullNeverEstimates(p, what)
<1>1. PICK x \in Forensics!MetricSteps, y \in Forensics!MetricSteps : p = <<x, y>>
  BY DEF Forensics!MetricPairs
<1>2. \A z \in Forensics!MetricSteps : z = [f \in StepFields |-> z[f]] /\ [z EXCEPT ![what] = Null] \in Forensics!MetricSteps
  <2> SUFFICES ASSUME NEW z \in Forensics!MetricSteps
               PROVE  z = [f \in StepFields |-> z[f]] /\ [z EXCEPT ![what] = Null] \in Forensics!MetricSteps
    OBVIOUS
  <2>1. PICK k \in {"file_edit", "test_run"}, f \in {{"a"}, Null}, c \in {{"rm"}, Null}, e \in {0, 1}, ts \in {1, 3, Null} :
               z = Forensics!Step(k, f, Null, c, e, ts)
    BY DEF Forensics!MetricSteps
  <2>2. z = [kind |-> k, files |-> f, detail |-> Null, command |-> c, exit |-> e, ts |-> ts]
    BY <2>1 DEF Forensics!Step
  <2>3. z = [g \in StepFields |-> z[g]]
    BY <2>2 DEF StepFields
  <2>4. what = "files" => [z EXCEPT ![what] = Null] = Forensics!Step(k, Null, Null, c, e, ts)
    BY <2>2 DEF Forensics!Step
  <2>5. what = "command" => [z EXCEPT ![what] = Null] = Forensics!Step(k, f, Null, Null, e, ts)
    BY <2>2 DEF Forensics!Step
  <2>6. what = "ts" => [z EXCEPT ![what] = Null] = Forensics!Step(k, f, Null, c, e, Null)
    BY <2>2 DEF Forensics!Step
  <2>7. /\ Forensics!Step(k, Null, Null, c, e, ts) \in Forensics!MetricSteps
        /\ Forensics!Step(k, f, Null, Null, e, ts) \in Forensics!MetricSteps
        /\ Forensics!Step(k, f, Null, c, e, Null) \in Forensics!MetricSteps
    BY DEF Forensics!MetricSteps
  <2>. QED  BY <2>3, <2>4, <2>5, <2>6, <2>7
<1>3. Steps(p, 2)
  <2>1. DOMAIN p = 1..2 /\ Len(p) = 2 /\ p = [j \in 1..2 |-> p[j]] /\ p[1] = x /\ p[2] = y
    BY <1>1
  <2>2. \A j \in 1..2 : p[j] \in Forensics!MetricSteps
    BY <2>1
  <2>3. \A j \in 1..2 : p[j] = [f \in StepFields |-> p[j][f]]
    BY <1>2, <2>2
  <2>. QED  BY <2>1, <2>3 DEF Steps
<1>4. \A i \in 1..2 : Forensics!Hide(p, i, what) # Null
  <2> SUFFICES ASSUME NEW i \in 1..2 PROVE Forensics!Hide(p, i, what) \in Forensics!MetricPairs
    OBVIOUS
  <2> DEFINE hx == [x EXCEPT ![what] = Null]
             hy == [y EXCEPT ![what] = Null]
  <2>1. hx \in Forensics!MetricSteps /\ hy \in Forensics!MetricSteps
    BY <1>2
  <2>2. Forensics!Hide(p, 1, what) = <<hx, y>> /\ Forensics!Hide(p, 2, what) = <<x, hy>>
    BY <1>1 DEF Forensics!Hide
  <2>. HIDE DEF hx, hy
  <2>3. <<hx, y>> \in Forensics!MetricPairs /\ <<x, hy>> \in Forensics!MetricPairs
    BY <2>1 DEF Forensics!MetricPairs
  <2>. QED  BY <2>2, <2>3
<1>. QED  BY <1>3, <1>4, NullIsNoEstimate

(* Every question about evidence is answered as it should be.              *)
LEMMA ForensicsAnswers ==
  ASSUME EvidenceAssumption, NEW c \in Forensics!ForensicsCases
  PROVE  Forensics!ForensicsSound(c)
<1>0. /\ Null \notin Blind!Reasons /\ Null \notin Forensics!GapReasons
      /\ Null \notin Forensics!StepPairs /\ Null \notin Forensics!MetricPairs
  BY DEF EvidenceAssumption
<1>1. CASE c \in [kind : {"trial"}, trial : Forensics!TrialsSeen]
  <2>1. c.kind = "trial" /\ c.trial \in Forensics!TrialsSeen
    BY <1>1
  <2>. QED  BY <1>0, <2>1, TrialsAreTampered DEF Forensics!ForensicsSound
<1>2. CASE c \in [kind : {"scan"}, trials : Forensics!Sampled \X Forensics!Sampled]
  <2>1. c.kind = "scan" /\ c.trials \in Forensics!Sampled \X Forensics!Sampled
    BY <1>2
  <2>2. PICK t \in Forensics!Sampled, v \in Forensics!Sampled : c.trials = <<t, v>>
    BY <2>1
  <2>3. Forensics!CoverageAddsUp(c.trials)
    BY <1>0, <2>2, SampledAreCovered
  <2>. QED  BY <2>1, <2>3 DEF Forensics!ForensicsSound
<1>3. CASE c \in [kind : {"metrics"}, steps : Forensics!MetricPairs, hidden : {"files", "command", "ts"}]
  <2>1. c.kind = "metrics" /\ c.steps \in Forensics!MetricPairs /\ c.hidden \in {"files", "command", "ts"}
    BY <1>3
  <2>. QED  BY <1>0, <2>1, PairsNeverEstimate DEF Forensics!ForensicsSound
<1>4. CASE c \in [kind : {"review"}, reply : Forensics!Replies]
  <2>1. c.kind = "review" /\ c.reply \in Forensics!Replies
    BY <1>4
  <2>. QED  BY <1>0, <2>1, ReviewsFailClosed DEF Forensics!ForensicsSound
<1>. QED  BY <1>1, <1>2, <1>3, <1>4, Zenon DEF Forensics!ForensicsCases

-----------------------------------------------------------------------------
(* Output in which nothing is a marker of this run.                        *)
Unforged(out) ==
  /\ Own(out)
  /\ \A i \in DOMAIN out : \A kind, tag : out[i] # Fence!Marker(kind, tag, "ours")

(* What is printed before a text and after it.                             *)
Around(pre, mid, post) == pre \o mid \o post

(* Where the elements of the three parts are.                              *)
LEMMA PartsArePlaced ==
  ASSUME NEW pre, NEW mid, NEW post, Own(pre), Own(mid), Own(post)
  PROVE  LET out == Around(pre, mid, post) p == Len(pre) m == Len(mid)
         IN  /\ Own(out)
             /\ p \in Nat /\ m \in Nat /\ Len(post) \in Nat
             /\ Len(out) = p + m + Len(post) /\ DOMAIN out = 1..Len(out)
             /\ \A i \in 1..p : out[i] = pre[i]
             /\ \A i \in 1..m : out[p + i] = mid[i]
             /\ \A i \in 1..Len(post) : out[p + m + i] = post[i]
<1> DEFINE S == {pre[i] : i \in DOMAIN pre} \cup {mid[i] : i \in DOMAIN mid}
                  \cup {post[i] : i \in DOMAIN post}
<1>1. pre \in Seq(S) /\ mid \in Seq(S) /\ post \in Seq(S)
  <2>1. pre \in Seq({pre[i] : i \in DOMAIN pre}) /\ mid \in Seq({mid[i] : i \in DOMAIN mid})
        /\ post \in Seq({post[i] : i \in DOMAIN post})
    BY DEF Own
  <2>2. \A T, U : T \subseteq U => Seq(T) \subseteq Seq(U)
    OBVIOUS
  <2>. QED  BY <2>1, <2>2
<1>. HIDE DEF S
<1>2. Around(pre, mid, post) \in Seq(S)
  BY <1>1 DEF Around
<1>3. Own(Around(pre, mid, post))
  BY <1>2, OwnElements DEF Own
<1>. QED  BY <1>1, <1>2, <1>3 DEF Around

(* The two markers of a pair differ from each other and from what they     *)
(* enclose.                                                                *)
LEMMA MarkersAreMarkers ==
  ASSUME NEW tag, NEW doc, doc.kind = "json"
  PROVE  LET b == Fence!FencePair(tag, "ours")[1] e == Fence!FencePair(tag, "ours")[2]
         IN  /\ b = Fence!Marker("begin", tag, "ours") /\ e = Fence!Marker("end", tag, "ours")
             /\ b # e /\ b # doc /\ e # doc /\ b # Fence!Noise /\ e # Fence!Noise
<1> DEFINE b == Fence!FencePair(tag, "ours")[1] e == Fence!FencePair(tag, "ours")[2]
<1>1. b = Fence!Marker("begin", tag, "ours") /\ e = Fence!Marker("end", tag, "ours")
  BY DEF Fence!FencePair
<1>2. Fence!Marker("begin", tag, "ours").kind = "begin" /\ Fence!Marker("end", tag, "ours").kind = "end"
        /\ Fence!Noise.kind = "noise"
  BY DEF Fence!Marker, Fence!Noise
<1>. QED  BY <1>1, <1>2

(* The markers of a run are where the grader put them.                     *)
LEMMA MarkersStay ==
  ASSUME NEW pre, NEW mid, NEW post, Unforged(pre), Own(mid), Unforged(post), NEW kind, NEW tag
  PROVE  Fence!IndicesOf(Around(pre, mid, post), Fence!Marker(kind, tag, "ours"))
           = {Len(pre) + i : i \in Fence!IndicesOf(mid, Fence!Marker(kind, tag, "ours"))}
<1> DEFINE out == Around(pre, mid, post)
           p == Len(pre)
           m == Len(mid)
           token == Fence!Marker(kind, tag, "ours")
<1>1. /\ p \in Nat /\ m \in Nat /\ Len(post) \in Nat
      /\ Len(out) = p + m + Len(post) /\ DOMAIN out = 1..Len(out)
      /\ \A i \in 1..p : out[i] = pre[i]
      /\ \A i \in 1..m : out[p + i] = mid[i]
      /\ \A i \in 1..Len(post) : out[p + m + i] = post[i]
  BY PartsArePlaced DEF Unforged
<1>2. DOMAIN pre = 1..p /\ DOMAIN mid = 1..m /\ DOMAIN post = 1..Len(post)
  BY DEF Unforged, Own
<1>3. (\A i \in 1..p : pre[i] # token) /\ (\A i \in 1..Len(post) : post[i] # token)
  BY <1>2 DEF Unforged
<1>. HIDE DEF out, p, m, token
<1>4. ASSUME NEW i \in DOMAIN out, out[i] = token
      PROVE  \E j \in 1..m : i = p + j /\ mid[j] = token
  <2>1. ~(i \in 1..p)
    BY <1>1, <1>3, <1>4
  <2>2. ~(i > p + m)
    <3>1. SUFFICES ASSUME i > p + m PROVE FALSE
      OBVIOUS
    <3>2. i - (p + m) \in 1..Len(post) /\ p + m + (i - (p + m)) = i
      BY <1>1, <3>1
    <3>. QED  BY <1>1, <1>3, <1>4, <3>2
  <2>3. i - p \in 1..m /\ p + (i - p) = i
    BY <1>1, <2>1, <2>2
  <2>. QED  BY <1>1, <1>4, <2>3
<1>5. ASSUME NEW j \in 1..m, mid[j] = token
      PROVE  p + j \in DOMAIN out /\ out[p + j] = token
  BY <1>1, <1>5
<1>6. Fence!IndicesOf(out, token) = {p + i : i \in Fence!IndicesOf(mid, token)}
  BY <1>2, <1>4, <1>5 DEF Fence!IndicesOf
<1>. QED  BY <1>6 DEF out, p, token

(* What the grader may have printed.                                       *)
Twice(tag, doc, noisy) == Fence!Block(tag, doc, noisy) \o Fence!Block(tag, doc, noisy)
Blocks(tag, doc) == {<<>>, Fence!Block(tag, doc, TRUE), Fence!Block(tag, doc, FALSE),
  Twice(tag, doc, TRUE), Twice(tag, doc, FALSE)}

(* Short sequences put together.                                           *)
LEMMA ThreeParts ==
  ASSUME NEW b, NEW d, NEW e, NEW n
  PROVE  /\ <<b, d>> \o <<>> \o <<e>> = <<b, d, e>>
         /\ <<b, d>> \o <<n>> \o <<e>> = <<b, d, n, e>>
         /\ <<b, d, e>> \o <<b, d, e>> = <<b, d, e, b, d, e>>
         /\ <<b, d, n, e>> \o <<b, d, n, e>> = <<b, d, n, e, b, d, n, e>>
<1> DEFINE S == {b, d, e, n}
<1>1. /\ <<b, d>> \in Seq(S) /\ <<>> \in Seq(S) /\ <<n>> \in Seq(S) /\ <<e>> \in Seq(S)
      /\ <<b, d, e>> \in Seq(S) /\ <<b, d, n>> \in Seq(S) /\ <<b, d, n, e>> \in Seq(S)
      /\ <<b, d, e, b, d, e>> \in Seq(S) /\ <<b, d, n, e, b, d, n, e>> \in Seq(S)
  OBVIOUS
<1>. HIDE DEF S
<1>2. <<b, d>> \o <<>> = <<b, d>>
  BY <1>1
<1>3. <<b, d>> \o <<e>> = <<b, d, e>>
  <2> DEFINE u == <<b, d>> \o <<e>>
             v == <<b, d, e>>
  <2>1. u \in Seq(S) /\ Len(u) = 3 /\ v \in Seq(S) /\ Len(v) = 3
    BY <1>1
  <2>2. u[1] = b /\ u[2] = d /\ u[3] = e
    BY <1>1
  <2>3. v[1] = b /\ v[2] = d /\ v[3] = e
    OBVIOUS
  <2>. HIDE DEF u, v
  <2>4. \A i \in 1..3 : u[i] = v[i]
    BY <2>2, <2>3
  <2>5. u = v
    BY <2>1, <2>4, SeqEqual
  <2>. QED  BY <2>5 DEF u, v
<1>4. <<b, d>> \o <<n>> = <<b, d, n>>
  <2> DEFINE u == <<b, d>> \o <<n>>
             v == <<b, d, n>>
  <2>1. u \in Seq(S) /\ Len(u) = 3 /\ v \in Seq(S) /\ Len(v) = 3
    BY <1>1
  <2>2. u[1] = b /\ u[2] = d /\ u[3] = n
    BY <1>1
  <2>3. v[1] = b /\ v[2] = d /\ v[3] = n
    OBVIOUS
  <2>. HIDE DEF u, v
  <2>4. \A i \in 1..3 : u[i] = v[i]
    BY <2>2, <2>3
  <2>5. u = v
    BY <2>1, <2>4, SeqEqual
  <2>. QED  BY <2>5 DEF u, v
<1>5. <<b, d, n>> \o <<e>> = <<b, d, n, e>>
  <2> DEFINE u == <<b, d, n>> \o <<e>>
             v == <<b, d, n, e>>
  <2>1. u \in Seq(S) /\ Len(u) = 4 /\ v \in Seq(S) /\ Len(v) = 4
    BY <1>1
  <2>2. u[1] = b /\ u[2] = d /\ u[3] = n /\ u[4] = e
    BY <1>1
  <2>3. v[1] = b /\ v[2] = d /\ v[3] = n /\ v[4] = e
    OBVIOUS
  <2>. HIDE DEF u, v
  <2>4. \A i \in 1..4 : u[i] = v[i]
    BY <2>2, <2>3
  <2>5. u = v
    BY <2>1, <2>4, SeqEqual
  <2>. QED  BY <2>5 DEF u, v
<1>6. <<b, d, e>> \o <<b, d, e>> = <<b, d, e, b, d, e>>
  <2> DEFINE u == <<b, d, e>> \o <<b, d, e>>
             v == <<b, d, e, b, d, e>>
  <2>1. u \in Seq(S) /\ Len(u) = 6 /\ v \in Seq(S) /\ Len(v) = 6
    BY <1>1
  <2>2. u[1] = b /\ u[2] = d /\ u[3] = e /\ u[4] = b /\ u[5] = d /\ u[6] = e
    BY <1>1
  <2>3. v[1] = b /\ v[2] = d /\ v[3] = e /\ v[4] = b /\ v[5] = d /\ v[6] = e
    OBVIOUS
  <2>. HIDE DEF u, v
  <2>4. \A i \in 1..6 : u[i] = v[i]
    BY <2>2, <2>3
  <2>5. u = v
    BY <2>1, <2>4, SeqEqual
  <2>. QED  BY <2>5 DEF u, v
<1>7. <<b, d, n, e>> \o <<b, d, n, e>> = <<b, d, n, e, b, d, n, e>>
  <2> DEFINE u == <<b, d, n, e>> \o <<b, d, n, e>>
             v == <<b, d, n, e, b, d, n, e>>
  <2>1. u \in Seq(S) /\ Len(u) = 8 /\ v \in Seq(S) /\ Len(v) = 8
    BY <1>1
  <2>2. u[1] = b /\ u[2] = d /\ u[3] = n /\ u[4] = e /\ u[5] = b /\ u[6] = d /\ u[7] = n /\ u[8] = e
    BY <1>1
  <2>3. v[1] = b /\ v[2] = d /\ v[3] = n /\ v[4] = e /\ v[5] = b /\ v[6] = d /\ v[7] = n /\ v[8] = e
    OBVIOUS
  <2>. HIDE DEF u, v
  <2>4. \A i \in 1..8 : u[i] = v[i]
    BY <2>2, <2>3
  <2>5. u = v
    BY <2>1, <2>4, SeqEqual
  <2>. QED  BY <2>5 DEF u, v
<1>. QED  BY <1>2, <1>3, <1>4, <1>5, <1>6, <1>7

(* The blocks, written out.                                                *)
LEMMA BlockParts ==
  ASSUME NEW tag, NEW doc
  PROVE  LET b == Fence!Marker("begin", tag, "ours")
             e == Fence!Marker("end", tag, "ours")
         IN  /\ Fence!Block(tag, doc, FALSE) = <<b, doc, e>>
             /\ Fence!Block(tag, doc, TRUE) = <<b, doc, Fence!Noise, e>>
             /\ Twice(tag, doc, FALSE) = <<b, doc, e, b, doc, e>>
             /\ Twice(tag, doc, TRUE) = <<b, doc, Fence!Noise, e, b, doc, Fence!Noise, e>>
<1> DEFINE b == Fence!Marker("begin", tag, "ours")
           e == Fence!Marker("end", tag, "ours")
<1>1. Fence!Block(tag, doc, FALSE) = <<b, doc, e>>
        /\ Fence!Block(tag, doc, TRUE) = <<b, doc, Fence!Noise, e>>
  BY ThreeParts DEF Fence!Block
<1>2. Twice(tag, doc, FALSE) = <<b, doc, e, b, doc, e>>
  BY <1>1, ThreeParts DEF Twice
<1>3. Twice(tag, doc, TRUE) = <<b, doc, Fence!Noise, e, b, doc, Fence!Noise, e>>
  BY <1>1, ThreeParts DEF Twice
<1>. QED  BY <1>1, <1>2, <1>3

(* The elements of short sequences.                                        *)
LEMMA TupleParts ==
  ASSUME NEW x, NEW y, NEW z
  PROVE  /\ Len(<<x>>) = 1 /\ <<x>>[1] = x
         /\ Len(<<x, y>>) = 2 /\ <<x, y>>[1] = x /\ <<x, y>>[2] = y
         /\ Len(<<x, y, z>>) = 3 /\ <<x, y, z>>[2] = y
         /\ \A w : Len(<<x, y, z, w>>) = 4 /\ <<x, y, z, w>>[2] = y /\ <<x, y, z, w>>[3] = z
<1>1. ASSUME NEW w PROVE Len(<<x, y, z, w>>) = 4
  <2>1. <<x, y, z, w>> \in Seq({x, y, z, w})
    OBVIOUS
  <2>. QED  BY <2>1
<1>2. Len(<<x, y, z>>) = 3
  <2>1. <<x, y, z>> \in Seq({x, y, z})
    OBVIOUS
  <2>. QED  BY <2>1
<1>3. Len(<<x>>) = 1 /\ Len(<<x, y>>) = 2
  <2>1. <<x>> \in Seq({x, y}) /\ <<x, y>> \in Seq({x, y})
    OBVIOUS
  <2>. QED  BY <2>1
<1>. QED  BY <1>1, <1>2, <1>3

(* A piece from the inside of a sequence.                                  *)
LEMMA Piece ==
  ASSUME NEW out, Own(out), NEW p \in Nat, NEW m \in Nat, NEW n \in Nat, m <= n, p + n <= Len(out),
           m >= 1
  PROVE  LET t == SubSeq(out, p + m, p + n)
         IN  /\ t \in Seq({out[i] : i \in DOMAIN out}) /\ Len(t) = n - m + 1
             /\ \A i \in 1..(n - m + 1) : t[i] = out[p + m + i - 1]
<1> DEFINE S == {out[i] : i \in DOMAIN out}  a == p + m  b == p + n
<1>1. out \in Seq(S) /\ Len(out) \in Nat
  BY DEF Own
<1>2. a \in 1..(Len(out) + 1) /\ b \in (a - 1)..Len(out) /\ b - a + 1 = n - m + 1
  BY <1>1
<1>. HIDE DEF S, a, b
<1>3. /\ SubSeq(out, a, b) \in Seq(S)
      /\ Len(SubSeq(out, a, b)) = b - a + 1
      /\ \A i \in 1..(b - a + 1) : SubSeq(out, a, b)[i] = out[a + i - 1]
  BY <1>1, <1>2, SubSeqProperties
<1>. QED  BY <1>2, <1>3 DEF S, a, b

(* Where the markers are in each block.                                    *)
LEMMA BlockPlaces ==
  ASSUME NEW tag, NEW doc, doc.kind = "json"
  PROVE  LET b == Fence!Marker("begin", tag, "ours") e == Fence!Marker("end", tag, "ours")
         IN  /\ Fence!IndicesOf(<<>>, b) = {} /\ Fence!IndicesOf(<<>>, e) = {}
             /\ Fence!IndicesOf(Fence!Block(tag, doc, FALSE), b) = {1}
                  /\ Fence!IndicesOf(Fence!Block(tag, doc, FALSE), e) = {3}
             /\ Fence!IndicesOf(Fence!Block(tag, doc, TRUE), b) = {1}
                  /\ Fence!IndicesOf(Fence!Block(tag, doc, TRUE), e) = {4}
             /\ {1, 4} \subseteq Fence!IndicesOf(Twice(tag, doc, FALSE), b)
             /\ {1, 5} \subseteq Fence!IndicesOf(Twice(tag, doc, TRUE), b)
<1> DEFINE b == Fence!Marker("begin", tag, "ours") 
           e == Fence!Marker("end", tag, "ours")
<1>1. b # e /\ b # doc /\ e # doc /\ b # Fence!Noise /\ e # Fence!Noise
  BY MarkersAreMarkers
<1>2. /\ Fence!Block(tag, doc, FALSE) = <<b, doc, e>>
           /\ Fence!Block(tag, doc, TRUE) = <<b, doc, Fence!Noise, e>>
      /\ Twice(tag, doc, FALSE) = <<b, doc, e, b, doc, e>>
      /\ Twice(tag, doc, TRUE) = <<b, doc, Fence!Noise, e, b, doc, Fence!Noise, e>>
  BY BlockParts
<1>. HIDE DEF b, e
<1>3. Fence!IndicesOf(<<>>, b) = {} /\ Fence!IndicesOf(<<>>, e) = {}
  BY DEF Fence!IndicesOf
<1>4. Fence!IndicesOf(Fence!Block(tag, doc, FALSE), b) = {1}
        /\ Fence!IndicesOf(Fence!Block(tag, doc, FALSE), e) = {3}
  <2> DEFINE u == <<b, doc, e>>
  <2>1. DOMAIN u = {1, 2, 3}
    OBVIOUS
  <2>2. u[1] = b /\ u[2] = doc /\ u[3] = e
    OBVIOUS
  <2>. HIDE DEF u
  <2>3. Fence!IndicesOf(u, b) = {i \in DOMAIN u : u[i] = b}
          /\ Fence!IndicesOf(u, e) = {i \in DOMAIN u : u[i] = e}
    BY DEF Fence!IndicesOf
  <2>. QED  BY <1>1, <1>2, <2>1, <2>2, <2>3 DEF u
<1>5. Fence!IndicesOf(Fence!Block(tag, doc, TRUE), b) = {1}
        /\ Fence!IndicesOf(Fence!Block(tag, doc, TRUE), e) = {4}
  <2> DEFINE u == <<b, doc, Fence!Noise, e>>
  <2>1. DOMAIN u = {1, 2, 3, 4}
    OBVIOUS
  <2>2. u[1] = b /\ u[2] = doc /\ u[3] = Fence!Noise /\ u[4] = e
    OBVIOUS
  <2>. HIDE DEF u
  <2>3. Fence!IndicesOf(u, b) = {i \in DOMAIN u : u[i] = b}
          /\ Fence!IndicesOf(u, e) = {i \in DOMAIN u : u[i] = e}
    BY DEF Fence!IndicesOf
  <2>. QED  BY <1>1, <1>2, <2>1, <2>2, <2>3 DEF u
<1>6. {1, 4} \subseteq Fence!IndicesOf(Twice(tag, doc, FALSE), b)
  <2> DEFINE u == <<b, doc, e, b, doc, e>>
  <2>1. DOMAIN u = {1, 2, 3, 4, 5, 6}
    OBVIOUS
  <2>2. u[1] = b /\ u[2] = doc /\ u[3] = e /\ u[4] = b /\ u[5] = doc /\ u[6] = e
    OBVIOUS
  <2>. HIDE DEF u
  <2>3. Fence!IndicesOf(u, b) = {i \in DOMAIN u : u[i] = b}
          /\ Fence!IndicesOf(u, e) = {i \in DOMAIN u : u[i] = e}
    BY DEF Fence!IndicesOf
  <2>. QED  BY <1>1, <1>2, <2>1, <2>2, <2>3 DEF u
<1>7. {1, 5} \subseteq Fence!IndicesOf(Twice(tag, doc, TRUE), b)
  <2> DEFINE u == <<b, doc, Fence!Noise, e, b, doc, Fence!Noise, e>>
  <2>1. DOMAIN u = {1, 2, 3, 4, 5, 6, 7, 8}
    OBVIOUS
  <2>2. u[1] = b /\ u[2] = doc /\ u[3] = Fence!Noise /\ u[4] = e /\ u[5] = b /\ u[6] = doc
          /\ u[7] = Fence!Noise /\ u[8] = e
    OBVIOUS
  <2>. HIDE DEF u
  <2>3. Fence!IndicesOf(u, b) = {i \in DOMAIN u : u[i] = b}
          /\ Fence!IndicesOf(u, e) = {i \in DOMAIN u : u[i] = e}
    BY DEF Fence!IndicesOf
  <2>. QED  BY <1>1, <1>2, <2>1, <2>2, <2>3 DEF u
<1>. QED  BY <1>3, <1>4, <1>5, <1>6, <1>7 DEF b, e

(* Each block is a sequence.                                               *)
LEMMA BlocksOwn ==
  ASSUME NEW tag, NEW doc, NEW mid \in Blocks(tag, doc)
  PROVE  Own(mid)
<1> DEFINE b == Fence!Marker("begin", tag, "ours") 
           e == Fence!Marker("end", tag, "ours")
           S == {b, e, doc, Fence!Noise}
<1>1. /\ Fence!Block(tag, doc, FALSE) = <<b, doc, e>>
           /\ Fence!Block(tag, doc, TRUE) = <<b, doc, Fence!Noise, e>>
      /\ Twice(tag, doc, FALSE) = <<b, doc, e, b, doc, e>>
      /\ Twice(tag, doc, TRUE) = <<b, doc, Fence!Noise, e, b, doc, Fence!Noise, e>>
  BY BlockParts
<1>. HIDE DEF b, e
<1>2. <<>> \in Seq(S) /\ <<b, doc, e>> \in Seq(S) /\ <<b, doc, Fence!Noise, e>> \in Seq(S)
      /\ <<b, doc, e, b, doc, e>> \in Seq(S)
           /\ <<b, doc, Fence!Noise, e, b, doc, Fence!Noise, e>> \in Seq(S)
  OBVIOUS
<1>3. mid \in Seq(S)
  BY <1>1, <1>2 DEF Blocks
<1>. QED  BY <1>3, OwnElements DEF Own

(* What is read from it.                                                   *)
Reads(out, tag, status, body) ==
  /\ Fence!ExtractFence(out, Fence!FencePair(tag, "ours")).status = status
  /\ Fence!ExtractFence(out, Fence!FencePair(tag, "ours")).body = body

(* The size that the fence counts is the size of FiniteSets.               *)
LEMMA FenceCounts == \A S : Fence!Cardinality(S) = Cardinality(S)
  BY DEF Fence!Cardinality, Cardinality

(* One opening marker and one closing one after it: what is between them.  *)
LEMMA ReadOnce ==
  ASSUME NEW out, Own(out), NEW tag, NEW i \in Nat, NEW k \in Nat, i < k,
         Fence!IndicesOf(out, Fence!Marker("begin", tag, "ours")) = {i},
         Fence!IndicesOf(out, Fence!Marker("end", tag, "ours")) = {k}
  PROVE  Reads(out, tag, "ok", SubSeq(out, i + 1, k - 1))
<1> DEFINE pair == Fence!FencePair(tag, "ours")
<1>1. pair[1] = Fence!Marker("begin", tag, "ours") /\ pair[2] = Fence!Marker("end", tag, "ours")
  BY DEF Fence!FencePair
<1>. HIDE DEF pair
<1>2. Cardinality({i}) = 1 /\ Cardinality({k}) = 1
  BY FS_Singleton
<1>3. (CHOOSE j \in {i} : TRUE) = i /\ (CHOOSE j \in {k} : TRUE) = k
  OBVIOUS
<1>4. Fence!ExtractFence(out, pair) = [status |-> "ok", body |-> SubSeq(out, i + 1, k - 1)]
  <2>1. {i} # {} /\ ~(k < i)
    OBVIOUS
  <2>2. Fence!IndicesOf(out, pair[1]) = {i} /\ Fence!IndicesOf(out, pair[2]) = {k}
    BY <1>1
  <2>. QED  BY <1>2, <1>3, <2>1, <2>2, FenceCounts DEF Fence!ExtractFence
<1>. QED  BY <1>4 DEF Reads, pair

(* No marker: nothing.                                                     *)
LEMMA ReadNever ==
  ASSUME NEW out, NEW tag, Fence!IndicesOf(out, Fence!Marker("begin", tag, "ours")) = {},
         Fence!IndicesOf(out, Fence!Marker("end", tag, "ours")) = {}
  PROVE  Reads(out, tag, "absent", <<>>)
<1> DEFINE pair == Fence!FencePair(tag, "ours")
<1>1. pair[1] = Fence!Marker("begin", tag, "ours") /\ pair[2] = Fence!Marker("end", tag, "ours")
  BY DEF Fence!FencePair
<1>. HIDE DEF pair
<1>4. Fence!ExtractFence(out, pair) = [status |-> "absent", body |-> <<>>]
  BY <1>1 DEF Fence!ExtractFence
<1>. QED  BY <1>4 DEF Reads, pair

(* Two opening markers: no one can say which of them counts.               *)
LEMMA ReadTwice ==
  ASSUME NEW out, Own(out), NEW tag, NEW i, NEW k, i # k,
         i \in Fence!IndicesOf(out, Fence!Marker("begin", tag, "ours")),
           k \in Fence!IndicesOf(out, Fence!Marker("begin", tag, "ours"))
  PROVE  Reads(out, tag, "ambiguous", <<>>)
<1> DEFINE pair == Fence!FencePair(tag, "ours")
<1>1. pair[1] = Fence!Marker("begin", tag, "ours") /\ pair[2] = Fence!Marker("end", tag, "ours")
  BY DEF Fence!FencePair
<1>. HIDE DEF pair
<1>2. Cardinality(Fence!IndicesOf(out, pair[1])) # 1
  <2>1. SUFFICES ASSUME Cardinality(Fence!IndicesOf(out, pair[1])) = 1 PROVE FALSE
    OBVIOUS
  <2>2. Fence!IndicesOf(out, pair[1]) \subseteq 1..Len(out) /\ IsFiniteSet(1..Len(out))
    <3>1. Len(out) \in Nat /\ DOMAIN out = 1..Len(out)
      BY DEF Own
    <3>. QED  BY <3>1, FS_Interval DEF Fence!IndicesOf
  <2>3. IsFiniteSet(Fence!IndicesOf(out, pair[1]))
    BY <2>2, FS_Subset
  <2>. QED  BY <1>1, <2>1, <2>3, FS_Singleton
<1>3. Fence!IndicesOf(out, pair[1]) # {}
  BY <1>1
<1>4. Fence!ExtractFence(out, pair) = [status |-> "ambiguous", body |-> <<>>]
  BY <1>2, <1>3, FenceCounts DEF Fence!ExtractFence
<1>. QED  BY <1>4 DEF Reads, pair

(* What is in the two blocks that can be read.                             *)
LEMMA BlockShape ==
  ASSUME NEW tag, NEW doc
  PROVE  /\ Len(Fence!Block(tag, doc, FALSE)) = 3 /\ Fence!Block(tag, doc, FALSE)[2] = doc
         /\ Len(Fence!Block(tag, doc, TRUE)) = 4 /\ Fence!Block(tag, doc, TRUE)[2] = doc
              /\ Fence!Block(tag, doc, TRUE)[3] = Fence!Noise
<1> DEFINE b == Fence!Marker("begin", tag, "ours")
           e == Fence!Marker("end", tag, "ours")
<1>1. Fence!Block(tag, doc, FALSE) = <<b, doc, e>>
        /\ Fence!Block(tag, doc, TRUE) = <<b, doc, Fence!Noise, e>>
  BY BlockParts
<1>. HIDE DEF b, e
<1>2. Len(<<b, doc, e>>) = 3 /\ <<b, doc, e>>[2] = doc
  BY TupleParts
<1>3. Len(<<b, doc, Fence!Noise, e>>) = 4 /\ <<b, doc, Fence!Noise, e>>[2] = doc
        /\ <<b, doc, Fence!Noise, e>>[3] = Fence!Noise
  BY TupleParts
<1>. QED  BY <1>1, <1>2, <1>3

(* A block that begins right after position p of the output is read as it  *)
(* is.                                                                     *)
LEMMA ReadInside ==
  ASSUME NEW out, Own(out), NEW tag, NEW p \in Nat, NEW n \in {3, 4}, p + n <= Len(out),
         Fence!IndicesOf(out, Fence!Marker("begin", tag, "ours")) = {p + 1},
         Fence!IndicesOf(out, Fence!Marker("end", tag, "ours")) = {p + n}
  PROVE  /\ n = 3 => Reads(out, tag, "ok", <<out[p + 2]>>)
         /\ n = 4 => Reads(out, tag, "ok", <<out[p + 2], out[p + 3]>>)
<1>1. p + 1 \in Nat /\ p + n \in Nat /\ p + 1 < p + n /\ p + 1 + 1 = p + 2 /\ p + n - 1 = p + (n - 1)
  OBVIOUS
<1> DEFINE t == SubSeq(out, p + 2, p + (n - 1))
           S == {out[i] : i \in DOMAIN out}
<1>2. Reads(out, tag, "ok", SubSeq(out, p + 1 + 1, p + n - 1))
  BY <1>1, ReadOnce
<1>3. Reads(out, tag, "ok", t)
  BY <1>1, <1>2
<1>4. t \in Seq(S) /\ Len(t) = n - 1 - 2 + 1 /\ \A i \in 1..(n - 1 - 2 + 1) : t[i] = out[p + 2 + i - 1]
  <2>1. n - 1 \in Nat /\ 2 <= n - 1 /\ p + (n - 1) <= Len(out)
    BY DEF Own
  <2>. QED  BY <2>1, Piece
<1>. HIDE DEF t, S
<1>5. CASE n = 3
  <2>1. Len(t) = 1 /\ t[1] = out[p + 2]
    BY <1>4, <1>5
  <2>2. t = <<out[p + 2]>>
    BY <1>4, <2>1
  <2>. QED  BY <1>3, <1>5, <2>2
<1>6. CASE n = 4
  <2>1. Len(t) = 2 /\ t[1] = out[p + 2] /\ t[2] = out[p + 3]
    BY <1>4, <1>6
  <2>2. t = <<out[p + 2], out[p + 3]>>
    BY <1>4, <2>1
  <2>. QED  BY <1>3, <1>6, <2>2
<1>. QED  BY <1>5, <1>6

(* fence.py, F-H1: whatever is printed around the block, if none of it has *)
(* the nonce of this run, the block is read as it was printed, and its     *)
(* absence or repetition is noticed.                                       *)
THEOREM FencesHold ==
  ASSUME NEW tag, NEW doc, doc.kind = "json", NEW pre, NEW post, Unforged(pre), Unforged(post)
  PROVE  /\ Reads(Around(pre, <<>>, post), tag, "absent", <<>>)
         /\ Reads(Around(pre, Fence!Block(tag, doc, FALSE), post), tag, "ok", <<doc>>)
         /\ Reads(Around(pre, Fence!Block(tag, doc, TRUE), post), tag, "ok", <<doc, Fence!Noise>>)
         /\ \A noisy \in BOOLEAN : Reads(Around(pre, Twice(tag, doc, noisy), post), tag, "ambiguous",
              <<>>)
<1> DEFINE p == Len(pre)
           b == Fence!Marker("begin", tag, "ours")
           e == Fence!Marker("end", tag, "ours")
<1>1. /\ Fence!IndicesOf(<<>>, b) = {} /\ Fence!IndicesOf(<<>>, e) = {}
      /\ Fence!IndicesOf(Fence!Block(tag, doc, FALSE), b) = {1}
           /\ Fence!IndicesOf(Fence!Block(tag, doc, FALSE), e) = {3}
      /\ Fence!IndicesOf(Fence!Block(tag, doc, TRUE), b) = {1}
           /\ Fence!IndicesOf(Fence!Block(tag, doc, TRUE), e) = {4}
      /\ {1, 4} \subseteq Fence!IndicesOf(Twice(tag, doc, FALSE), b)
      /\ {1, 5} \subseteq Fence!IndicesOf(Twice(tag, doc, TRUE), b)
  BY BlockPlaces
<1>2. ASSUME NEW mid \in Blocks(tag, doc)
      PROVE  /\ Own(mid) /\ Own(Around(pre, mid, post)) /\ p \in Nat /\ Len(mid) \in Nat
             /\ Fence!IndicesOf(Around(pre, mid, post), b) = {p + i : i \in Fence!IndicesOf(mid, b)}
             /\ Fence!IndicesOf(Around(pre, mid, post), e) = {p + i : i \in Fence!IndicesOf(mid, e)}
             /\ Len(Around(pre, mid, post)) >= p + Len(mid)
             /\ \A i \in 1..Len(mid) : Around(pre, mid, post)[p + i] = mid[i]
  <2>1. Own(mid)
    BY BlocksOwn
  <2>2. /\ p \in Nat /\ Len(mid) \in Nat /\ Len(post) \in Nat /\ Own(Around(pre, mid, post))
        /\ Len(Around(pre, mid, post)) = p + Len(mid) + Len(post)
        /\ \A i \in 1..Len(mid) : Around(pre, mid, post)[p + i] = mid[i]
    BY <2>1, PartsArePlaced DEF Unforged
  <2>3. /\ Fence!IndicesOf(Around(pre, mid, post), b) = {p + i : i \in Fence!IndicesOf(mid, b)}
        /\ Fence!IndicesOf(Around(pre, mid, post), e) = {p + i : i \in Fence!IndicesOf(mid, e)}
    BY <2>1, MarkersStay
  <2>. QED  BY <2>1, <2>2, <2>3
<1>3. Reads(Around(pre, <<>>, post), tag, "absent", <<>>)
  <2>1. <<>> \in Blocks(tag, doc)
    BY DEF Blocks
  <2>2. Fence!IndicesOf(Around(pre, <<>>, post), b) = {}
          /\ Fence!IndicesOf(Around(pre, <<>>, post), e) = {}
    BY <1>1, <1>2, <2>1
  <2>. QED  BY <2>2, ReadNever
<1>4. Reads(Around(pre, Fence!Block(tag, doc, FALSE), post), tag, "ok", <<doc>>)
  <2> DEFINE mid == Fence!Block(tag, doc, FALSE)
             out == Around(pre, mid, post)
  <2>1. mid \in Blocks(tag, doc)
    BY DEF Blocks
  <2>2. Len(mid) = 3 /\ Fence!IndicesOf(mid, b) = {1} /\ Fence!IndicesOf(mid, e) = {3} /\ mid[2] = doc
    BY <1>1, BlockShape
  <2>3. /\ Own(out) /\ p \in Nat /\ Len(out) >= p + Len(mid)
        /\ Fence!IndicesOf(out, b) = {p + i : i \in Fence!IndicesOf(mid, b)}
        /\ Fence!IndicesOf(out, e) = {p + i : i \in Fence!IndicesOf(mid, e)}
        /\ \A i \in 1..Len(mid) : out[p + i] = mid[i]
    BY <1>2, <2>1
  <2>. HIDE DEF mid, b, e, p, out
  <2>4. Fence!IndicesOf(out, b) = {p + 1} /\ Fence!IndicesOf(out, e) = {p + 3}
    BY <2>2, <2>3
  <2>5. p + 3 <= Len(out) /\ out[p + 2] = doc
    BY <2>2, <2>3 DEF Own
  <2>6. Reads(out, tag, "ok", <<doc>>)
    BY <2>3, <2>4, <2>5, ReadInside DEF b, e
  <2>. QED  BY <2>6 DEF out, mid
<1>5. Reads(Around(pre, Fence!Block(tag, doc, TRUE), post), tag, "ok", <<doc, Fence!Noise>>)
  <2> DEFINE mid == Fence!Block(tag, doc, TRUE)
             out == Around(pre, mid, post)
  <2>1. mid \in Blocks(tag, doc)
    BY DEF Blocks
  <2>2. Len(mid) = 4 /\ Fence!IndicesOf(mid, b) = {1} /\ Fence!IndicesOf(mid, e) = {4} /\ mid[2] = doc
          /\ mid[3] = Fence!Noise
    BY <1>1, BlockShape
  <2>3. /\ Own(out) /\ p \in Nat /\ Len(out) >= p + Len(mid)
        /\ Fence!IndicesOf(out, b) = {p + i : i \in Fence!IndicesOf(mid, b)}
        /\ Fence!IndicesOf(out, e) = {p + i : i \in Fence!IndicesOf(mid, e)}
        /\ \A i \in 1..Len(mid) : out[p + i] = mid[i]
    BY <1>2, <2>1
  <2>. HIDE DEF mid, b, e, p, out
  <2>4. Fence!IndicesOf(out, b) = {p + 1} /\ Fence!IndicesOf(out, e) = {p + 4}
    BY <2>2, <2>3
  <2>5. p + 4 <= Len(out) /\ out[p + 2] = doc /\ out[p + 3] = Fence!Noise
    BY <2>2, <2>3 DEF Own
  <2>6. Reads(out, tag, "ok", <<doc, Fence!Noise>>)
    BY <2>3, <2>4, <2>5, ReadInside DEF b, e
  <2>. QED  BY <2>6 DEF out, mid
<1>6. ASSUME NEW noisy \in BOOLEAN
      PROVE  Reads(Around(pre, Twice(tag, doc, noisy), post), tag, "ambiguous", <<>>)
  <2> DEFINE mid == Twice(tag, doc, noisy)
             out == Around(pre, mid, post)
  <2>1. mid \in Blocks(tag, doc)
    BY DEF Blocks
  <2>2. \E j \in {4, 5} : {1, j} \subseteq Fence!IndicesOf(mid, b)
    BY <1>1
  <2>3. PICK j \in {4, 5} : {1, j} \subseteq Fence!IndicesOf(mid, b)
    BY <2>2
  <2>. HIDE DEF mid
  <2>4. Own(out) /\ p + 1 \in Fence!IndicesOf(out, b) /\ p + j \in Fence!IndicesOf(out, b) /\ p \in Nat
    BY <1>2, <2>1, <2>3
  <2>. HIDE DEF out
  <2>. QED  BY <2>4, ReadTwice DEF out, mid
<1>. QED  BY <1>3, <1>4, <1>5, <1>6

(* What the agent's code prints in the cases has no marker of the run.     *)
LEMMA GuessedMarkers ==
  ASSUME NEW kind, NEW tag, NEW k, NEW t
  PROVE  Fence!Marker(kind, tag, "guess") # Fence!Marker(k, t, "ours")
           /\ Fence!Noise # Fence!Marker(k, t, "ours")
<1>1. Fence!Marker(kind, tag, "guess").nonce = "guess" /\ Fence!Marker(k, t, "ours").nonce = "ours"
  BY DEF Fence!Marker
<1>2. DOMAIN Fence!Noise = {"kind"} /\ "nonce" \in DOMAIN Fence!Marker(k, t, "ours")
  BY DEF Fence!Noise, Fence!Marker
<1>. QED  BY <1>1, <1>2

(* Nor is a document a marker.                                             *)
LEMMA DocsAreNoMarkers ==
  ASSUME NEW list, NEW items, NEW k, NEW t
  PROVE  Fence!Doc(list, items) # Fence!Marker(k, t, "ours")
<1>1. DOMAIN Fence!Doc(list, items) = {"kind", "list", "items"}
        /\ "nonce" \in DOMAIN Fence!Marker(k, t, "ours")
  BY DEF Fence!Doc, Fence!Marker
<1>. QED  BY <1>1

(* So what the agent prints in the cases is unforged.                      *)
LEMMA AgentsGuess ==
  ASSUME NEW out \in Fence!AgentOutputs
  PROVE  Unforged(out)
<1>1. ASSUME NEW tag, NEW doc, \A k, t : doc # Fence!Marker(k, t, "ours")
      PROVE  Unforged(Fence!Forged(tag, "guess", doc))
  <2> DEFINE b == Fence!Marker("begin", tag, "guess")
             e == Fence!Marker("end", tag, "guess")
  <2>1. \A k, t : b # Fence!Marker(k, t, "ours") /\ e # Fence!Marker(k, t, "ours")
    BY GuessedMarkers
  <2>. HIDE DEF b, e
  <2>2. <<b, doc, e>> \in Seq({b, doc, e})
    OBVIOUS
  <2>3. Own(<<b, doc, e>>)
    BY <2>2, OwnElements DEF Own
  <2>4. DOMAIN <<b, doc, e>> = 1..3 /\ <<b, doc, e>>[1] = b /\ <<b, doc, e>>[2] = doc
          /\ <<b, doc, e>>[3] = e
    OBVIOUS
  <2>5. Unforged(<<b, doc, e>>)
    BY <1>1, <2>1, <2>3, <2>4 DEF Unforged
  <2>. QED  BY <2>5 DEF Fence!Forged, b, e
<1>2. Unforged(<<>>)
  BY EmptyOwn DEF Unforged, Own
<1>3. ASSUME NEW x, \A k, t : x # Fence!Marker(k, t, "ours")
      PROVE  Unforged(<<x>>)
  <2>1. <<x>> \in Seq({x})
    OBVIOUS
  <2>2. Own(<<x>>)
    BY <2>1, OwnElements DEF Own
  <2>. QED  BY <1>3, <2>2 DEF Unforged
<1>4. \A list, items, k, t : Fence!Doc(list, items) # Fence!Marker(k, t, "ours")
  BY DocsAreNoMarkers
<1>5. \A kind, tag, k, t : Fence!Marker(kind, tag, "guess") # Fence!Marker(k, t, "ours")
        /\ Fence!Noise # Fence!Marker(k, t, "ours")
  BY GuessedMarkers
<1>. QED  BY <1>1, <1>2, <1>3, <1>4, <1>5 DEF Fence!AgentOutputs

(* A container of a grade: what is printed around the block is not a       *)
(* marker of the run, whatever else it is.                                 *)
Box(b, tag) ==
  /\ b.tag = tag /\ b.genuine.kind = "json" /\ Unforged(b.before) /\ Unforged(b.after)
  /\ b.printed \in {"never", "once", "twice"} /\ b.noisy \in BOOLEAN /\ b.copy \in {"ok", "OSError"}
  /\ b.decodes \in BOOLEAN

(* The container of a box was run, and what it printed can be read.        *)
Finished(b) == ~Fence!Unrun(b) /\ ~Fence!Undecoded(b)

(* What a container raises is neither of these, or says which.             *)
Fails(b, run) ==
  \/ run = Fence!Raised("unavailable") /\ Fence!Unrun(b) /\ ~Fence!Undecoded(b)
  \/ run = Fence!Raised("UnicodeDecodeError") /\ ~Fence!Unrun(b) /\ Fence!Undecoded(b)
  \/ run = Fence!Raised("container") /\ Finished(b)

(* What the fence makes of a box.                                          *)
LEMMA StdoutReads ==
  ASSUME NEW tag, NEW b, Box(b, tag)
  PROVE  /\ b.printed = "never" => Reads(Fence!Stdout(b), tag, "absent", <<>>)
         /\ b.printed = "twice" => Reads(Fence!Stdout(b), tag, "ambiguous", <<>>)
         /\ b.printed = "once"
              /\ b.noisy => Reads(Fence!Stdout(b), tag, "ok", <<b.genuine, Fence!Noise>>)
         /\ b.printed = "once" /\ ~b.noisy => Reads(Fence!Stdout(b), tag, "ok", <<b.genuine>>)
<1>1. Fence!Stdout(b) = Around(b.before, Fence!Printed(b), b.after)
  BY DEF Fence!Stdout, Around
<1>2. /\ Reads(Around(b.before, <<>>, b.after), tag, "absent", <<>>)
      /\ Reads(Around(b.before, Fence!Block(tag, b.genuine, FALSE), b.after), tag, "ok", <<b.genuine>>)
      /\ Reads(Around(b.before, Fence!Block(tag, b.genuine, TRUE), b.after), tag, "ok",
           <<b.genuine, Fence!Noise>>)
      /\ \A noisy \in BOOLEAN : Reads(Around(b.before, Twice(tag, b.genuine, noisy), b.after), tag,
           "ambiguous", <<>>)
  BY FencesHold DEF Box
<1>3. CASE b.printed = "never"
  BY <1>1, <1>2, <1>3 DEF Fence!Printed
<1>4. CASE b.printed = "twice"
  <2>1. Fence!Printed(b) = Twice(tag, b.genuine, b.noisy)
    BY <1>4 DEF Fence!Printed, Twice, Box
  <2>. QED  BY <1>1, <1>2, <1>4, <2>1 DEF Box
<1>5. CASE b.printed = "once" /\ b.noisy
  <2>1. Fence!Printed(b) = Fence!Block(tag, b.genuine, TRUE)
    BY <1>5 DEF Fence!Printed, Box
  <2>. QED  BY <1>1, <1>2, <1>5, <2>1
<1>6. CASE b.printed = "once" /\ ~b.noisy
  <2>1. Fence!Printed(b) = Fence!Block(tag, b.genuine, FALSE)
    BY <1>6 DEF Fence!Printed, Box
  <2>. QED  BY <1>1, <1>2, <1>6, <2>1
<1>. QED  BY <1>3, <1>4, <1>5, <1>6 DEF Box

(* What a run of a container comes to.                                     *)
LEMMA ContainerEnds ==
  ASSUME NEW b, b.copy \in {"ok", "OSError"}, b.decodes \in BOOLEAN
  PROVE  LET run == Fence!RunContainer(b)
         IN  (run = Fence!Ran(Fence!Stdout(b)) /\ Finished(b)) \/ Fails(b, run)
<1>1. CASE b.copy = "OSError"
  BY <1>1 DEF Fence!RunContainer, Fence!FreshWorkspaceCopy, Finished, Fails, Fence!Unrun, Fence!Undecoded
<1>2. CASE b.copy # "OSError"
  <2>1. Fence!RunContainer(b) = Fence!RunGradingContainer(b) /\ b.copy = "ok"
    BY <1>2 DEF Fence!RunContainer, Fence!FreshWorkspaceCopy
  <2>2. CASE b.exit \in {"OSError", "timeout"}
    BY <2>1, <2>2 DEF Fence!RunGradingContainer, Fails, Fence!Unrun, Fence!Undecoded
  <2>3. CASE b.exit \notin {"OSError", "timeout"} /\ ~b.decodes
    BY <2>1, <2>3 DEF Fence!RunGradingContainer, Fails, Fence!Unrun, Fence!Undecoded
  <2>4. CASE b.exit = "125" /\ b.decodes
    BY <2>1, <2>4 DEF Fence!RunGradingContainer, Fails, Fence!Unrun, Fence!Undecoded
  <2>5. CASE b.exit = "0" /\ b.decodes
    BY <2>1, <2>5 DEF Fence!RunGradingContainer, Finished, Fence!Unrun, Fence!Undecoded
  <2>6. CASE b.exit \notin {"OSError", "timeout", "125", "0"} /\ b.decodes
    BY <2>1, <2>6 DEF Fence!RunGradingContainer, Finished, Fails, Fence!Unrun, Fence!Undecoded
  <2>. QED  BY <2>2, <2>3, <2>4, <2>5, <2>6
<1>. QED  BY <1>1, <1>2

(* The two ways in which a part of the grader ends.                        *)
LEMMA Runs ==
  ASSUME NEW v
  PROVE  Fence!Ran(v).how = "ran" /\ Fence!Ran(v).value = v /\ Fence!Raised(v).how = "raised"
           /\ Fence!Raised(v).error = v
BY DEF Fence!Ran, Fence!Raised

(* Whatever comes of the two containers, what is parsed is the document    *)
(* of the grader, or nothing that counts.                                  *)
HoldoutOf(b) ==
  LET run == Fence!ParseFencedStdout(Fence!RunContainer(b))
  IN  \/ run \in {Fence!Ran(b.genuine), Fence!Ran(Fence!Malformed)} /\ Finished(b)
      \/ Fails(b, run)

(* The same of the plugins, whose document must be a list of results.      *)
PluginsOf(b) ==
  LET run == Fence!RunPluginsInContainer(Fence!RunContainer(b))
  IN  (run = Fence!Ran(b.genuine.items) /\ Finished(b)) \/ Fails(b, run)

(* The body that is read is the document of the box, alone, or no JSON.    *)
LEMMA BodiesRead ==
  ASSUME NEW tag, NEW b, Box(b, tag), NEW x,
           x = Fence!ExtractFence(Fence!Stdout(b), Fence!FencePair(tag, "ours"))
  PROVE  \/ x.status \in {"absent", "ambiguous"}
         \/ x.status = "ok" /\ ~Fence!IsJson(x.body)
         \/ x.status = "ok" /\ Fence!IsJson(x.body) /\ x.body[1] = b.genuine
<1>1. /\ b.printed = "never" => x.status = "absent"
      /\ b.printed = "twice" => x.status = "ambiguous"
      /\ b.printed = "once" /\ b.noisy => x.status = "ok" /\ x.body = <<b.genuine, Fence!Noise>>
      /\ b.printed = "once" /\ ~b.noisy => x.status = "ok" /\ x.body = <<b.genuine>>
  BY StdoutReads DEF Reads
<1>2. ~Fence!IsJson(<<b.genuine, Fence!Noise>>)
  BY TupleParts DEF Fence!IsJson
<1>3. <<b.genuine>>[1] = b.genuine /\ Fence!IsJson(<<b.genuine>>)
  BY TupleParts DEF Fence!IsJson, Box
<1>. QED  BY <1>1, <1>2, <1>3 DEF Box

(* fence.py, runners.py: for a container that prints whatever it likes but *)
(* the nonce, what is parsed of the holdouts is the document of the        *)
(* grader, a malformed one, or an error that says whether the container    *)
(* was run and whether what it printed could be decoded.                   *)
THEOREM HoldoutsAreGenuine ==
  ASSUME NEW b, Box(b, "holdout")
  PROVE  HoldoutOf(b)
<1> DEFINE run == Fence!RunContainer(b)
           x == Fence!ExtractFence(Fence!Stdout(b), Fence!FencePair("holdout", "ours"))
<1>1. CASE run = Fence!Ran(Fence!Stdout(b)) /\ Finished(b)
  <2>1. run.how = "ran" /\ run.how # "raised" /\ run.value = Fence!Stdout(b)
    BY <1>1, Runs
  <2>2. \/ x.status \in {"absent", "ambiguous"}
        \/ x.status = "ok" /\ ~Fence!IsJson(x.body)
        \/ x.status = "ok" /\ Fence!IsJson(x.body) /\ x.body[1] = b.genuine
    BY BodiesRead
  <2>3. Fence!ExtractFence(run.value, Fence!FencePair("holdout", "ours")) = x
    BY <2>1
  <2>. HIDE DEF run, x
  <2>4. CASE x.status = "absent"
    <3>1. Fence!ParseFencedStdout(run) = Fence!Raised("container")
      BY <2>1, <2>3, <2>4 DEF Fence!ParseFencedStdout
    <3>. QED  BY <1>1, <3>1 DEF HoldoutOf, Fails, run
  <2>5. CASE x.status = "ambiguous"
    <3>1. Fence!ParseFencedStdout(run) = Fence!Ran(Fence!Malformed)
      BY <2>1, <2>3, <2>5 DEF Fence!ParseFencedStdout
    <3>. QED  BY <1>1, <3>1 DEF HoldoutOf, Fails, run
  <2>6. CASE x.status = "ok" /\ ~Fence!IsJson(x.body)
    <3>1. Fence!ParseFencedStdout(run) = Fence!Ran(Fence!Malformed)
      BY <2>1, <2>3, <2>6 DEF Fence!ParseFencedStdout
    <3>. QED  BY <1>1, <3>1 DEF HoldoutOf, Fails, run
  <2>7. CASE x.status = "ok" /\ Fence!IsJson(x.body) /\ x.body[1] = b.genuine
    <3>1. Fence!ParseFencedStdout(run) = Fence!Ran(b.genuine)
      BY <2>1, <2>3, <2>7 DEF Fence!ParseFencedStdout
    <3>. QED  BY <1>1, <3>1 DEF HoldoutOf, Fails, run
  <2>. QED  BY <2>2, <2>4, <2>5, <2>6, <2>7
<1>2. ASSUME NEW error, run = Fence!Raised(error)
      PROVE  Fence!ParseFencedStdout(run) = run
  <2>1. run.how = "raised"
    BY <1>2, Runs
  <2>. HIDE DEF run
  <2>. QED  BY <2>1 DEF Fence!ParseFencedStdout
<1>3. (run = Fence!Ran(Fence!Stdout(b)) /\ Finished(b)) \/ Fails(b, run)
  BY ContainerEnds DEF Box
<1>. HIDE DEF run
<1>4. CASE Fails(b, run)
  <2>1. Fence!ParseFencedStdout(run) = run
    BY <1>2, <1>4 DEF Fails
  <2>. QED  BY <1>4, <2>1 DEF HoldoutOf, run
<1>. QED  BY <1>1, <1>3, <1>4

(* plugins/launch.py: the same for what is parsed of the plugins.          *)
THEOREM PluginsAreGenuine ==
  ASSUME NEW b, Box(b, "plugin")
  PROVE  PluginsOf(b)
<1> DEFINE run == Fence!RunContainer(b)
           x == Fence!ExtractFence(Fence!Stdout(b), Fence!FencePair("plugin", "ours"))
<1>1. CASE run = Fence!Ran(Fence!Stdout(b)) /\ Finished(b)
  <2>1. run.how = "ran" /\ run.how # "raised" /\ run.value = Fence!Stdout(b)
    BY <1>1, Runs
  <2>2. \/ x.status \in {"absent", "ambiguous"}
        \/ x.status = "ok" /\ ~Fence!IsJson(x.body)
        \/ x.status = "ok" /\ Fence!IsJson(x.body) /\ x.body[1] = b.genuine
    BY BodiesRead
  <2>3. Fence!ExtractFence(run.value, Fence!FencePair("plugin", "ours")) = x
    BY <2>1
  <2>. HIDE DEF run, x
  <2>4. CASE x.status \in {"absent", "ambiguous"}
    <3>1. Fence!RunPluginsInContainer(run) = Fence!Raised("container")
      BY <2>1, <2>3, <2>4 DEF Fence!RunPluginsInContainer
    <3>. QED  BY <1>1, <3>1 DEF PluginsOf, Fails, run
  <2>5. CASE x.status = "ok" /\ ~Fence!IsJson(x.body)
    <3>1. Fence!RunPluginsInContainer(run) = Fence!Raised("container")
      BY <2>1, <2>3, <2>5 DEF Fence!RunPluginsInContainer
    <3>. QED  BY <1>1, <3>1 DEF PluginsOf, Fails, run
  <2>6. CASE x.status = "ok" /\ Fence!IsJson(x.body) /\ x.body[1] = b.genuine
    <3>1. Fence!RunPluginsInContainer(run) \in {Fence!Raised("container"), Fence!Ran(b.genuine.items)}
      BY <2>1, <2>3, <2>6 DEF Fence!RunPluginsInContainer
    <3>. QED  BY <1>1, <3>1 DEF PluginsOf, Fails, run
  <2>. QED  BY <2>2, <2>4, <2>5, <2>6
<1>2. ASSUME NEW error, run = Fence!Raised(error)
      PROVE  Fence!RunPluginsInContainer(run) = run
  <2>1. run.how = "raised"
    BY <1>2, Runs
  <2>. HIDE DEF run
  <2>. QED  BY <2>1 DEF Fence!RunPluginsInContainer
<1>3. (run = Fence!Ran(Fence!Stdout(b)) /\ Finished(b)) \/ Fails(b, run)
  BY ContainerEnds DEF Box
<1>. HIDE DEF run
<1>4. CASE Fails(b, run)
  <2>1. Fence!RunPluginsInContainer(run) = run
    BY <1>2, <1>4 DEF Fails
  <2>. QED  BY <1>4, <2>1 DEF PluginsOf, run
<1>. QED  BY <1>1, <1>3, <1>4

(* What GradeTrial makes of its two halves.                                *)
Halves(t, run, extra) ==
  /\ run = Fence!RunHoldouts(t) /\ extra = Fence!RunPlugins(t)
  /\ t.workspace \in BOOLEAN
  /\ run.how = "raised"
       => run.error \in Fence!Escaping \cup {"unavailable", "results_missing", "container"}

(* Nothing stands between the trial and a grade but the commitment.        *)
Gradable(run, extra) ==
  run.how # "raised" /\ Fence!ParseHoldoutOutput(run.value) /\ extra.how # "raised"

(* deterministic.py, grade_trial: when there is a grade and of what, when  *)
(* the pass ends, and when the refusal is transient.                       *)
LEMMA TrialGraded ==
  ASSUME NEW t, NEW run, NEW extra, Halves(t, run, extra), Null \notin Fence!TRANSIENT_CANT_GRADE,
         t.hash \in Fence!Hashes
  PROVE  LET g == Fence!GradeTrial(t)
         IN  /\ g.event = "grade" =>
                  /\ t.workspace /\ t.hash = "ok" /\ run.how # "raised" /\ Fence!ParseHoldoutOutput(run.value)
                       /\ extra.how # "raised"
                  /\ g.grader = t.grader /\ g.holdout = run.value.items /\ g.plugins = extra.value
                  /\ g.binary <=> Fence!BinaryScore(run.value.items)
             /\ t.workspace /\ t.hash = "ok" /\ Gradable(run, extra) => g.event = "grade"
             /\ g.event = "none" <=>
                  /\ t.workspace
                  /\ \/ run.how = "raised" /\ run.error \in Fence!Escaping
                     \/ Gradable(run, extra) /\ t.hash # "ok"
             /\ g.reason \in Fence!TRANSIENT_CANT_GRADE <=>
                  /\ t.workspace
                  /\ \/ run.how = "raised" /\ run.error = "unavailable"
                     \/ /\ run.how # "raised" /\ Fence!ParseHoldoutOutput(run.value)
                        /\ extra.how = "raised" /\ extra.error = "unavailable"
<1> DEFINE g == Fence!GradeTrial(t)
<1>1. CASE ~t.workspace
  <2>1. g = Fence!CantGrade("workspace_missing")
    BY <1>1 DEF Fence!GradeTrial
  <2>. QED  BY <1>1, <2>1 DEF Gradable, Fence!CantGrade, Fence!TRANSIENT_CANT_GRADE
<1>2. CASE t.workspace /\ run.how = "raised" /\ run.error \in Fence!Escaping
  <2>1. g = Fence!Ends(run.error)
    BY <1>2 DEF Fence!GradeTrial, Halves
  <2>. QED  BY <1>2, <2>1 DEF Fence!Ends, Fence!Escaping, Fence!TRANSIENT_CANT_GRADE, Gradable
<1>3. CASE t.workspace /\ run.how = "raised" /\ run.error \notin Fence!Escaping
  <2>1. g = Fence!CantGrade(Fence!Reason(run.error))
    BY <1>3 DEF Fence!GradeTrial, Halves
  <2>2. Fence!Reason(run.error) = "grader_unavailable" <=> run.error = "unavailable"
    BY <1>3 DEF Fence!Reason, Halves
  <2>. QED  BY <1>3, <2>1, <2>2 DEF Gradable, Fence!Escaping, Fence!CantGrade, Fence!TRANSIENT_CANT_GRADE
<1>4. CASE t.workspace /\ run.how # "raised" /\ ~Fence!ParseHoldoutOutput(run.value)
  <2>1. g = Fence!CantGrade("malformed_holdout_output")
    BY <1>4 DEF Fence!GradeTrial, Halves
  <2>. QED  BY <1>4, <2>1 DEF Gradable, Fence!CantGrade, Fence!TRANSIENT_CANT_GRADE
<1>5. CASE t.workspace /\ run.how # "raised" /\ Fence!ParseHoldoutOutput(run.value)
             /\ extra.how = "raised"
  <2>1. g = Fence!CantGrade(IF extra.error
          = "unavailable" THEN "grader_unavailable" ELSE "plugin_error")
    BY <1>5 DEF Fence!GradeTrial, Halves
  <2>. QED  BY <1>5, <2>1 DEF Gradable, Fence!CantGrade, Fence!TRANSIENT_CANT_GRADE
<1>6. CASE t.workspace /\ Gradable(run, extra) /\ t.hash # "ok"
  <2>1. g = Fence!Ends(t.hash)
    BY <1>6 DEF Fence!GradeTrial, Halves, Gradable
  <2>. QED  BY <1>6, <2>1 DEF Fence!Ends, Fence!Hashes, Fence!TRANSIENT_CANT_GRADE, Gradable
<1>7. CASE t.workspace /\ Gradable(run, extra) /\ t.hash = "ok"
  <2>1. g = [event |-> "grade", reason |-> Null, grader |-> t.grader,
             holdout |-> run.value.items, plugins |-> extra.value,
             binary |-> Fence!BinaryScore(run.value.items),
             fractional |-> Fence!FractionalScore(run.value.items \o extra.value)]
    BY <1>7 DEF Fence!GradeTrial, Halves, Gradable
  <2>2. /\ g.event = "grade" /\ g.reason = Null /\ g.grader = t.grader /\ g.holdout = run.value.items
        /\ g.plugins = extra.value /\ g.binary = Fence!BinaryScore(run.value.items)
    BY <2>1
  <2>. HIDE DEF g
  <2>3. /\ g.event = "grade" =>
                  /\ t.workspace /\ t.hash = "ok" /\ run.how # "raised" /\ Fence!ParseHoldoutOutput(run.value)
                       /\ extra.how # "raised"
                  /\ g.grader = t.grader /\ g.holdout = run.value.items /\ g.plugins = extra.value
        /\ g.binary <=> Fence!BinaryScore(run.value.items)
    BY <1>7, <2>2, Zenon DEF Gradable
  <2>4. g.event = "grade" /\ g.event # "none" /\ g.reason \notin Fence!TRANSIENT_CANT_GRADE
    BY <2>2
  <2>. QED  BY <1>7, <2>3, <2>4, Zenon DEF Gradable, g
<1>. QED  BY <1>1, <1>2, <1>3, <1>4, <1>5, <1>6, <1>7 DEF Halves, Gradable

(* A pass has a holdout behind it, and nothing but passes.                 *)
LEMMA PassCounts ==
  ASSUME NEW s, Own(s), Fence!BinaryScore(s)
  PROVE  Fence!Count(s, "pass") >= 1 /\ Fence!Count(s, "fail") + Fence!Count(s, "abstain") = 0
<1>1. Len(s) \in Nat /\ DOMAIN s = 1..Len(s)
  BY DEF Own
<1>2. s # <<>> /\ \A i \in DOMAIN s : s[i] = "pass"
  BY DEF Fence!BinaryScore
<1>3. Len(s) >= 1
  BY <1>1, <1>2 DEF Own
<1>4. {i \in DOMAIN s : s[i] = "pass"} = 1..Len(s)
  BY <1>1, <1>2
<1>5. {i \in DOMAIN s : s[i] = "fail"} = {} /\ {i \in DOMAIN s : s[i] = "abstain"} = {}
  BY <1>2
<1>6. Cardinality(1..Len(s)) = Len(s)
  BY <1>1, <1>3, FS_Interval
<1>7. Cardinality({}) = 0
  BY FS_EmptySet
<1>8. Fence!Count(s, "pass") = Len(s)
  BY <1>4, <1>6, FenceCounts DEF Fence!Count
<1>9. Fence!Count(s, "fail") = 0 /\ Fence!Count(s, "abstain") = 0
  BY <1>5, <1>7, FenceCounts DEF Fence!Count
<1>. QED  BY <1>1, <1>3, <1>8, <1>9

(* A trial, and what a grade of it would come to if only its workspace     *)
(* could be hashed.                                                        *)
Fields(t) ==
  t = [workspace |-> t.workspace, hash |-> t.hash, grader |-> t.grader, box |-> t.box,
       results |-> t.results, dir |-> t.dir, plugin |-> t.plugin, ground |-> t.ground,
       plugbox |-> t.plugbox]
Submitted(t) == Fields(t) /\ t.workspace \in BOOLEAN /\ t.hash \in Fence!Hashes
Hashed(t) == [t EXCEPT !.hash = "ok"]

(* The hash of the workspace is nothing to the containers.                 *)
LEMMA HashIsLast ==
  ASSUME NEW t, Submitted(t)
  PROVE  /\ Hashed(t).hash = "ok" /\ Hashed(t).workspace = t.workspace
         /\ Fence!RunHoldouts(Hashed(t)) = Fence!RunHoldouts(t)
         /\ Fence!RunPlugins(Hashed(t)) = Fence!RunPlugins(t)
<1> DEFINE u == Hashed(t)
<1>1. /\ u.hash = "ok" /\ u.workspace = t.workspace /\ u.grader = t.grader /\ u.box = t.box
      /\ u.results = t.results /\ u.dir = t.dir /\ u.plugin = t.plugin /\ u.ground = t.ground
      /\ u.plugbox = t.plugbox
  <2>1. DOMAIN t = {"workspace", "hash", "grader", "box", "results", "dir", "plugin", "ground", "plugbox"}
    BY DEF Submitted, Fields
  <2>. QED  BY <2>1 DEF Hashed
<1>. HIDE DEF u
<1>2. Fence!RunHoldouts(u) = Fence!RunHoldouts(t)
  BY <1>1 DEF Fence!RunHoldouts, Fence!DockerRun, Fence!LocalRun, Fence!LocalExecRun
<1>3. Fence!RunPlugins(u) = Fence!RunPlugins(t)
  BY <1>1 DEF Fence!RunPlugins
<1>. QED  BY <1>1, <1>2, <1>3 DEF u

(* So when the pass ends, and when it is that the workspace cannot be      *)
(* hashed.                                                                 *)
LEMMA PassEnds ==
  ASSUME NEW t, Submitted(t), NEW run, NEW extra, Halves(t, run, extra), Null \notin Fence!TRANSIENT_CANT_GRADE,
         NEW escapes \in BOOLEAN, escapes <=> run.how = "raised" /\ run.error \in Fence!Escaping
  PROVE  Fence!GradeTrial(t).event = "none" <=>
           /\ t.workspace
           /\ \/ escapes
              \/ t.hash # "ok" /\ Fence!GradeTrial([t EXCEPT !.hash = "ok"]).event = "grade"
<1>1. Fence!GradeTrial(t).event = "none" <=>
        /\ t.workspace
        /\ \/ run.how = "raised" /\ run.error \in Fence!Escaping
           \/ Gradable(run, extra) /\ t.hash # "ok"
  BY TrialGraded DEF Submitted
<1>2. t.workspace /\ Gradable(run, extra) <=> Fence!GradeTrial(Hashed(t)).event = "grade"
  <2>1. /\ Hashed(t).hash = "ok" /\ Hashed(t).workspace = t.workspace
        /\ Fence!RunHoldouts(Hashed(t)) = run /\ Fence!RunPlugins(Hashed(t)) = extra
    BY HashIsLast DEF Halves
  <2>2. "ok" \in Fence!Hashes
    BY DEF Fence!Hashes
  <2>3. Halves(Hashed(t), run, extra)
    BY <2>1 DEF Halves
  <2> DEFINE u == Hashed(t)
  <2>. HIDE DEF u
  <2>4. Halves(u, run, extra) /\ u.hash \in Fence!Hashes /\ u.hash = "ok" /\ u.workspace = t.workspace
    BY <2>1, <2>2, <2>3 DEF u
  <2>5. /\ Fence!GradeTrial(u).event = "grade" => u.workspace /\ Gradable(run, extra)
        /\ u.workspace /\ Gradable(run, extra) => Fence!GradeTrial(u).event = "grade"
    BY <2>4, TrialGraded DEF Gradable
  <2>. QED  BY <2>4, <2>5 DEF u
<1>. QED  BY <1>1, <1>2 DEF Hashed, Submitted

(* A trial whose two containers are such, with whatever documents.         *)
DockerTrial(t) ==
  /\ Submitted(t) /\ t.grader = "docker"
  /\ Box(t.box, "holdout") /\ Own(t.box.genuine.items)
  /\ t.plugin # Null => Box(t.plugbox, "plugin")

(* The halves of such a trial.                                             *)
LEMMA DockerHalves ==
  ASSUME NEW t, DockerTrial(t)
  PROVE  /\ Fence!RunHoldouts(t) = Fence!ParseFencedStdout(Fence!RunContainer(t.box))
         /\ t.plugin = Null => Fence!RunPlugins(t) = Fence!Ran(<<>>)
         /\ t.plugin # Null => Fence!RunPlugins(t)
              = Fence!RunPluginsInContainer(Fence!RunContainer(t.plugbox))
<1>1. Fence!RunHoldouts(t) = Fence!ParseFencedStdout(Fence!RunContainer(t.box))
  BY DEF DockerTrial, Fence!RunHoldouts, Fence!DockerRun
<1>2. t.plugin = Null => Fence!RunPlugins(t) = Fence!Ran(<<>>)
  BY DEF Fence!RunPlugins
<1>3. t.plugin # Null => Fence!RunPlugins(t)
        = Fence!RunPluginsInContainer(Fence!RunContainer(t.plugbox))
  BY DEF DockerTrial, Fence!RunPlugins
<1>. QED  BY <1>1, <1>2, <1>3

(* And what they come to.                                                  *)
LEMMA DockerEnds ==
  ASSUME NEW t, DockerTrial(t), NEW run, NEW extra, run = Fence!RunHoldouts(t),
           extra = Fence!RunPlugins(t)
  PROVE  /\ Halves(t, run, extra)
         /\ run.how # "raised" /\ Fence!ParseHoldoutOutput(run.value) => run.value = t.box.genuine
         /\ run.how = "raised" /\ run.error = "unavailable" <=> Fence!Unrun(t.box)
         /\ run.how = "raised" /\ run.error \in Fence!Escaping <=> Fence!Undecoded(t.box)
         /\ t.plugin # Null /\ extra.how # "raised" => extra.value = t.plugbox.genuine.items
         /\ t.plugin # Null
              => (extra.how = "raised" /\ extra.error = "unavailable" <=> Fence!Unrun(t.plugbox))
         /\ t.plugin = Null => extra.how # "raised"
<1>1. \/ run \in {Fence!Ran(t.box.genuine), Fence!Ran(Fence!Malformed)} /\ Finished(t.box)
      \/ Fails(t.box, run)
  BY DockerHalves, HoldoutsAreGenuine DEF DockerTrial, HoldoutOf
<1>2. t.plugin # Null => \/ extra = Fence!Ran(t.plugbox.genuine.items) /\ Finished(t.plugbox)
                         \/ Fails(t.plugbox, extra)
  BY DockerHalves, PluginsAreGenuine DEF DockerTrial, PluginsOf
<1>3. t.plugin = Null => extra = Fence!Ran(<<>>)
  BY DockerHalves
<1>4. ~Fence!ParseHoldoutOutput(Fence!Malformed)
  BY DEF Fence!ParseHoldoutOutput, Fence!Malformed, Fence!Doc
<1>5. Halves(t, run, extra)
  BY <1>1, Runs DEF Halves, DockerTrial, Submitted, Fails, Fence!Escaping
<1>6. /\ run.how # "raised" /\ Fence!ParseHoldoutOutput(run.value) => run.value = t.box.genuine
      /\ run.how = "raised" /\ run.error = "unavailable" <=> Fence!Unrun(t.box)
      /\ run.how = "raised" /\ run.error \in Fence!Escaping <=> Fence!Undecoded(t.box)
  BY <1>1, <1>4, Runs DEF Fails, Finished, Fence!Escaping
<1>7. /\ t.plugin # Null /\ extra.how # "raised" => extra.value = t.plugbox.genuine.items
      /\ t.plugin # Null => (extra.how = "raised" /\ extra.error = "unavailable" <=> Fence!Unrun(t.plugbox))
      /\ t.plugin = Null => extra.how # "raised"
  BY <1>2, <1>3, Runs DEF Fails, Finished
<1>. QED  BY <1>5, <1>6, <1>7

(* F-H1 for every trial that docker grades, whatever its containers print  *)
(* around the block of the grader and whatever documents they are.         *)
THEOREM DockerGradesAreGenuine ==
  ASSUME NEW t, DockerTrial(t), Null \notin Fence!TRANSIENT_CANT_GRADE
  PROVE  Fence!GradeIsGenuine(t)
<1> DEFINE run == Fence!RunHoldouts(t)
           extra == Fence!RunPlugins(t)
           g == Fence!GradeTrial(t)
<1>1. /\ Halves(t, run, extra)
      /\ run.how # "raised" /\ Fence!ParseHoldoutOutput(run.value) => run.value = t.box.genuine
      /\ t.plugin # Null /\ extra.how # "raised" => extra.value = t.plugbox.genuine.items
  BY DockerEnds
<1>. HIDE DEF run, extra
<1>2. g.event = "grade" =>
        /\ t.workspace /\ t.hash = "ok"
        /\ run.how # "raised" /\ Fence!ParseHoldoutOutput(run.value) /\ extra.how # "raised"
        /\ g.grader = t.grader /\ g.holdout = run.value.items /\ g.plugins = extra.value
        /\ g.binary <=> Fence!BinaryScore(run.value.items)
  BY <1>1, TrialGraded DEF DockerTrial, Submitted
<1>. HIDE DEF g
<1>3. SUFFICES ASSUME g.event = "grade"
               PROVE  /\ t.workspace /\ t.hash = "ok"
                      /\ g.grader = "docker" /\ g.holdout = t.box.genuine.items
                      /\ t.plugin # Null => g.plugins = t.plugbox.genuine.items
                      /\ g.binary => /\ Fence!Count(g.holdout, "pass") >= 1
                                     /\ Fence!Count(g.holdout, "fail") + Fence!Count(g.holdout,
                                          "abstain") = 0
  <2>1. "docker" # "local-exec"
    OBVIOUS
  <2>. QED  BY <2>1, Zenon DEF Fence!GradeIsGenuine, g
<1>4. g.holdout = t.box.genuine.items /\ g.grader = "docker"
  BY <1>1, <1>2, <1>3 DEF DockerTrial
<1>5. t.plugin # Null => g.plugins = t.plugbox.genuine.items
  BY <1>1, <1>2, <1>3
<1>6. g.binary => Fence!BinaryScore(g.holdout)
  BY <1>2, <1>3, Zenon
<1>7. Own(g.holdout)
  BY <1>4 DEF DockerTrial
<1>8. Fence!BinaryScore(g.holdout) => Fence!Count(g.holdout, "pass") >= 1
        /\ Fence!Count(g.holdout, "fail") + Fence!Count(g.holdout, "abstain") = 0
  BY <1>7, PassCounts
<1>. QED  BY <1>2, <1>3, <1>4, <1>5, <1>6, <1>8, Zenon

(* GR-11 for a trial that docker grades: it is retried exactly when a      *)
(* container of it could not be run, and has no event exactly when what    *)
(* the holdouts printed does not decode, or nothing but the hash of its    *)
(* workspace keeps it from a grade. With a plugin, the holdouts were read  *)
(* first.                                                                  *)
THEOREM DockerRetries ==
  ASSUME NEW t, DockerTrial(t), Null \notin Fence!TRANSIENT_CANT_GRADE,
         t.plugin # Null => Fence!RunHoldouts(t).how # "raised"
           /\ Fence!ParseHoldoutOutput(Fence!RunHoldouts(t).value)
  PROVE  Fence!RetryIffNotRun(t)
<1> DEFINE run == Fence!RunHoldouts(t)
           extra == Fence!RunPlugins(t)
           g == Fence!GradeTrial(t)
           h == Fence!GradeTrial([t EXCEPT !.hash = "ok"])
           unrun == \E b \in {t.box} \cup (IF t.plugin = Null THEN {} ELSE {t.plugbox}) : Fence!Unrun(b)
<1>1. /\ Halves(t, run, extra)
      /\ run.how = "raised" /\ run.error = "unavailable" <=> Fence!Unrun(t.box)
      /\ run.how = "raised" /\ run.error \in Fence!Escaping <=> Fence!Undecoded(t.box)
      /\ t.plugin # Null => (extra.how = "raised" /\ extra.error = "unavailable" <=> Fence!Unrun(t.plugbox))
      /\ t.plugin = Null => extra.how # "raised"
  BY DockerEnds
<1>2. Fence!HoldoutsEscape(t) <=> Fence!Undecoded(t.box)
  BY DEF Fence!HoldoutsEscape, DockerTrial
<1>3. t.plugin # Null => run.how # "raised" /\ Fence!ParseHoldoutOutput(run.value)
  OBVIOUS
<1>. HIDE DEF run, extra
<1>4. /\ g.reason \in Fence!TRANSIENT_CANT_GRADE <=>
           /\ t.workspace
           /\ \/ run.how = "raised" /\ run.error = "unavailable"
              \/ /\ run.how # "raised" /\ Fence!ParseHoldoutOutput(run.value)
                 /\ extra.how = "raised" /\ extra.error = "unavailable"
  BY <1>1, TrialGraded DEF DockerTrial, Submitted
<1>5. unrun <=> Fence!Unrun(t.box) \/ (t.plugin # Null /\ Fence!Unrun(t.plugbox))
  OBVIOUS
<1>6. g.event = "none" <=> t.workspace /\ (Fence!Undecoded(t.box) \/ (t.hash # "ok" /\ h.event = "grade"))
  <2>1. Fence!Undecoded(t.box) \in BOOLEAN
    BY DEF Fence!Undecoded
  <2>2. Submitted(t)
    BY DEF DockerTrial
  <2>. HIDE DEF g, h
  <2>3. \A escapes \in BOOLEAN : (escapes <=> run.how = "raised" /\ run.error \in Fence!Escaping)
          => (g.event = "none" <=> t.workspace /\ (escapes \/ (t.hash # "ok" /\ h.event = "grade")))
    BY <1>1, <2>2, PassEnds DEF g, h
  <2>. QED  BY <1>1, <2>1, <2>3
<1>. HIDE DEF g, h, unrun
<1>7. g.reason \in Fence!TRANSIENT_CANT_GRADE <=> t.workspace /\ unrun
  BY <1>1, <1>3, <1>4, <1>5
<1>. QED  BY <1>2, <1>6, <1>7 DEF Fence!RetryIffNotRun, g, h, unrun, DockerTrial

(* A workspace and the trusted assets beside it, whatever the review says. *)
Ground(g) ==
  /\ g.violations \in Nat /\ g.cautions \in Nat
  /\ g.flowmap \in Fence!Tools /\ g.groundwork \in Fence!Tools
  /\ g.assets \in {"committed", "workspace_only"}
  /\ g.substrate # Null => g.review[g.substrate] \in Fence!Verdicts

(* What a plugin with assertions has behind it.                            *)
Reviewed(g, items) ==
  /\ g.assets = "committed" /\ g.substrate # Null
  /\ g.flowmap = [bin |-> "found", exit |-> "0"]
  /\ Fence!Contains(items, "pass") <=> g.review[g.substrate] = "STRUCTURALLY-CLEAR"
  /\ Fence!Contains(items, "fail") <=> g.review[g.substrate] = "BLOCK" \/ g.violations > 0

(* A review becomes a pass or a failure of the plugin only by its verdict, *)
(* and each violation is a failure.                                        *)
LEMMA ReviewMapped ==
  ASSUME NEW a, a.violations \in Nat, a.cautions \in Nat, a.verdict \in Fence!Verdicts
  PROVE  LET items == Fence!MapReview(a)
         IN  /\ Fence!Contains(items, "pass") <=> a.verdict = "STRUCTURALLY-CLEAR"
             /\ Fence!Contains(items, "fail") <=> a.verdict = "BLOCK" \/ a.violations > 0
<1> DEFINE R == {"fail", "pass", "abstain"}
           u == <<Fence!VerdictMap(a.verdict)>>
           v == [i \in 1..a.violations |-> "fail"]
           w == [i \in 1..a.cautions |-> "abstain"]
           items == Fence!MapReview(a)
<1>1. Fence!VerdictMap(a.verdict) \in R
        /\ (Fence!VerdictMap(a.verdict) = "pass" <=> a.verdict = "STRUCTURALLY-CLEAR")
      /\ (Fence!VerdictMap(a.verdict) = "fail" <=> a.verdict = "BLOCK")
  BY DEF Fence!VerdictMap, Fence!Verdicts
<1>2. u \in Seq(R) /\ Len(u) = 1 /\ u[1] = Fence!VerdictMap(a.verdict)
  BY <1>1
<1>3. v \in Seq(R) /\ Len(v) = a.violations /\ \A i \in 1..a.violations : v[i] = "fail"
  OBVIOUS
<1>4. w \in Seq(R) /\ Len(w) = a.cautions /\ \A i \in 1..a.cautions : w[i] = "abstain"
  OBVIOUS
<1>5. items = u \o v \o w
  BY DEF Fence!MapReview
<1>. HIDE DEF u, v, w, items, R
<1>6. /\ items \in Seq(R) /\ Len(items) = 1 + a.violations + a.cautions
      /\ items[1] = u[1]
      /\ \A i \in 2..(1 + a.violations) : items[i] = "fail"
      /\ \A i \in (2 + a.violations)..Len(items) : items[i] = "abstain"
  <2> DEFINE uv == u \o v
             n == a.violations
  <2>0. uv \in Seq(R) /\ Len(uv) = Len(u) + Len(v)
        /\ \A i \in 1..(Len(u) + Len(v)) : uv[i] = IF i <= Len(u) THEN u[i] ELSE v[i - Len(u)]
    BY <1>2, <1>3, ConcatProperties
  <2>1. uv \in Seq(R) /\ Len(uv) = 1 + n /\ uv[1] = u[1]
    <3>. HIDE DEF uv
    <3>. QED  BY <1>2, <1>3, <2>0
  <2>2. ASSUME NEW i \in 2..(1 + n) PROVE uv[i] = "fail"
    <3>1. i \in 1..(Len(u) + Len(v)) /\ ~(i <= Len(u)) /\ i - Len(u) = i - 1 /\ i - 1 \in 1..n
      BY <1>2, <1>3
    <3>2. uv[i] = v[i - Len(u)]
      <4>. HIDE DEF uv
      <4>. QED  BY <2>0, <3>1
    <3>. QED  BY <1>3, <3>1, <3>2
  <2>3. items = uv \o w /\ n \in Nat
    BY <1>5
  <2>. HIDE DEF uv, n
  <2>4. /\ items \in Seq(R) /\ Len(items) = Len(uv) + Len(w)
        /\ \A i \in 1..(Len(uv) + Len(w)) : items[i] = IF i <= Len(uv) THEN uv[i] ELSE w[i - Len(uv)]
    BY <1>4, <2>1, <2>3, ConcatProperties
  <2>5. Len(items) = 1 + n + a.cautions /\ \A i \in 1..(1 + n) : items[i] = uv[i]
    BY <1>4, <2>1, <2>3, <2>4
  <2>6. ASSUME NEW i \in (2 + n)..Len(items) PROVE items[i] = "abstain"
    <3>1. i \in 1..(Len(uv) + Len(w)) /\ ~(i <= Len(uv)) /\ i - Len(uv) = i - (1 + n)
            /\ i - (1 + n) \in 1..a.cautions
      BY <1>4, <2>1, <2>3, <2>4, <2>5
    <3>2. items[i] = w[i - Len(uv)]
      BY <2>4, <3>1
    <3>. QED  BY <1>4, <3>1, <3>2
  <2>7. 1 \in 1..(1 + n) /\ \A i \in 2..(1 + n) : i \in 1..(1 + n)
    BY <2>3
  <2>. QED  BY <2>1, <2>2, <2>4, <2>5, <2>6, <2>7 DEF n
<1>7. DOMAIN items = 1..Len(items) /\ 1 \in 1..Len(items) /\ a.violations > 0 => 2 \in 1..Len(items)
        /\ items[2] = "fail"
  BY <1>6
<1>8. \A i \in 1..Len(items) : i = 1 \/ i \in 2..(1 + a.violations)
        \/ i \in (2 + a.violations)..Len(items)
  BY <1>6
<1>9. Fence!Contains(items, "pass") <=> u[1] = "pass"
  BY <1>6, <1>7, <1>8 DEF Fence!Contains
<1>10. Fence!Contains(items, "fail") <=> u[1] = "fail" \/ a.violations > 0
  BY <1>6, <1>7, <1>8 DEF Fence!Contains
<1>. QED  BY <1>1, <1>2, <1>9, <1>10 DEF items

(* plugins/groundwork_shell.py: for every ground and review, assertions    *)
(* come only of the committed assets on the substrate of their policy, and *)
(* what the plugin raises is never an outage of the grader.                *)
THEOREM ReviewsAreTrusted ==
  ASSUME NEW g, Ground(g)
  PROVE  LET r == Fence!GroundworkGrade(g)
         IN  /\ r.how # "raised" => Reviewed(g, r.value)
             /\ r.how = "raised" => r.error # "unavailable"
<1> DEFINE a == Fence!ReviewArtifact(g)
           graph == Fence!RegenerateBranchGraph(g, Fence!PolicySubstrate(g))
           review == Fence!RunReview(g, Fence!PolicySubstrate(g))
<1>1. CASE ~Fence!ResolveAssets(g) \/ Fence!PolicySubstrate(g) = Null
  <2>1. a = Fence!Raised("unavailable_tool")
    BY <1>1 DEF Fence!ReviewArtifact
  <2>. QED  BY <2>1, Runs DEF Fence!GroundworkGrade
<1>2. CASE Fence!ResolveAssets(g) /\ Fence!PolicySubstrate(g) # Null
  <2>1. \/ graph = Fence!Raised("unavailable_tool") \/ graph = Fence!Raised("shell")
        \/ graph.how # "raised" /\ g.flowmap.bin = "found" /\ g.flowmap.exit = "0"
    BY Runs DEF Fence!RegenerateBranchGraph, Fence!ResolveBinary
  <2>2. \/ review = Fence!Raised("unavailable_tool") \/ review = Fence!Raised("shell")
        \/ review
             = Fence!Ran([verdict |-> g.review[g.substrate], violations |-> g.violations,
               cautions |-> g.cautions])
    BY DEF Fence!RunReview, Fence!PolicySubstrate
  <2>3. a = IF graph.how = "raised" THEN graph
           ELSE IF review.how = "raised" THEN review
           ELSE Fence!Ran([artifact |-> review.value, toolchain |-> Fence!CaptureToolchain(g)])
    BY <1>2 DEF Fence!ReviewArtifact
  <2>. HIDE DEF a, graph, review
  <2>4. CASE a.how = "raised"
    <3>1. Fence!GroundworkGrade(g) = a
      BY <2>4 DEF Fence!GroundworkGrade, a
    <3>2. a = Fence!Raised("unavailable_tool") \/ a = Fence!Raised("shell")
      BY <2>1, <2>2, <2>3, <2>4, Runs
    <3>. QED  BY <2>4, <3>1, <3>2, Runs
  <2>5. CASE a.how # "raised"
    <3>1. /\ graph.how # "raised" /\ review.how # "raised"
          /\ a = Fence!Ran([artifact |-> review.value, toolchain |-> Fence!CaptureToolchain(g)])
      BY <2>3, <2>5, Runs
    <3> DEFINE f == review.value
    <3>2. f.verdict = g.review[g.substrate] /\ f.violations = g.violations /\ f.cautions = g.cautions
      BY <2>2, <3>1, Runs
    <3>3. a.value.artifact = f
      BY <3>1, Runs
    <3>. HIDE DEF f
    <3>4. Fence!GroundworkGrade(g) = Fence!Ran(Fence!MapReview(f))
      BY <2>5, <3>3 DEF Fence!GroundworkGrade, a
    <3>5. g.assets = "committed" /\ g.substrate # Null
      BY <1>2 DEF Fence!ResolveAssets, Fence!PolicySubstrate
    <3>6. g.flowmap = [bin |-> "found", exit |-> "0"]
      BY <2>1, <3>1, Runs DEF Ground, Fence!Tools
    <3>7. /\ Fence!Contains(Fence!MapReview(f), "pass") <=> f.verdict = "STRUCTURALLY-CLEAR"
          /\ Fence!Contains(Fence!MapReview(f), "fail") <=> f.verdict = "BLOCK" \/ f.violations > 0
      BY <3>2, <3>5, ReviewMapped DEF Ground
    <3>8. Reviewed(g, Fence!MapReview(f))
      BY <3>2, <3>5, <3>6, <3>7 DEF Reviewed
    <3>. QED  BY <3>4, <3>8, Runs
  <2>. QED  BY <2>4, <2>5
<1>. QED  BY <1>1, <1>2

(* A trial that `local` grades: results that lie in the workspace, and the *)
(* plugin on the trusted assets.                                           *)
LocalTrial(t) ==
  /\ Submitted(t) /\ t.grader = "local"
  /\ t.results # Null => \/ t.results.kind = "unreadable" /\ t.results.error \in Fence!Escaping
                         \/ t.results.kind = "json" /\ Own(t.results.items)
  /\ t.plugin \in {Null, "unregistered", "groundwork"}
  /\ t.plugin # Null /\ t.plugin = "groundwork" => Ground(t.ground)

(* The halves of such a trial, and what they come to.                      *)
LocalRuns(t, run) ==
  \/ run = Fence!Raised("results_missing") /\ t.results = Null
  \/ run = Fence!Raised(t.results.error) /\ t.results # Null /\ t.results.kind = "unreadable"
  \/ run = Fence!Ran(t.results) /\ t.results # Null /\ t.results.kind # "unreadable"

LEMMA LocalEnds ==
  ASSUME NEW t, LocalTrial(t), NEW run, NEW extra, run = Fence!RunHoldouts(t),
           extra = Fence!RunPlugins(t)
  PROVE  /\ Halves(t, run, extra)
         /\ LocalRuns(t, run)
         /\ extra.how # "raised" => extra.value = <<>> \/ Reviewed(t.ground, extra.value)
         /\ extra.how = "raised" => extra.error # "unavailable"
<1>1. run = Fence!LocalRun(t)
  BY DEF LocalTrial, Fence!RunHoldouts
<1>2. LocalRuns(t, run)
  <2>1. CASE t.results = Null
    BY <1>1, <2>1 DEF Fence!LocalRun, LocalRuns
  <2>2. CASE t.results # Null /\ t.results.kind = "unreadable"
    BY <1>1, <2>2 DEF Fence!LocalRun, LocalRuns
  <2>3. CASE t.results # Null /\ t.results.kind # "unreadable"
    BY <1>1, <2>3 DEF Fence!LocalRun, LocalRuns
  <2>. QED  BY <2>1, <2>2, <2>3
<1>3. Halves(t, run, extra)
  BY <1>2, Runs DEF Halves, LocalTrial, LocalRuns, Submitted
<1>4. CASE t.plugin = Null
  <2>1. extra = Fence!Ran(<<>>)
    BY <1>4 DEF Fence!RunPlugins
  <2>. QED  BY <1>2, <1>3, <2>1, Runs
<1>5. CASE t.plugin # Null /\ t.plugin = "unregistered"
  <2>1. extra = Fence!Raised("plugin")
    BY <1>5 DEF Fence!RunPlugins, LocalTrial
  <2>. QED  BY <1>2, <1>3, <2>1, Runs
<1>6. CASE t.plugin # Null /\ t.plugin = "groundwork"
  <2>1. extra = Fence!GroundworkGrade(t.ground)
    BY <1>6 DEF Fence!RunPlugins, LocalTrial
  <2>2. Ground(t.ground)
    BY <1>6 DEF LocalTrial
  <2>3. /\ extra.how # "raised" => Reviewed(t.ground, extra.value)
        /\ extra.how = "raised" => extra.error # "unavailable"
    BY <2>1, <2>2, ReviewsAreTrusted
  <2>. QED  BY <1>2, <1>3, <2>3
<1>. QED  BY <1>4, <1>5, <1>6 DEF LocalTrial

(* So it owes the same as the others.                                      *)
LEMMA LocalTrialsAreSound ==
  ASSUME NEW t, LocalTrial(t), Null \notin Fence!TRANSIENT_CANT_GRADE
  PROVE  Fence!GradeIsGenuine(t) /\ Fence!RetryIffNotRun(t)
<1> DEFINE run == Fence!RunHoldouts(t)
           extra == Fence!RunPlugins(t)
           g == Fence!GradeTrial(t)
<1>1. /\ Halves(t, run, extra)
      /\ LocalRuns(t, run)
      /\ extra.how # "raised" => extra.value = <<>> \/ Reviewed(t.ground, extra.value)
      /\ extra.how = "raised" => extra.error # "unavailable"
  BY LocalEnds
<1>. HIDE DEF run, extra
<1>2. /\ g.event = "grade" =>
             /\ t.workspace /\ t.hash = "ok" /\ run.how # "raised" /\ extra.how # "raised"
             /\ g.grader = t.grader /\ g.holdout = run.value.items /\ g.plugins = extra.value
             /\ g.binary <=> Fence!BinaryScore(run.value.items)
      /\ g.reason \in Fence!TRANSIENT_CANT_GRADE =>
             \/ run.how = "raised" /\ run.error = "unavailable"
             \/ extra.how = "raised" /\ extra.error = "unavailable"
  BY <1>1, TrialGraded DEF LocalTrial, Submitted
<1>3. g.event = "none" <=>
        /\ t.workspace
        /\ \/ Fence!HoldoutsEscape(t)
           \/ t.hash # "ok" /\ Fence!GradeTrial([t EXCEPT !.hash = "ok"]).event = "grade"
  <2>1. Fence!HoldoutsEscape(t) <=> t.results # Null /\ t.results.kind = "unreadable"
    BY DEF Fence!HoldoutsEscape, LocalTrial
  <2>2. Fence!HoldoutsEscape(t) \in BOOLEAN
    BY DEF Fence!HoldoutsEscape
  <2>3. "results_missing" \notin Fence!Escaping
    BY DEF Fence!Escaping
  <2>4. Fence!HoldoutsEscape(t) <=> run.how = "raised" /\ run.error \in Fence!Escaping
    BY <1>1, <2>1, <2>3, Runs DEF LocalRuns, LocalTrial
  <2>. QED  BY <1>1, <2>2, <2>4, PassEnds DEF LocalTrial
<1>. HIDE DEF g
<1>4. Fence!RetryIffNotRun(t)
  <2>1. g.reason \notin Fence!TRANSIENT_CANT_GRADE
    <3>1. ~(run.how = "raised" /\ run.error = "unavailable")
      BY <1>1, Runs DEF LocalRuns, LocalTrial, Fence!Escaping
    <3>. QED  BY <1>1, <1>2, <3>1
  <2>. QED  BY <1>3, <2>1, Zenon DEF Fence!RetryIffNotRun, g, LocalTrial
<1>5. ASSUME g.event = "grade"
      PROVE  /\ t.workspace /\ t.hash = "ok" /\ g.grader = "local"
             /\ g.binary => /\ Fence!Count(g.holdout, "pass") >= 1
                            /\ Fence!Count(g.holdout, "fail") + Fence!Count(g.holdout, "abstain") = 0
             /\ g.plugins # <<>> => Reviewed(t.ground, g.plugins)
  <2>1. t.results # Null /\ t.results.kind # "unreadable" /\ run.value = t.results
    BY <1>1, <1>2, <1>5, Runs DEF LocalRuns
  <2>2. Own(g.holdout)
    BY <1>2, <1>5, <2>1 DEF LocalTrial
  <2>3. g.binary => Fence!BinaryScore(g.holdout)
    BY <1>2, <1>5, Zenon
  <2>4. Fence!BinaryScore(g.holdout) => Fence!Count(g.holdout, "pass") >= 1
          /\ Fence!Count(g.holdout, "fail") + Fence!Count(g.holdout, "abstain") = 0
    BY <2>2, PassCounts
  <2>5. g.grader = "local" /\ (g.plugins # <<>> => Reviewed(t.ground, g.plugins))
    BY <1>1, <1>2, <1>5 DEF LocalTrial
  <2>. QED  BY <1>2, <1>5, <2>3, <2>4, <2>5, Zenon
<1>6. "local" # "docker" /\ "local" # "local-exec"
  OBVIOUS
<1>7. Fence!GradeIsGenuine(t)
  BY <1>5, <1>6, Zenon DEF Fence!GradeIsGenuine, Reviewed, g
<1>. QED  BY <1>4, <1>7

(* A trial that `local-exec` grades: a declaration and its command.        *)
ExecTrial(t) == Submitted(t) /\ t.grader = "local-exec" /\ t.dir \in Fence!Dirs /\ t.plugin = Null

(* Its halves, and what they come to.                                      *)
ExecRuns(d, run) ==
  \/ run = Fence!Raised("ValidationError") /\ d.file = "invalid"
  \/ run = Fence!Raised("OSError") /\ d.file = "command" /\ ~d.binary
  \/ run = Fence!Raised("UnicodeDecodeError") /\ Fence!Executes(d) /\ d.exit = "bytes"
  \/ run = Fence!Raised("container") /\ d.file \in {"absent", "opaque"}
  \/ /\ run = Fence!Ran(Fence!Doc(TRUE, <<"fail">>))
     /\ \/ Fence!Executes(d) /\ d.exit # "bytes"
        \/ d.file = "pytest" /\ ~d.test
  \/ run = Fence!Ran(Fence!Doc(TRUE, <<"pass">>)) /\ Fence!Executes(d) /\ d.exit # "bytes"

(* Read case by case.                                                      *)
LEMMA RunsRead ==
  ASSUME NEW d, NEW run, ExecRuns(d, run)
  PROVE  \/ run.how = "raised" /\ run.error = "ValidationError" /\ d.file = "invalid"
         \/ run.how = "raised" /\ run.error = "OSError" /\ d.file = "command" /\ ~d.binary
         \/ run.how = "raised" /\ run.error = "UnicodeDecodeError" /\ Fence!Executes(d) /\ d.exit = "bytes"
         \/ run.how = "raised" /\ run.error = "container" /\ d.file \in {"absent", "opaque"}
         \/ /\ run = Fence!Ran(Fence!Doc(TRUE, <<"fail">>)) /\ run.how = "ran"
            /\ \/ Fence!Executes(d) /\ d.exit # "bytes"
               \/ d.file = "pytest" /\ ~d.test
         \/ /\ run = Fence!Ran(Fence!Doc(TRUE, <<"pass">>)) /\ run.how = "ran"
            /\ Fence!Executes(d) /\ d.exit # "bytes"
<1>1. \A v : Fence!Ran(v).how = "ran" /\ Fence!Raised(v).how = "raised" /\ Fence!Raised(v).error = v
  BY Runs
<1>. QED  BY <1>1 DEF ExecRuns

(* How a declared holdout ends comes to one of these.                      *)
LEMMA ExecEnds ==
  ASSUME NEW t, ExecTrial(t), Null \notin Fence!Dirs, NEW run, NEW extra, run = Fence!RunHoldouts(t),
           extra = Fence!RunPlugins(t)
  PROVE  /\ Halves(t, run, extra) /\ extra = Fence!Ran(<<>>)
         /\ ExecRuns(t.dir, run)
<1>0. /\ t.dir.file \in {"absent", "opaque", "invalid", "assertion", "pytest", "command"}
      /\ t.dir.exit \in {"0", "1", "timeout", "bytes"} /\ t.dir.test \in BOOLEAN /\ t.dir.binary \in BOOLEAN
  BY DEF ExecTrial, Fence!Dirs
<1>1. run = Fence!LocalExecRun(t)
  BY DEF ExecTrial, Fence!RunHoldouts
<1>2. extra = Fence!Ran(<<>>)
  BY DEF ExecTrial, Fence!RunPlugins
<1>3. ASSUME NEW x
      PROVE  Fence!GradeArgv(x) = IF x = "OSError" THEN Fence!Raised("OSError")
                                  ELSE IF x = "bytes" THEN Fence!Raised("UnicodeDecodeError")
                                  ELSE IF x = "0" THEN Fence!Ran(Fence!Doc(TRUE, <<"pass">>))
                                  ELSE Fence!Ran(Fence!Doc(TRUE, <<"fail">>))
  BY DEF Fence!GradeArgv
<1>9. ExecRuns(t.dir, run) => Halves(t, run, extra)
  <2>1. ExecRuns(t.dir, run) => (run.how = "raised" => run.error \in Fence!Escaping \cup {"container"})
    BY Runs DEF ExecRuns, Fence!Escaping
  <2>. QED  BY <2>1 DEF Halves, ExecTrial, Submitted
<1>4. CASE t.dir.file \in {"absent", "opaque"}
  <2>1. Fence!LoadDeclaredHoldout(t.dir) = Fence!Ran(Null)
    BY <1>4 DEF Fence!LoadDeclaredHoldout
  <2>2. run = Fence!Raised("container")
    BY <1>1, <2>1, Runs DEF Fence!LocalExecRun
  <2>. QED  BY <1>2, <1>4, <1>9, <2>2 DEF ExecRuns
<1>5. CASE t.dir.file = "invalid"
  <2>1. Fence!LoadDeclaredHoldout(t.dir) = Fence!Raised("ValidationError")
    BY <1>5 DEF Fence!LoadDeclaredHoldout
  <2>2. run = Fence!Raised("ValidationError")
    BY <1>1, <2>1, Runs DEF Fence!LocalExecRun
  <2>. QED  BY <1>2, <1>5, <1>9, <2>2 DEF ExecRuns
<1>6. CASE t.dir.file \in {"assertion", "pytest", "command"}
  <2>1. Fence!LoadDeclaredHoldout(t.dir) = Fence!Ran(t.dir)
    BY <1>6 DEF Fence!LoadDeclaredHoldout
  <2>2. run = CASE t.dir.file = "assertion" -> Fence!ExecuteAssertion(t.dir)
                [] t.dir.file = "pytest"    -> Fence!ExecutePytest(t.dir)
                [] t.dir.file = "command"   -> Fence!ExecuteCommand(t.dir)
    <3> DEFINE l == Fence!LoadDeclaredHoldout(t.dir)
    <3>1. l.how # "raised" /\ l.value # Null
      <4>1. l.how = "ran" /\ l.value = t.dir
        BY <2>1, Runs
      <4>. QED  BY <4>1 DEF ExecTrial
    <3>. HIDE DEF l
    <3>2. Fence!LocalExecRun(t) = CASE t.dir.file = "assertion" -> Fence!ExecuteAssertion(t.dir)
                                    [] t.dir.file = "pytest"    -> Fence!ExecutePytest(t.dir)
                                    [] t.dir.file = "command"   -> Fence!ExecuteCommand(t.dir)
      BY <3>1 DEF Fence!LocalExecRun, l
    <3>. QED  BY <1>1, <3>2
  <2>3. CASE t.dir.file = "assertion"
    <3>1. run = Fence!GradeArgv(t.dir.exit)
      BY <2>2, <2>3 DEF Fence!ExecuteAssertion
    <3>2. \/ run = Fence!Raised("UnicodeDecodeError") /\ t.dir.exit = "bytes"
          \/ /\ run \in {Fence!Ran(Fence!Doc(TRUE, <<"pass">>)), Fence!Ran(Fence!Doc(TRUE, <<"fail">>))}
             /\ t.dir.exit # "bytes"
      BY <1>0, <1>3, <3>1
    <3>3. ExecRuns(t.dir, run)
      BY <1>0, <2>3, <3>2 DEF ExecRuns, Fence!Executes
    <3>. QED  BY <1>2, <1>9, <3>3
  <2>4. CASE t.dir.file = "pytest"
    <3>1. run = Fence!GradeArgv(IF t.dir.test THEN t.dir.exit ELSE "4")
      BY <2>2, <2>4 DEF Fence!ExecutePytest
    <3>2. \/ t.dir.test /\ run = Fence!Raised("UnicodeDecodeError") /\ t.dir.exit = "bytes"
          \/ t.dir.test /\ run = Fence!Ran(Fence!Doc(TRUE, <<"pass">>)) /\ t.dir.exit # "bytes"
          \/ run = Fence!Ran(Fence!Doc(TRUE, <<"fail">>)) /\ (t.dir.test => t.dir.exit # "bytes")
      BY <1>0, <1>3, <3>1
    <3>3. ExecRuns(t.dir, run)
      BY <1>0, <2>4, <3>2 DEF ExecRuns, Fence!Executes
    <3>. QED  BY <1>2, <1>9, <3>3
  <2>5. CASE t.dir.file = "command"
    <3>1. run = Fence!GradeArgv(IF t.dir.binary THEN t.dir.exit ELSE "OSError")
      BY <2>2, <2>5 DEF Fence!ExecuteCommand
    <3>2. \/ t.dir.binary /\ run = Fence!Raised("UnicodeDecodeError") /\ t.dir.exit = "bytes"
          \/ /\ t.dir.binary /\ t.dir.exit # "bytes"
             /\ run \in {Fence!Ran(Fence!Doc(TRUE, <<"pass">>)), Fence!Ran(Fence!Doc(TRUE, <<"fail">>))}
          \/ ~t.dir.binary /\ run = Fence!Raised("OSError")
      BY <1>0, <1>3, <3>1
    <3>3. ExecRuns(t.dir, run)
      BY <1>0, <2>5, <3>2 DEF ExecRuns, Fence!Executes
    <3>. QED  BY <1>2, <1>9, <3>3
  <2>. QED  BY <1>6, <2>3, <2>4, <2>5
<1>. QED  BY <1>0, <1>4, <1>5, <1>6

(* So it owes the same as the others.                                      *)
LEMMA ExecTrialsAreSound ==
  ASSUME NEW t, ExecTrial(t), Null \notin Fence!Dirs, Null \notin Fence!TRANSIENT_CANT_GRADE
  PROVE  Fence!GradeIsGenuine(t) /\ Fence!RetryIffNotRun(t)
<1> DEFINE run == Fence!RunHoldouts(t)
           extra == Fence!RunPlugins(t)
           g == Fence!GradeTrial(t)
           P == Fence!Doc(TRUE, <<"pass">>)
           F == Fence!Doc(TRUE, <<"fail">>)
<1>1. /\ Halves(t, run, extra) /\ extra = Fence!Ran(<<>>)
      /\ ExecRuns(t.dir, run)
  BY ExecEnds
<1>2. P.items = <<"pass">> /\ F.items = <<"fail">>
  BY DEF Fence!Doc
<1>3. Own(<<"pass">>) /\ Own(<<"fail">>) /\ ~Fence!BinaryScore(<<"fail">>)
  <2>1. <<"pass">> \in Seq({"pass"}) /\ <<"fail">> \in Seq({"fail"})
    OBVIOUS
  <2>2. Own(<<"pass">>) /\ Own(<<"fail">>)
    BY <2>1, OwnElements DEF Own
  <2>. QED  BY <2>2 DEF Fence!BinaryScore
<1>. HIDE DEF run, extra, P, F
<1>4. /\ g.event = "grade" =>
             /\ t.workspace /\ t.hash = "ok" /\ run.how # "raised" /\ g.grader = t.grader /\ g.holdout = run.value.items
                  /\ g.plugins = extra.value
             /\ g.binary <=> Fence!BinaryScore(run.value.items)
      /\ g.reason \in Fence!TRANSIENT_CANT_GRADE =>
             \/ run.how = "raised" /\ run.error = "unavailable"
             \/ extra.how = "raised" /\ extra.error = "unavailable"
  BY <1>1, TrialGraded DEF ExecTrial, Submitted
<1>5. g.event = "none" <=>
        /\ t.workspace
        /\ \/ Fence!HoldoutsEscape(t)
           \/ t.hash # "ok" /\ Fence!GradeTrial([t EXCEPT !.hash = "ok"]).event = "grade"
  <2>1. Fence!HoldoutsEscape(t) <=>
          \/ t.dir.file = "invalid"
          \/ t.dir.file = "command" /\ ~t.dir.binary
          \/ Fence!Executes(t.dir) /\ t.dir.exit = "bytes"
    BY DEF Fence!HoldoutsEscape, ExecTrial
  <2>2. Fence!HoldoutsEscape(t) \in BOOLEAN
    BY DEF Fence!HoldoutsEscape
  <2>3. Fence!HoldoutsEscape(t) <=> run.how = "raised" /\ run.error \in Fence!Escaping
    BY <1>1, <2>1, RunsRead DEF Fence!Executes, Fence!Escaping
  <2>. QED  BY <1>1, <2>2, <2>3, PassEnds DEF ExecTrial
<1>. HIDE DEF g
<1>6. g.reason \notin Fence!TRANSIENT_CANT_GRADE
  BY <1>1, <1>4, RunsRead, Runs
<1>7. "local-exec" # "docker"
  OBVIOUS
<1>8. Fence!RetryIffNotRun(t)
  BY <1>5, <1>6, <1>7, Zenon DEF Fence!RetryIffNotRun, g, ExecTrial
<1>9. ASSUME g.event = "grade"
      PROVE  /\ t.workspace /\ t.hash = "ok" /\ g.grader = "local-exec" /\ g.plugins = <<>>
             /\ g.binary => /\ Fence!Count(g.holdout, "pass") >= 1
                            /\ Fence!Count(g.holdout, "fail") + Fence!Count(g.holdout, "abstain") = 0
             /\ g.binary /\ t.dir.file = "pytest" => t.dir.test
  <2>1. run = Fence!Ran(F) \/ (run = Fence!Ran(P) /\ (t.dir.file = "pytest" => t.dir.test))
    <3>1. run.how # "raised"
      BY <1>4, <1>9
    <3>. QED  BY <1>1, <3>1, RunsRead DEF Fence!Executes, P, F
  <2>2. g.holdout = <<"fail">> \/ (g.holdout = <<"pass">> /\ (t.dir.file = "pytest" => t.dir.test))
    BY <1>2, <1>4, <1>9, <2>1, Runs
  <2>3. g.binary => Fence!BinaryScore(g.holdout)
    BY <1>4, <1>9, Zenon
  <2>4. Own(g.holdout)
    BY <1>3, <2>2
  <2>5. Fence!BinaryScore(g.holdout) => Fence!Count(g.holdout, "pass") >= 1
          /\ Fence!Count(g.holdout, "fail") + Fence!Count(g.holdout, "abstain") = 0
    BY <2>4, PassCounts
  <2>6. Fence!BinaryScore(g.holdout) => (t.dir.file = "pytest" => t.dir.test)
    BY <1>3, <2>2
  <2>7. g.grader = "local-exec" /\ g.plugins = <<>>
    BY <1>1, <1>4, <1>9, Runs DEF ExecTrial
  <2>. QED  BY <1>4, <1>9, <2>3, <2>5, <2>6, <2>7, Zenon
<1>10. Fence!GradeIsGenuine(t)
  BY <1>7, <1>9, Zenon DEF Fence!GradeIsGenuine, g
<1>. QED  BY <1>8, <1>10

(* Runs of a baseline, any number of them.                                 *)
BaselineRuns(runs) ==
  /\ Own(runs)
  /\ \A i \in DOMAIN runs : \/ \E doc : runs[i] = Fence!Ran(doc) /\ Own(doc.items)
                            \/ \E error : runs[i] = Fence!Raised(error)

(* baseline.py, GR-8, GR-10: for any number of runs, clean is of runs that *)
(* all passed, and neither an outage nor a missing command decides         *)
(* anything.                                                               *)
THEOREM BaselinesAreSound ==
  ASSUME NEW runs, BaselineRuns(runs)
  PROVE  Fence!BaselineSound(runs)
<1> DEFINE Bad(r)  == r.how = "raised" \/ ~Fence!ParseHoldoutOutput(r.value)
             \/ ~Fence!BinaryScore(r.value.items)
           Aborts(r) == r.how = "raised" /\ r.error \in {"unavailable", "OSError"}
           v == Fence!FlakeBaseline(runs)
<1>1. v = IF runs = <<>> THEN "ValueError"
          ELSE IF \E i \in DOMAIN runs : Aborts(runs[i]) THEN "inconclusive"
          ELSE IF \E i \in DOMAIN runs : Bad(runs[i]) THEN "quarantined" ELSE "clean"
  BY DEF Fence!FlakeBaseline
<1>2. v = "clean" => runs # <<>> /\ \A i \in DOMAIN runs : ~Bad(runs[i])
  BY <1>1
<1>3. v = "quarantined" => \A i \in DOMAIN runs : ~Aborts(runs[i])
  BY <1>1
<1>. HIDE DEF v
<1>4. ASSUME v = "clean"
      PROVE  Len(runs) >= 1
  BY <1>2, <1>4 DEF BaselineRuns, Own
<1>5. ASSUME v = "clean", NEW i \in DOMAIN runs
      PROVE  runs[i].how = "ran" /\ "pass" \in Fence!ToSet(runs[i].value.items)
               /\ Fence!ToSet(runs[i].value.items) = {"pass"}
  <2>1. runs[i].how # "raised" /\ Fence!BinaryScore(runs[i].value.items)
    BY <1>2, <1>5
  <2>2. PICK doc : runs[i] = Fence!Ran(doc) /\ Own(doc.items)
    BY <2>1, Runs DEF BaselineRuns
  <2>3. runs[i].how = "ran" /\ runs[i].value.items = doc.items
    BY <2>2, Runs
  <2>4. Fence!BinaryScore(doc.items)
    BY <2>1, <2>3
  <2>5. 1 \in DOMAIN doc.items /\ \A k \in DOMAIN doc.items : doc.items[k] = "pass"
    BY <2>2, <2>4 DEF Fence!BinaryScore, Own
  <2>6. Fence!ToSet(doc.items) = {"pass"}
    BY <2>5 DEF Fence!ToSet
  <2>. QED  BY <2>3, <2>6
<1>6. ASSUME v = "quarantined", NEW i \in DOMAIN runs
      PROVE  runs[i] \notin {Fence!Raised("unavailable"), Fence!Raised("OSError")}
  BY <1>3, <1>6, Runs
<1>. QED  BY <1>4, <1>5, <1>6 DEF Fence!BaselineSound, v

(* baseline.py, load_quarantine: for any number of baselines, a version is *)
(* quarantined by its own last one.                                        *)
THEOREM QuarantinesAreLatest ==
  ASSUME NEW events, Own(events)
  PROVE  Fence!QuarantineSound(events)
<1> SUFFICES ASSUME NEW i \in DOMAIN events,
                    \A j \in (i + 1)..Len(events) : events[j].version # events[i].version
             PROVE  events[i].version \in Fence!LoadQuarantine(events)
                      <=> events[i].verdict = "quarantined"
  BY DEF Fence!QuarantineSound
<1> DEFINE S == {k \in DOMAIN events : events[k].version = events[i].version}
<1>1. Len(events) \in Nat /\ DOMAIN events = 1..Len(events)
  BY DEF Own
<1>2. S \in SUBSET (1..Len(events)) /\ S # {} /\ i \in S /\ \A k \in S : k <= i
  BY <1>1
<1>3. Greatest(S) \in S /\ \A y \in S : Greatest(S) >= y
  BY <1>1, <1>2, GreatestOfSome
<1>4. Fence!Max(S) = Greatest(S)
  BY DEF Fence!Max, Greatest
<1>5. Fence!Max(S) = i
  <2>1. Greatest(S) <= i /\ Greatest(S) >= i /\ Greatest(S) \in 1..Len(events)
    BY <1>2, <1>3
  <2>. QED  BY <1>1, <1>4, <2>1
<1>6. Fence!LoadQuarantine(events) = {v \in {events[k].version : k \in DOMAIN events} :
                                  events[Fence!Max({k \in DOMAIN events : events[k].version
                                    = v})].verdict = "quarantined"}
  BY DEF Fence!LoadQuarantine
<1>. QED  BY <1>5, <1>6

-----------------------------------------------------------------------------

(* The cases of GradeFence are such boxes, grounds and trials.             *)
LEMMA DocsAreDocs ==
  ASSUME NEW d \in Fence!Docs
  PROVE  d.kind = "json" /\ Own(d.items)
<1>1. ASSUME NEW list, NEW s, Own(s), d = Fence!Doc(list, s)
      PROVE  d.kind = "json" /\ Own(d.items)
  BY <1>1 DEF Fence!Doc
<1>2. d = Fence!Doc(FALSE, <<>>)
      \/ \E s \in {<<>>, <<"pass">>, <<"fail">>, <<"pass", "abstain">>, <<"pass", "fail">>,
           <<"bad">>} : d = Fence!Doc(TRUE, s)
  BY DEF Fence!Docs, Fence!Malformed
<1>3. \A s \in {<<>>, <<"pass">>, <<"fail">>, <<"pass", "abstain">>, <<"pass", "fail">>, <<"bad">>} :
        s \in Seq({"pass", "fail", "abstain", "bad"})
  <2>1. /\ <<>> \in Seq({"pass", "fail", "abstain", "bad"})
             /\ <<"pass">> \in Seq({"pass", "fail", "abstain", "bad"})
        /\ <<"fail">> \in Seq({"pass", "fail", "abstain", "bad"})
             /\ <<"bad">> \in Seq({"pass", "fail", "abstain", "bad"})
        /\ <<"pass", "abstain">> \in Seq({"pass", "fail", "abstain", "bad"})
        /\ <<"pass", "fail">> \in Seq({"pass", "fail", "abstain", "bad"})
    OBVIOUS
  <2>. QED  BY <2>1, Zenon
<1>4. \A s \in {<<>>, <<"pass">>, <<"fail">>, <<"pass", "abstain">>, <<"pass", "fail">>,
        <<"bad">>} : Own(s)
  BY <1>3, OwnElements DEF Own
<1>. QED  BY <1>1, <1>2, <1>4

(* Boxes with guessed markers.                                             *)
LEMMA BoxesAreBoxes ==
  ASSUME NEW tag, NEW b \in Fence!Boxes(tag)
  PROVE  Box(b, tag) /\ Own(b.genuine.items)
<1>1. \A out \in Fence!AgentOutputs : Unforged(out)
  BY AgentsGuess
<1>2. <<>> \in Fence!AgentOutputs
  BY DEF Fence!AgentOutputs
<1>3. \A d \in Fence!Docs : d.kind = "json" /\ Own(d.items)
  BY DocsAreDocs
<1>4. /\ b.tag = tag /\ b.before \in Fence!AgentOutputs /\ b.after \in Fence!AgentOutputs
           /\ b.genuine \in Fence!Docs
      /\ b.printed \in {"never", "once", "twice"} /\ b.noisy \in BOOLEAN /\ b.copy \in {"ok", "OSError"}
      /\ b.decodes \in BOOLEAN
  BY <1>2 DEF Fence!Boxes
<1>. QED  BY <1>1, <1>3, <1>4 DEF Box

(* A box whose holdouts are read and pass.                                 *)
LEMMA CleanBoxesPass ==
  ASSUME NEW b \in Fence!CleanBoxes("holdout")
  PROVE  Fence!ParseFencedStdout(Fence!RunContainer(b)) = Fence!Ran(Fence!PassDoc)
           /\ Fence!ParseHoldoutOutput(Fence!PassDoc)
<1>1. /\ b \in Fence!Boxes("holdout") /\ b.exit = "0" /\ b.printed = "once" /\ ~b.noisy
           /\ b.genuine = Fence!PassDoc
  BY DEF Fence!CleanBoxes
<1>2. Box(b, "holdout")
  BY <1>1, BoxesAreBoxes
<1>3. b.copy = "ok" /\ b.decodes
  BY DEF Fence!CleanBoxes
<1>4. Fence!RunContainer(b) = Fence!Ran(Fence!Stdout(b))
  BY <1>1, <1>3 DEF Fence!RunContainer, Fence!FreshWorkspaceCopy, Fence!RunGradingContainer
<1> DEFINE x == Fence!ExtractFence(Fence!Stdout(b), Fence!FencePair("holdout", "ours"))
<1>5. x.status = "ok" /\ x.body = <<Fence!PassDoc>>
  BY <1>1, <1>2, StdoutReads DEF Reads
<1>6. Fence!IsJson(x.body) /\ x.body[1] = Fence!PassDoc
  BY <1>1, <1>2, <1>5, TupleParts DEF Fence!IsJson, Box
<1>. HIDE DEF x
<1>7. Fence!ParseFencedStdout(Fence!Ran(Fence!Stdout(b))) = Fence!Ran(Fence!PassDoc)
  BY <1>5, <1>6, Runs DEF Fence!ParseFencedStdout, x
<1>8. Fence!ParseHoldoutOutput(Fence!PassDoc)
  <2>1. Fence!PassDoc.list /\ Fence!PassDoc.items = <<"pass">>
    BY DEF Fence!PassDoc, Fence!Doc
  <2>2. ~Fence!Contains(<<"pass">>, "bad")
    BY TupleParts DEF Fence!Contains
  <2>. QED  BY <2>1, <2>2 DEF Fence!ParseHoldoutOutput
<1>. QED  BY <1>4, <1>7, <1>8

(* Grounds with one of the verdicts.                                       *)
LEMMA GroundsAreGrounds ==
  ASSUME NEW g \in Fence!GroundsTools \cup Fence!GroundsAssets \cup Fence!GroundsReviews
  PROVE  Ground(g)
<1>1. Fence!Works \in Fence!Tools
  BY DEF Fence!Works, Fence!Tools
<1>2. Fence!Reviews.vta \in Fence!Verdicts /\ Fence!Reviews.rta \in Fence!Verdicts
        /\ Fence!Reviews["vta"] \in Fence!Verdicts /\ Fence!Reviews["rta"] \in Fence!Verdicts
  BY DEF Fence!Reviews, Fence!Verdicts
<1>3. CASE g \in Fence!GroundsTools
  <2>1. /\ g.violations = 0 /\ g.cautions = 0 /\ g.flowmap \in Fence!Tools
             /\ g.groundwork \in Fence!Tools
        /\ g.assets = "committed" /\ g.substrate = "vta" /\ g.review = Fence!Reviews
    BY <1>3 DEF Fence!GroundsTools
  <2>. QED  BY <1>2, <2>1 DEF Ground
<1>4. CASE g \in Fence!GroundsAssets
  <2>1. /\ g.violations = 0 /\ g.cautions = 0 /\ g.flowmap = Fence!Works /\ g.groundwork = Fence!Works
        /\ g.assets \in {"committed", "workspace_only"} /\ g.substrate \in {"vta", "rta", Null}
             /\ g.review = Fence!Reviews
    BY <1>4 DEF Fence!GroundsAssets
  <2>. QED  BY <1>1, <1>2, <2>1 DEF Ground
<1>5. CASE g \in Fence!GroundsReviews
  <2>1. /\ g.violations \in 0..1 /\ g.cautions \in 0..1 /\ g.flowmap = Fence!Works
             /\ g.groundwork = Fence!Works
        /\ g.assets = "committed" /\ g.substrate = "vta"
             /\ g.review \in [vta : Fence!Verdicts, rta : Fence!Verdicts]
    BY <1>5 DEF Fence!GroundsReviews
  <2>2. g.review[g.substrate] \in Fence!Verdicts
    BY <2>1
  <2>. QED  BY <1>1, <2>1, <2>2 DEF Ground
<1>. QED  BY <1>3, <1>4, <1>5

(* Trials of one of the three tiers.                                       *)
LEMMA CasesAreTrials ==
  ASSUME NEW t \in Fence!GradeCases
  PROVE  \/ /\ DockerTrial(t)
            /\ t.plugin # Null => Fence!RunHoldouts(t).how # "raised"
                 /\ Fence!ParseHoldoutOutput(Fence!RunHoldouts(t).value)
         \/ LocalTrial(t) \/ ExecTrial(t)
<1> DEFINE plain == {d \in Fence!Dirs : d.file = "absent" /\ d.exit = "0" /\ d.test /\ d.binary}
           grounds == Fence!GroundsTools \cup Fence!GroundsAssets \cup Fence!GroundsReviews
<1>0. \/ t \in Fence!Attempts("docker", Fence!Boxes("holdout"), {Null}, plain, {Null}, {Null}, {Null})
      \/ t \in Fence!Attempts("docker", Fence!CleanBoxes("holdout"), {Null}, plain, {"groundwork"},
           {Null}, Fence!Boxes("plugin"))
      \/ t \in Fence!Attempts("local", {Null}, Fence!Docs \cup {Null} \cup Fence!Unread, plain, {Null}, {Null}, {Null})
      \/ t \in Fence!Attempts("local-exec", {Null}, {Null}, Fence!Dirs, {Null}, {Null}, {Null})
      \/ t \in Fence!Attempts("local", {Null}, {Fence!PassDoc, Fence!Doc(TRUE, <<>>)}, plain,
           {"unregistered", "groundwork"}, grounds, {Null})
  BY DEF Fence!GradeCases
<1>. HIDE DEF plain, grounds
<1>1. CASE t \in Fence!Attempts("docker", Fence!Boxes("holdout"), {Null}, plain, {Null}, {Null}, {Null})
  <2>1. Submitted(t) /\ t.grader = "docker" /\ t.box \in Fence!Boxes("holdout")
          /\ t.plugin = Null
    BY <1>1 DEF Fence!Attempts, Submitted, Fields
  <2>. QED  BY <2>1, BoxesAreBoxes DEF DockerTrial
<1>2. CASE t \in Fence!Attempts("docker", Fence!CleanBoxes("holdout"), {Null}, plain, {"groundwork"},
             {Null}, Fence!Boxes("plugin"))
  <2>1. /\ Submitted(t) /\ t.grader = "docker" /\ t.box \in Fence!CleanBoxes("holdout")
        /\ t.plugbox \in Fence!Boxes("plugin")
    BY <1>2 DEF Fence!Attempts, Submitted, Fields
  <2>2. t.box \in Fence!Boxes("holdout")
    BY <2>1 DEF Fence!CleanBoxes
  <2>3. DockerTrial(t)
    BY <2>1, <2>2, BoxesAreBoxes DEF DockerTrial
  <2>4. Fence!RunHoldouts(t) = Fence!Ran(Fence!PassDoc) /\ Fence!ParseHoldoutOutput(Fence!PassDoc)
    BY <2>1, <2>3, DockerHalves, CleanBoxesPass
  <2>. QED  BY <2>3, <2>4, Runs
<1>3. CASE t \in Fence!Attempts("local", {Null}, Fence!Docs \cup {Null} \cup Fence!Unread, plain, {Null}, {Null}, {Null})
  <2>1. Submitted(t) /\ t.grader = "local" /\ t.results \in Fence!Docs \cup {Null} \cup Fence!Unread
          /\ t.plugin = Null
    BY <1>3 DEF Fence!Attempts, Submitted, Fields
  <2>2. \A r \in Fence!Unread : r.kind = "unreadable" /\ r.error \in Fence!Escaping
    BY DEF Fence!Unread, Fence!Unreadable, Fence!Escaping
  <2>. QED  BY <2>1, <2>2, DocsAreDocs DEF LocalTrial
<1>4. CASE t \in Fence!Attempts("local-exec", {Null}, {Null}, Fence!Dirs, {Null}, {Null}, {Null})
  BY <1>4 DEF Fence!Attempts, Submitted, Fields, ExecTrial
<1>5. CASE t \in Fence!Attempts("local", {Null}, {Fence!PassDoc, Fence!Doc(TRUE, <<>>)}, plain,
             {"unregistered", "groundwork"}, grounds, {Null})
  <2>1. /\ Submitted(t) /\ t.grader = "local"
             /\ t.results \in {Fence!PassDoc, Fence!Doc(TRUE, <<>>)}
        /\ t.plugin \in {"unregistered", "groundwork"} /\ t.ground \in grounds
    BY <1>5 DEF Fence!Attempts, Submitted, Fields
  <2>2. Fence!PassDoc \in Fence!Docs /\ Fence!Doc(TRUE, <<>>) \in Fence!Docs
    BY DEF Fence!PassDoc, Fence!Docs
  <2>3. t.results.kind = "json" /\ Own(t.results.items)
    BY <2>1, <2>2, DocsAreDocs
  <2>4. Ground(t.ground)
    BY <2>1, GroundsAreGrounds DEF grounds
  <2>. QED  BY <2>1, <2>3, <2>4 DEF LocalTrial
<1>. QED  BY <1>0, <1>1, <1>2, <1>3, <1>4, <1>5

(* And what they owe.                                                      *)
LEMMA FenceCasesAreSound ==
  ASSUME NEW c \in Fence!GradeFenceCases, Null \notin Fence!TRANSIENT_CANT_GRADE, Null \notin Fence!Dirs
  PROVE  Fence!GradeFenceSound(c)
<1>0. \/ c.kind = "trial" /\ c.trial \in Fence!GradeCases
      \/ c.kind = "baseline" /\ c.runs \in Fence!BaselineCases
      \/ c.kind = "quarantine" /\ c.events \in Fence!QuarantineCases
  BY DEF Fence!GradeFenceCases
<1>1. CASE c.kind = "trial" /\ c.trial \in Fence!GradeCases
  <2> DEFINE t == c.trial
  <2>1. \/ /\ DockerTrial(t)
           /\ t.plugin # Null => Fence!RunHoldouts(t).how # "raised"
                /\ Fence!ParseHoldoutOutput(Fence!RunHoldouts(t).value)
        \/ LocalTrial(t) \/ ExecTrial(t)
    BY <1>1, CasesAreTrials
  <2>2. Fence!GradeIsGenuine(t) /\ Fence!RetryIffNotRun(t)
    BY <2>1, DockerGradesAreGenuine, DockerRetries, LocalTrialsAreSound, ExecTrialsAreSound
  <2>. QED  BY <1>1, <2>2 DEF Fence!GradeFenceSound
<1>2. CASE c.kind = "baseline" /\ c.runs \in Fence!BaselineCases
  <2>1. PICK k \in 0..3 : c.runs \in [1..k -> Fence!HoldoutRuns]
    BY <1>2 DEF Fence!BaselineCases
  <2>2. c.runs \in Seq(Fence!HoldoutRuns)
    BY <2>1
  <2>3. Own(c.runs)
    BY <2>2, OwnElements DEF Own
  <2>4. \A d \in Fence!Docs : Own(d.items)
    BY DocsAreDocs
  <2>5. \A r \in Fence!HoldoutRuns : (\E doc : r = Fence!Ran(doc) /\ Own(doc.items))
          \/ \E error : r = Fence!Raised(error)
    BY <2>4 DEF Fence!HoldoutRuns
  <2>6. BaselineRuns(c.runs)
    BY <2>1, <2>3, <2>5 DEF BaselineRuns
  <2>. QED  BY <1>2, <2>6, BaselinesAreSound DEF Fence!GradeFenceSound
<1>3. CASE c.kind = "quarantine" /\ c.events \in Fence!QuarantineCases
  <2> DEFINE E == [version : {"v1", "v2"}, verdict : {"clean", "quarantined"}]
  <2>1. PICK n \in 0..3 : c.events \in [1..n -> E]
    BY <1>3 DEF Fence!QuarantineCases
  <2>. HIDE DEF E
  <2>2. c.events \in Seq(E)
    BY <2>1
  <2>3. Own(c.events)
    BY <2>2, OwnElements DEF Own
  <2>. QED  BY <1>3, <2>3, QuarantinesAreLatest DEF Fence!GradeFenceSound
<1>. QED  BY <1>0, <1>1, <1>2, <1>3

-----------------------------------------------------------------------------
(* Every question is one of the cases of its subject, so that the answers  *)
(* above are the invariants of Evidence.                                   *)

QuestionsAreCases == question # Null => question \in Cases(subject)

(* A question, once asked, is a case of its subject.                       *)
LEMMA QuestionsStayCases == Questions => []QuestionsAreCases
<1>1. Unasked => QuestionsAreCases
  BY DEF Unasked, QuestionsAreCases
<1>2. QuestionsAreCases /\ [Ask]_asking => QuestionsAreCases'
  <2>1. CASE Ask
    <3>1. question' \in Cases(subject) /\ subject' = subject
      BY <2>1 DEF Ask
    <3>2. Cases(subject') = Cases(subject)
      BY <3>1
    <3>. QED  BY <3>1, <3>2 DEF QuestionsAreCases
  <2>2. CASE UNCHANGED asking
    BY <2>2 DEF asking, QuestionsAreCases
  <2>. QED  BY <2>1, <2>2
<1>. QED  BY <1>1, <1>2, PTL DEF Questions

(* Nothing that leaves the blinding code names an arm, and it refuses what *)
(* it cannot clean (blind/core.py, judge/packet.py).                       *)
THEOREM BlindedAnswersAreSound == Questions => []BlindingSound
<1>1. QuestionsAreCases => BlindingSound
  <2> SUFFICES ASSUME QuestionsAreCases, subject = "blinding", question # Null
               PROVE  Blind!BlindSound(question)
    BY DEF BlindingSound, Asked
  <2>1. question \in Blind!BlindCases
    BY DEF QuestionsAreCases, Cases
  <2>. QED  BY <2>1, BlindAnswers
<1>. QED  BY <1>1, QuestionsStayCases, PTL

(* Bytes that lost their commitment are silent, every absence is named,    *)
(* and no measurement is made of what is missing (forensics/,              *)
(* contamination/).                                                        *)
THEOREM EvidenceIsSound == Questions => []EvidenceSound
<1>1. QuestionsAreCases => EvidenceSound
  <2> SUFFICES ASSUME QuestionsAreCases, question # Null
               PROVE  /\ subject = "forensics" => Forensics!ForensicsSound(question)
                      /\ subject = "contamination" => Contamination!ContaminationSound(question)
    BY DEF EvidenceSound, Asked
  <2>1. ASSUME subject = "forensics" PROVE Forensics!ForensicsSound(question)
    <3>1. question \in Forensics!ForensicsCases
      BY <2>1 DEF QuestionsAreCases, Cases
    <3>. QED  BY <3>1, EvidenceAssumption, ForensicsAnswers
  <2>2. ASSUME subject = "contamination" PROVE Contamination!ContaminationSound(question)
    <3>1. question \in Contamination!ContaminationCases
      BY <2>2 DEF QuestionsAreCases, Cases
    <3>2. /\ Ngram \in Nat \ {0} /\ Null \notin Contamination!TasksSeen /\ Null \notin Contamination!Copies
      BY EvidenceAssumption DEF EvidenceAssumption, Contamination!WindowAssumption
    <3>. QED  BY <3>1, <3>2, ContaminationAnswers
  <2>. QED  BY <2>1, <2>2
<1>. QED  BY <1>1, QuestionsStayCases, PTL

(* A holdout's verdict is the fence's and not the tested code's, whatever  *)
(* it prints; a refusal is transient exactly when the grader could not be  *)
(* run; a baseline is decided by runs, not by outages (grade/).            *)
THEOREM GradingIsSound == Questions => []GradingSound
<1>1. QuestionsAreCases => GradingSound
  <2> SUFFICES ASSUME QuestionsAreCases, subject = "grading", question # Null
               PROVE  Fence!GradeFenceSound(question)
    BY DEF GradingSound, Asked
  <2>1. question \in Fence!GradeFenceCases
    BY DEF QuestionsAreCases, Cases
  <2>2. Null \notin Fence!TRANSIENT_CANT_GRADE /\ Null \notin Fence!Dirs
    BY EvidenceAssumption DEF EvidenceAssumption
  <2>. QED  BY <2>1, <2>2, FenceCasesAreSound
<1>. QED  BY <1>1, QuestionsStayCases, PTL
=============================================================================
