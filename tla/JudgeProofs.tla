---------------------------- MODULE JudgeProofs ----------------------------
(***************************************************************************)
(* Proofs about Judge, for any pairs, ceiling, answers and number of       *)
(* deaths: what the sessions that die and resume leave on the ledger.      *)
(***************************************************************************)
EXTENDS Judge, SequenceLemmas

Says == {"1", "2", "TIE", "CANT_JUDGE"}
Asked(cs) ==
  /\ cs \in Seq({cs[k] : k \in DOMAIN cs}) /\ Len(cs) <= Calls
  /\ \A k \in 1..Len(cs) : cs[k].says \in Says

Typed == ledger \in Seq({ledger[k] : k \in DOMAIN ledger})

SessionShape ==
  /\ pass \in KindsJudged \cup {"none"}
  /\ pass = "none" => judging = 0 /\ queue = {}
  /\ judging \notin queue /\ 0 \notin queue
  /\ ready \in [KindsJudged -> SUBSET (Nat \ {0})]
  /\ Asked(calls)

Shape == Typed /\ SessionShape

(* What the session is judging or has yet to judge has no conclusive       *)
(* verdict: it alone appends verdicts, and a comparison leaves the queue   *)
(* before it is judged.                                                    *)
Unjudged ==
  \A k \in 1..Len(ledger) :
    /\ ledger[k].kind = pass
    /\ ledger[k].of \in queue \/ (judging # 0 /\ ledger[k].of = judging)
    => IsTransient(ledger[k])

Unbiased(ev) ==
  (ev.winner \in {"A", "B"} /\ Orders = "both") =>
    ev.said = IF ev.winner = "A" THEN <<"1", "2">> ELSE <<"2", "1">>

Inv == Shape /\ Unjudged /\ OneConclusion /\ \A k \in 1..Len(ledger) : Unbiased(ledger[k])

-----------------------------------------------------------------------------
(* A winner was preferred in both of its positions.                        *)
LEMMA CombineUnbiased ==
  ASSUME NEW cs, Asked(cs), Len(cs) = Calls
  PROVE  Unbiased(Combine(cs))
<1> SUFFICES ASSUME Orders = "both", Combine(cs).winner \in {"A", "B"}
             PROVE  Combine(cs).said = IF Combine(cs).winner = "A" THEN <<"1", "2">> ELSE <<"2", "1">>
  BY DEF Unbiased
<1> DEFINE winners == {MapCall(cs, order) : order \in DOMAIN cs}
<1>1. Len(cs) = 2 /\ DOMAIN cs = 1..2 /\ cs[1].says \in Says /\ cs[2].says \in Says
  BY DEF Calls, Asked
<1>2. winners = {MapCall(cs, 1), MapCall(cs, 2)}
  BY <1>1
<1>3. winners \in {{"A"}, {"B"}} /\ Combine(cs) = Verdict(CHOOSE w \in winners : TRUE, "-", cs)
  BY DEF Combine, Verdict
<1>4. PICK w \in {"A", "B"} : winners = {w}
  BY <1>3
<1>5. Combine(cs).winner = w /\ Combine(cs).said = [k \in DOMAIN cs |-> cs[k].says]
  <2>1. (CHOOSE x \in winners : TRUE) = w
    BY <1>4
  <2>2. \A x : Verdict(x, "-", cs).winner = x /\ Verdict(x, "-", cs).said = [k \in DOMAIN cs |-> cs[k].says]
    BY DEF Verdict
  <2>3. Combine(cs) = Verdict(w, "-", cs)
    BY <1>3, <2>1
  <2>. QED  BY <2>2, <2>3
<1>6. MapCall(cs, 1) = w /\ MapCall(cs, 2) = w
  BY <1>2, <1>4
<1>7. IF w = "A" THEN cs[1].says = "1" /\ cs[2].says = "2" ELSE cs[1].says = "2" /\ cs[2].says = "1"
  BY <1>1, <1>4, <1>6 DEF MapCall, PosToArm, Says
<1>8. [k \in DOMAIN cs |-> cs[k].says] = <<cs[1].says, cs[2].says>>
  BY <1>1
<1>. QED  BY <1>4, <1>5, <1>7, <1>8

(* The verdict that a session concludes with.                              *)
LEMMA VerdictOf ==
  ASSUME NEW winner, NEW reason, NEW cs
  PROVE  /\ Verdict(winner, reason, cs).kind = pass /\ Verdict(winner, reason, cs).of = judging
         /\ Verdict(winner, reason, cs).winner = winner
         /\ Verdict(winner, reason, cs).tokens = TokensOf(cs, DOMAIN cs)
BY DEF Verdict

LEMMA CombineOf ==
  ASSUME NEW cs
  PROVE  Combine(cs).kind = pass /\ Combine(cs).of = judging
BY DEF Combine, Verdict

LEMMA ConcludeInv ==
  ASSUME Inv, judging # 0, NEW v, v.kind = pass, v.of = judging, Unbiased(v), Conclude(v)
  PROVE  Inv'
<1>0. Shape /\ Unjudged /\ OneConclusion
  BY DEF Inv
<1>1. /\ ledger' = Append(ledger, v) /\ judging' = 0 /\ calls' = <<>>
      /\ pass' = pass /\ queue' = queue
  BY DEF Conclude
<1>2. /\ ledger' \in Seq({ledger'[k] : k \in DOMAIN ledger'}) /\ Len(ledger') = Len(ledger) + 1
      /\ Len(ledger) \in Nat
      /\ \A k \in 1..Len(ledger) : ledger'[k] = ledger[k]
      /\ ledger'[Len(ledger) + 1] = v
  <2>1. Typed
    BY <1>0 DEF Shape
  <2>. QED  BY <1>1, <2>1, AppendOwn DEF Typed
<1>3. DOMAIN ledger = 1..Len(ledger) /\ DOMAIN ledger' = 1..(Len(ledger) + 1)
  BY <1>0, <1>2 DEF Shape, Typed
<1>4. \A k \in 1..Len(ledger) :
        ledger[k].kind = pass /\ ledger[k].of = judging => IsTransient(ledger[k])
  BY <1>0 DEF Unjudged
<1>5. Shape'
  <2>1. Asked(calls')
    BY <1>1, EmptyOwn DEF Asked, Calls
  <2>2. ready' = ready
    BY DEF Conclude
  <2>3. SessionShape'
    BY <1>0, <1>1, <2>1, <2>2 DEF Shape, SessionShape
  <2>. QED  BY <1>2, <2>3 DEF Shape, Typed
<1>6. Unjudged'
  <2>1. \A k \in 1..Len(ledger) :
          ledger[k].kind = pass /\ ledger[k].of \in queue => IsTransient(ledger[k])
    BY <1>0 DEF Unjudged
  <2>2. v.of \notin queue
    BY <1>0 DEF Shape, SessionShape
  <2>3. \A k \in 1..Len(ledger') : k \in 1..Len(ledger) \/ k = Len(ledger) + 1
    BY <1>2
  <2>4. \A k \in 1..Len(ledger') :
          ledger'[k].kind = pass /\ ledger'[k].of \in queue => IsTransient(ledger'[k])
    BY <1>2, <2>1, <2>2, <2>3
  <2>. QED  BY <1>1, <2>4 DEF Unjudged
<1>7. OneConclusion'
  <2> SUFFICES ASSUME NEW i \in 1..(Len(ledger) + 1), NEW j \in 1..(Len(ledger) + 1), i < j,
                      IsVerdict(ledger'[i]), ledger'[i].kind = ledger'[j].kind,
                      ledger'[i].of = ledger'[j].of
               PROVE  IsTransient(ledger'[i])
    BY <1>3 DEF OneConclusion
  <2>1. i \in 1..Len(ledger) /\ ledger'[i] = ledger[i]
    BY <1>2
  <2>2. CASE j \in 1..Len(ledger)
    <3>1. ledger'[j] = ledger[j]
      BY <1>2, <2>2
    <3>. QED  BY <1>0, <1>3, <2>1, <2>2, <3>1 DEF OneConclusion
  <2>3. CASE j = Len(ledger) + 1
    BY <1>2, <1>4, <2>1, <2>3
  <2>. QED  BY <2>2, <2>3
<1>8. \A k \in 1..Len(ledger') : Unbiased(ledger'[k])
  <2>1. \A k \in 1..Len(ledger) : Unbiased(ledger[k])
    BY DEF Inv
  <2>2. \A k \in 1..Len(ledger') : k \in 1..Len(ledger) \/ k = Len(ledger) + 1
    BY <1>2
  <2>. QED  BY <1>2, <2>1, <2>2
<1>. QED  BY <1>5, <1>6, <1>7, <1>8 DEF Inv

(* A step that appends nothing, or a stop.                                 *)
LEMMA SilentInv ==
  ASSUME Inv, ledger' = ledger \/ ledger' = Append(ledger, Stop), SessionShape',
         \A k \in 1..Len(ledger) :
           /\ ledger[k].kind = pass'
           /\ ledger[k].of \in queue' \/ (judging' # 0 /\ ledger[k].of = judging')
           => IsTransient(ledger[k])
  PROVE  Inv'
<1>1. Stop.kind = "stop" /\ ~IsVerdict(Stop) /\ Unbiased(Stop)
  BY DEF Stop, IsVerdict, Unbiased, KindsJudged
<1>2. CASE ledger' = ledger
  <2>1. Shape'
    BY <1>2 DEF Inv, Shape, Typed
  <2>2. Unjudged'
    BY <1>2 DEF Unjudged
  <2>3. OneConclusion'
    BY <1>2 DEF Inv, OneConclusion
  <2>4. \A k \in 1..Len(ledger') : Unbiased(ledger'[k])
    BY <1>2 DEF Inv
  <2>. QED  BY <2>1, <2>2, <2>3, <2>4 DEF Inv
<1>3. CASE ledger' = Append(ledger, Stop)
  <2>0. Typed /\ OneConclusion /\ \A k \in 1..Len(ledger) : Unbiased(ledger[k])
    BY DEF Inv, Shape
  <2>1. /\ Typed' /\ Len(ledger') = Len(ledger) + 1 /\ Len(ledger) \in Nat
        /\ \A k \in 1..Len(ledger) : ledger'[k] = ledger[k]
        /\ ledger'[Len(ledger) + 1] = Stop
    BY <1>3, <2>0, AppendOwn DEF Typed
  <2>2. \A k \in 1..Len(ledger') : k \in 1..Len(ledger) \/ k = Len(ledger) + 1
    BY <2>1
  <2>3. DOMAIN ledger = 1..Len(ledger) /\ DOMAIN ledger' = 1..Len(ledger')
    BY <2>0, <2>1 DEF Typed
  <2>4. Unjudged'
    <3>1. pass' # "stop"
      BY DEF SessionShape, KindsJudged
    <3>. QED  BY <1>1, <2>1, <2>2, <3>1 DEF Unjudged
  <2>5. OneConclusion'
    <3> SUFFICES ASSUME NEW i \in 1..Len(ledger'), NEW j \in 1..Len(ledger'), i < j,
                        IsVerdict(ledger'[i]), ledger'[i].kind = ledger'[j].kind,
                        ledger'[i].of = ledger'[j].of
                 PROVE  IsTransient(ledger'[i])
      BY <2>3 DEF OneConclusion
    <3>1. i \in 1..Len(ledger) /\ ledger'[i] = ledger[i]
      BY <2>1
    <3>2. j \in 1..Len(ledger) /\ ledger'[j] = ledger[j]
      BY <1>1, <2>1, <2>2 DEF IsVerdict
    <3>. QED  BY <2>0, <2>3, <3>1, <3>2 DEF OneConclusion
  <2>6. \A k \in 1..Len(ledger') : Unbiased(ledger'[k])
    BY <1>1, <2>0, <2>1, <2>2
  <2>. QED  BY <2>1, <2>4, <2>5, <2>6 DEF Inv, Shape
<1>. QED  BY <1>2, <1>3

-----------------------------------------------------------------------------
LEMMA InitInv == Init => Inv
<1> SUFFICES ASSUME Init PROVE Inv
  OBVIOUS
<1>1. Typed /\ Len(ledger) = 0 /\ DOMAIN ledger = {}
  BY EmptyOwn DEF Init, Typed
<1>2. SessionShape
  <2>1. Asked(calls)
    BY EmptyOwn DEF Init, Asked, Calls
  <2>. QED  BY <2>1 DEF Init, SessionShape, KindsJudged
<1>. QED  BY <1>1, <1>2 DEF Inv, Shape, Unjudged, OneConclusion

(* Whatever a session has still to judge has no conclusive verdict.        *)
LEMMA RemainingUnjudged ==
  ASSUME Typed, NEW kind, NEW k \in 1..Len(ledger), ledger[k].kind = kind,
         ledger[k].of \in Remaining(kind)
  PROVE  IsTransient(ledger[k])
<1>1. DOMAIN ledger = 1..Len(ledger)
  BY DEF Typed
<1>. QED  BY <1>1 DEF Remaining, AlreadyJudged

LEMMA PassInv ==
  ASSUME Inv, NEW kind \in KindsJudged, judging = 0, pass' = kind, queue' = Remaining(kind),
         UNCHANGED <<ledger, ready, judging, calls>>
  PROVE  Inv'
<1>1. Typed /\ SessionShape
  BY DEF Inv, Shape
<1>2. SessionShape'
  <2>1. Asked(calls')
    BY <1>1 DEF SessionShape
  <2>2. 0 \notin queue' /\ judging' \notin queue'
    BY <1>1 DEF SessionShape, Remaining
  <2>3. kind # "none"
    BY DEF KindsJudged
  <2>. QED  BY <1>1, <2>1, <2>2, <2>3 DEF SessionShape
<1>. QED  BY <1>1, <1>2, RemainingUnjudged, SilentInv

(* A session that ends, with or without a stop on the ledger.              *)
LEMMA EndInv ==
  ASSUME Inv, SessionEnds, ready' = ready, ledger' = ledger \/ ledger' = Append(ledger, Stop)
  PROVE  Inv'
<1>1. SessionShape
  BY DEF Inv, Shape
<1>2. Asked(calls')
  BY EmptyOwn DEF SessionEnds, Asked, Calls
<1>3. SessionShape'
  BY <1>1, <1>2 DEF SessionShape, SessionEnds
<1>4. queue' = {} /\ judging' = 0
  BY DEF SessionEnds
<1>. QED  BY <1>3, <1>4, SilentInv

(* A call that the session adds to those of its comparison.                *)
LEMMA AnsweredInv ==
  ASSUME Inv, CallAnswered
  PROVE  Inv'
<1>1. Shape /\ Unjudged /\ Asked(calls)
  BY DEF Inv, Shape, SessionShape
<1>2. PICK call : calls' = Append(calls, call) /\ call.says \in Says
  <2>1. \A reply \in Replies :
          reply.says \notin TransientFailures \cup TerminalFailures => reply.says \in Says
    BY DEF Replies, Reply, Says
  <2>. QED  BY <2>1, JudgeAssumption DEF CallAnswered
<1>3. /\ calls' \in Seq({calls'[k] : k \in DOMAIN calls'}) /\ Len(calls') = Len(calls) + 1
      /\ Len(calls) \in Nat
      /\ \A k \in 1..Len(calls) : calls'[k] = calls[k]
      /\ calls'[Len(calls) + 1] = call
  BY <1>1, <1>2, AppendOwn DEF Asked
<1>4. Asked(calls')
  <2>1. Len(calls') <= Calls
    BY <1>3 DEF CallAnswered, Calls
  <2>2. \A k \in 1..Len(calls') : k \in 1..Len(calls) \/ k = Len(calls) + 1
    BY <1>3
  <2>. QED  BY <1>1, <1>2, <1>3, <2>1, <2>2 DEF Asked
<1>5. UNCHANGED <<ledger, ready, pass, queue, judging>>
  BY DEF CallAnswered
<1>6. SessionShape'
  BY <1>1, <1>4, <1>5 DEF Shape, SessionShape
<1>. QED  BY <1>1, <1>5, <1>6, SilentInv DEF Unjudged

LEMMA StepInv == Inv /\ [Next]_vars => Inv'
<1> SUFFICES ASSUME Inv, [Next]_vars PROVE Inv'
  OBVIOUS
<1>0. Typed /\ SessionShape /\ Unjudged
  BY DEF Inv, Shape
<1>1. CASE Begin
  BY <1>0, <1>1, PassInv DEF Begin, KindsJudged, SessionShape
<1>2. CASE StartComparison
  <2>1. PICK c \in queue : judging' = c /\ queue' = queue \ {c}
    BY <1>2 DEF StartComparison
  <2>2. UNCHANGED <<ledger, ready, pass, calls>> /\ pass # "none"
    BY <1>2 DEF StartComparison
  <2>3. SessionShape'
    BY <1>0, <2>1, <2>2 DEF SessionShape
  <2>. QED  BY <1>0, <2>1, <2>2, <2>3, SilentInv DEF Unjudged
<1>3. CASE StopAtCeiling
  BY <1>3, EndInv DEF StopAtCeiling
<1>4. CASE ReusedPass
  BY <1>4, PassInv DEF ReusedPass, KindsJudged
<1>5. CASE Finish
  BY <1>5, EndInv DEF Finish
<1>6. CASE Leak
  <2>1. judging # 0
    BY <1>6, JudgeAssumption DEF Leak
  <2>2. Unbiased(Verdict("CANT_JUDGE", "leak", <<>>))
    BY VerdictOf DEF Unbiased
  <2>. QED  BY <1>6, <2>1, <2>2, VerdictOf, ConcludeInv DEF Leak
<1>7. CASE CallAnswered
  BY <1>7, AnsweredInv
<1>8. CASE CallFailed
  <2>1. PICK reply \in Answers : Conclude(Verdict("CANT_JUDGE", reply.says, calls))
    BY <1>8 DEF CallFailed
  <2>2. Unbiased(Verdict("CANT_JUDGE", reply.says, calls))
    BY VerdictOf DEF Unbiased
  <2>3. judging # 0
    BY <1>8 DEF CallFailed
  <2>. QED  BY <2>1, <2>2, <2>3, VerdictOf, ConcludeInv
<1>9. CASE CombineCalls
  <2>1. Unbiased(Combine(calls))
    BY <1>0, <1>9, CombineUnbiased DEF CombineCalls, SessionShape
  <2>. QED  BY <1>9, <2>1, CombineOf, ConcludeInv DEF CombineCalls
<1>10. CASE Dies
  BY <1>10, EndInv DEF Dies
<1>11. ASSUME NEW kind \in KindsJudged, NEW c \in Pairs[kind], PairCompletes(kind, c)
       PROVE  Inv'
  <2>1. UNCHANGED <<ledger, pass, queue, judging, calls>> /\ ready' = [ready EXCEPT ![kind] = @ \cup {c}]
    BY <1>11 DEF PairCompletes, session
  <2>2. c \in Nat \ {0}
    BY JudgeAssumption
  <2>3. ready' \in [KindsJudged -> SUBSET (Nat \ {0})]
    BY <1>0, <2>1, <2>2 DEF SessionShape
  <2>4. SessionShape'
    BY <1>0, <2>1, <2>3 DEF SessionShape
  <2>. QED  BY <1>0, <2>1, <2>4, SilentInv DEF Unjudged
<1>12. CASE UNCHANGED vars
  <2>1. UNCHANGED <<ledger, ready, pass, queue, judging, calls>>
    BY <1>12 DEF vars, session
  <2>2. SessionShape'
    BY <1>0, <2>1 DEF SessionShape
  <2>. QED  BY <1>0, <2>1, <2>2, SilentInv DEF Unjudged
<1>. QED  BY <1>1, <1>2, <1>3, <1>4, <1>5, <1>6, <1>7, <1>8, <1>9, <1>10, <1>11, <1>12 DEF Next, Progress

LEMMA AlwaysInv == Spec => []Inv
BY InitInv, StepInv, PTL DEF Spec

-----------------------------------------------------------------------------
(* Whatever sessions die and resume, a comparison has one conclusive       *)
(* verdict of a kind (session.py, _already_judged).                        *)
THEOREM OneConclusionEach == Spec => []OneConclusion
<1>1. Inv => OneConclusion
  BY DEF Inv
<1>. QED  BY <1>1, AlwaysInv, PTL

(* A winner over both orders was preferred in both of its positions        *)
(* (client.py, _pos_to_arm and _map_call).                                 *)
THEOREM WinnersAreUnbiased == Spec => []PositionBiasTies
<1>1. Inv => PositionBiasTies
  <2> SUFFICES ASSUME Inv, NEW ev \in ToSet(ledger) PROVE Unbiased(ev)
    BY DEF PositionBiasTies, Unbiased
  <2>1. PICK k \in 1..Len(ledger) : ev = ledger[k]
    BY DEF ToSet, Inv, Shape, Typed
  <2>. QED  BY <2>1 DEF Inv
<1>. QED  BY <1>1, AlwaysInv, PTL

-----------------------------------------------------------------------------
(* The ceiling. The running total of a session is what the verdicts on the *)
(* ledger cost, a comparison starts below the ceiling, and its calls cost  *)
(* at most Most each.                                                      *)
Most == Max(Usage)

Log(l) == l \in Seq({l[k] : k \in DOMAIN l})
Judged(l) == {k \in DOMAIN l : l[k].kind \in KindsJudged}
Total(l) == TokensOf(l, Judged(l))
Priced(l) == \A k \in Judged(l) : l[k].tokens \in Nat
PricedCalls(cs) ==
  /\ \A k \in 1..Len(cs) : cs[k].tokens \in Usage
  /\ TokensOf(cs, DOMAIN cs) \in 0..(Len(cs) * Most)

SpendInv ==
  /\ Priced(ledger) /\ PricedCalls(calls)
  /\ pass # "none" => accumulated = Total(ledger)
  /\ judging # 0 => Total(ledger) < Ceiling
  /\ Total(ledger) < Ceiling + Calls * Most

(* Once a stop is on the ledger the ceiling is reached, and stays so.      *)
Stopped == \E k \in 1..Len(ledger) : ledger[k].kind = "stop"
StopInv == Stopped => judging = 0 /\ Total(ledger) >= Ceiling

LEMMA MostIs ==
  Most \in Nat /\ Most \in Usage /\ \A x \in Usage : x \in 0..Most
<1>0. Usage \subseteq Nat /\ Usage # {} /\ IsFiniteSet(Usage)
  BY JudgeAssumption
<1>1. \E m \in Usage : \A x \in Usage : x <= m
  BY <1>0, HasLargest
<1>2. \E m \in Usage : \A x \in Usage : m >= x
  BY <1>0, <1>1
<1>3. Max(Usage) \in Usage /\ \A x \in Usage : Max(Usage) >= x
  BY <1>2 DEF Max
<1>4. PICK m \in Nat : m = Max(Usage)
  BY <1>0, <1>3
<1>5. \A x \in Usage : x \in Nat /\ m >= x
  BY <1>0, <1>3, <1>4
<1>. QED  BY <1>3, <1>4, <1>5 DEF Most

(* The tokens of some positions of a sequence, and those of another where  *)
(* they are the same, with one more position.                              *)
Counted(s, S) == IsFiniteSet(S) /\ \A k \in S : s[k].tokens \in Nat
Same(s, t, S) == \A k \in S : t[k] = s[k]

LEMMA TokensAreNat ==
  ASSUME NEW s, NEW S, Counted(s, S)
  PROVE  TokensOf(s, S) \in Nat /\ (S = {} => TokensOf(s, S) = 0)
<1> DEFINE f == [k \in S |-> s[k].tokens]
<1>1. DOMAIN f = S /\ f \in [S -> Nat] /\ IsFiniteSet(S)
  BY DEF Counted
<1>2. TokensOf(s, S) = SumFunction(f)
  BY DEF TokensOf
<1>. HIDE DEF f
<1>3. Numbers(f)
  BY <1>1 DEF Numbers
<1>. QED  BY <1>1, <1>2, <1>3, SumIsNat

LEMMA TokensSame ==
  ASSUME NEW s, NEW t, NEW S, Same(s, t, S)
  PROVE  TokensOf(t, S) = TokensOf(s, S)
<1>1. [k \in S |-> t[k].tokens] = [k \in S |-> s[k].tokens]
  BY DEF Same
<1>. QED  BY <1>1 DEF TokensOf

LEMMA TokensOneMore ==
  ASSUME NEW s, NEW t, NEW S, Counted(s, S), Same(s, t, S), NEW x, x \notin S, t[x].tokens \in Nat
  PROVE  TokensOf(t, S \cup {x}) = TokensOf(s, S) + t[x].tokens
<1> DEFINE f == [k \in S |-> s[k].tokens]
           U == S \cup {x}
           e == [k \in U |-> t[k].tokens]
<1>1. DOMAIN f = S /\ f \in [S -> Nat] /\ IsFiniteSet(S)
  BY DEF Counted
<1>2. e \in [S \cup {x} -> Nat] /\ (\A k \in S : e[k] = f[k]) /\ e[x] = t[x].tokens
  <2>1. \A k \in S : t[k].tokens = s[k].tokens /\ t[k].tokens \in Nat
    BY DEF Same, Counted
  <2>2. \A k \in U : t[k].tokens \in Nat
    BY <2>1
  <2>. QED  BY <2>1, <2>2
<1>3. TokensOf(s, S) = SumFunction(f) /\ TokensOf(t, S \cup {x}) = SumFunction(e)
  BY DEF TokensOf
<1>. HIDE DEF f, e, U
<1>4. Numbers(f) /\ OneMore(e, f, x)
  BY <1>1, <1>2 DEF Numbers, OneMore
<1>. QED  BY <1>2, <1>3, <1>4, SumAdds

LEMMA LogIs ==
  ASSUME NEW l, Log(l)
  PROVE  /\ Len(l) \in Nat /\ DOMAIN l = 1..Len(l) /\ IsFiniteSet(DOMAIN l)
         /\ Judged(l) \subseteq 1..Len(l) /\ IsFiniteSet(Judged(l))
<1>1. Len(l) \in Nat /\ DOMAIN l = 1..Len(l)
  BY DEF Log
<1>2. IsFiniteSet(1..Len(l))
  BY <1>1, FS_Interval
<1>3. Judged(l) \subseteq DOMAIN l
  BY DEF Judged
<1>. QED  BY <1>1, <1>2, <1>3, FS_Subset

LEMMA Grown ==
  ASSUME NEW l, Log(l), NEW e
  PROVE  LET t == Append(l, e)
         IN  /\ Log(t) /\ Len(t) = Len(l) + 1 /\ t[Len(l) + 1] = e
             /\ \A k \in 1..Len(l) : t[k] = l[k]
             /\ Judged(t) = Judged(l) \cup (IF IsVerdict(e) THEN {Len(l) + 1} ELSE {})
<1> DEFINE t == Append(l, e)
<1>1. Log(t) /\ Len(t) = Len(l) + 1 /\ (\A k \in 1..Len(l) : t[k] = l[k]) /\ t[Len(l) + 1] = e
  BY AppendOwn DEF Log
<1>. HIDE DEF t
<1>2. Len(l) \in Nat /\ DOMAIN l = 1..Len(l) /\ DOMAIN t = 1..(Len(l) + 1)
  BY <1>1, LogIs
<1>3. \A k \in 1..(Len(l) + 1) : k \in 1..Len(l) \/ k = Len(l) + 1
  BY <1>2
<1>4. Judged(t) = Judged(l) \cup (IF IsVerdict(e) THEN {Len(l) + 1} ELSE {})
  BY <1>1, <1>2, <1>3 DEF Judged, IsVerdict
<1>. QED  BY <1>1, <1>4 DEF t

(* A verdict adds its tokens, a stop none.                                 *)
LEMMA TotalGrown ==
  ASSUME NEW l, Log(l), Priced(l), NEW e, IsVerdict(e) => e.tokens \in Nat
  PROVE  /\ Total(l) \in Nat /\ Priced(Append(l, e))
         /\ Total(Append(l, e)) = Total(l) + (IF IsVerdict(e) THEN e.tokens ELSE 0)
<1> DEFINE t == Append(l, e)
           x == Len(l) + 1
<1>1. /\ t[x] = e /\ \A k \in 1..Len(l) : t[k] = l[k]
      /\ Judged(t) = Judged(l) \cup (IF IsVerdict(e) THEN {x} ELSE {})
  BY Grown
<1>2. Len(l) \in Nat /\ Judged(l) \subseteq 1..Len(l) /\ x \notin Judged(l) /\ IsFiniteSet(Judged(l))
  BY LogIs
<1>. HIDE DEF t, x
<1>3. Same(l, t, Judged(l)) /\ Counted(l, Judged(l))
  BY <1>1, <1>2 DEF Same, Counted, Priced
<1>4. Total(l) \in Nat
  BY <1>3, TokensAreNat DEF Total
<1>5. Priced(t)
  BY <1>1, <1>2 DEF Priced
<1>6. CASE ~IsVerdict(e)
  <2>1. Judged(t) = Judged(l)
    BY <1>1, <1>6
  <2>2. Total(t) = Total(l)
    BY <1>3, <2>1, TokensSame DEF Total
  <2>. QED  BY <1>4, <1>5, <1>6, <2>2 DEF t
<1>7. CASE IsVerdict(e)
  <2>1. Judged(t) = Judged(l) \cup {x} /\ t[x].tokens \in Nat
    BY <1>1, <1>7
  <2>2. Total(t) = Total(l) + t[x].tokens
    BY <1>2, <1>3, <2>1, TokensOneMore DEF Total
  <2>. QED  BY <1>1, <1>4, <1>5, <1>7, <2>2 DEF t
<1>. QED  BY <1>6, <1>7

(* What a comparison can cost.                                             *)
LEMMA CallsCost ==
  ASSUME Asked(calls), PricedCalls(calls)
  PROVE  /\ Calls * Most \in Nat /\ TokensOf(calls, DOMAIN calls) \in 0..(Calls * Most)
         /\ TokensOf(<<>>, DOMAIN <<>>) = 0
<1>1. Calls \in 1..2 /\ Len(calls) \in 0..Calls /\ Most \in Nat
  BY MostIs DEF Asked, Calls
<1>2. \A a \in 0..2, b \in 1..2 : a <= b => a * Most \in Nat /\ b * Most \in Nat /\ a * Most <= b * Most
  BY <1>1
<1>3. Len(calls) * Most \in Nat /\ Calls * Most \in Nat /\ Len(calls) * Most <= Calls * Most
  BY <1>1, <1>2
<1>4. Counted(<<>>, {}) /\ DOMAIN <<>> = {}
  <2>1. IsFiniteSet({})
    BY FS_EmptySet
  <2>. QED  BY <2>1 DEF Counted
<1>5. TokensOf(<<>>, DOMAIN <<>>) = 0
  BY <1>4, TokensAreNat
<1>6. PICK a \in Nat : a = Len(calls) * Most
  BY <1>3
<1>7. PICK b \in Nat : b = Calls * Most
  BY <1>3
<1>8. TokensOf(calls, DOMAIN calls) \in 0..b
  BY <1>3, <1>6, <1>7 DEF PricedCalls
<1>. QED  BY <1>5, <1>7, <1>8

LEMMA NoCallsCost == PricedCalls(<<>>)
<1>1. IsFiniteSet({}) /\ DOMAIN <<>> = {} /\ Len(<<>>) = 0
  BY FS_EmptySet
<1>2. TokensOf(<<>>, {}) = 0
  BY <1>1, TokensAreNat DEF Counted
<1>3. 0 * Most = 0 /\ Most \in Nat
  BY MostIs
<1>. QED  BY <1>1, <1>2, <1>3 DEF PricedCalls

-----------------------------------------------------------------------------
LEMMA SpendInit == Init => SpendInv /\ StopInv
<1> SUFFICES ASSUME Init PROVE SpendInv /\ StopInv
  OBVIOUS
<1>1. ledger = <<>> /\ Len(ledger) = 0 /\ Judged(ledger) = {} /\ DOMAIN ledger = {}
  BY DEF Init, Judged
<1>2. IsFiniteSet({})
  BY FS_EmptySet
<1>3. Total(ledger) = 0
  BY <1>1, <1>2, TokensAreNat DEF Total, Counted
<1>4. PricedCalls(calls)
  BY NoCallsCost DEF Init
<1>5. Ceiling \in Nat \ {0} /\ Asked(calls)
  BY JudgeAssumption, InitInv DEF Inv, Shape, SessionShape
<1>6. PICK b \in Nat : b = Calls * Most
  BY <1>4, <1>5, CallsCost
<1>7. Total(ledger) < Ceiling + Calls * Most
  BY <1>3, <1>5, <1>6
<1>. QED  BY <1>1, <1>3, <1>4, <1>7 DEF Init, SpendInv, StopInv, Stopped, Priced

(* A comparison that ends, having started below the ceiling.               *)
LEMMA ConcludeSpend ==
  ASSUME Inv, SpendInv, StopInv, judging # 0, NEW v, v.kind = pass, Conclude(v),
         v.tokens \in 0..(Calls * Most)
  PROVE  SpendInv' /\ StopInv'
<1>1. /\ ledger' = Append(ledger, v) /\ judging' = 0 /\ calls' = <<>>
      /\ pass' = pass /\ accumulated' = accumulated + v.tokens
  BY DEF Conclude
<1>2. Log(ledger) /\ pass \in KindsJudged /\ Asked(calls) /\ Ceiling \in Nat
  BY JudgeAssumption DEF Inv, Shape, Typed, Log, SessionShape
<1>3. PICK b \in Nat : b = Calls * Most
  BY <1>2, CallsCost DEF SpendInv
<1>4. v.tokens \in 0..b /\ IsVerdict(v)
  BY <1>2, <1>3 DEF IsVerdict
<1>5. /\ Total(ledger) \in Nat /\ Priced(ledger')
      /\ Total(ledger') = Total(ledger) + v.tokens
  BY <1>1, <1>2, <1>4, TotalGrown DEF SpendInv
<1>6. Total(ledger) < Ceiling
  BY DEF SpendInv
<1>7. Total(ledger') < Ceiling + b
  BY <1>2, <1>4, <1>5, <1>6
<1>8. SpendInv'
  <2>1. pass' # "none" => accumulated' = Total(ledger')
    BY <1>1, <1>5 DEF SpendInv
  <2>2. PricedCalls(calls')
    BY <1>1, NoCallsCost
  <2>3. Total(ledger') < Ceiling + Calls * Most
    BY <1>3, <1>7
  <2>. QED  BY <1>1, <1>5, <2>1, <2>2, <2>3 DEF SpendInv, Calls, Most
<1>9. StopInv'
  <2>1. ~Stopped
    BY <1>2, <1>5, <1>6 DEF StopInv
  <2>2. ~Stopped'
    <3>1. /\ Len(ledger') = Len(ledger) + 1 /\ ledger'[Len(ledger) + 1] = v
          /\ \A k \in 1..Len(ledger) : ledger'[k] = ledger[k]
      BY <1>1, <1>2, Grown
    <3>2. Len(ledger) \in Nat /\ v.kind # "stop"
      BY <1>2, LogIs DEF KindsJudged
    <3>3. \A k \in 1..(Len(ledger) + 1) : k \in 1..Len(ledger) \/ k = Len(ledger) + 1
      BY <3>2
    <3>. QED  BY <2>1, <3>1, <3>2, <3>3 DEF Stopped
  <2>. QED  BY <2>2 DEF StopInv
<1>. QED  BY <1>8, <1>9

(* A session that ends without a verdict; a stop finds the ceiling reached.*)
LEMMA EndSpend ==
  ASSUME Inv, SpendInv, StopInv, SessionEnds,
         \/ ledger' = ledger
         \/ ledger' = Append(ledger, Stop) /\ Total(ledger) >= Ceiling
  PROVE  SpendInv' /\ StopInv'
<1>1. pass' = "none" /\ judging' = 0 /\ calls' = <<>>
  BY DEF SessionEnds
<1>2. Log(ledger)
  BY DEF Inv, Shape, Typed, Log
<1>3. Stop.kind = "stop" /\ ~IsVerdict(Stop)
  BY DEF Stop, IsVerdict, KindsJudged
<1>4. Total(ledger) \in Nat /\ Total(ledger') = Total(ledger) /\ Priced(ledger')
  <2>1. /\ Total(ledger) \in Nat /\ Priced(Append(ledger, Stop))
        /\ Total(Append(ledger, Stop)) = Total(ledger) + 0
    BY <1>2, <1>3, TotalGrown DEF SpendInv
  <2>2. Total(ledger) + 0 = Total(ledger) /\ Priced(ledger)
    BY <2>1 DEF SpendInv
  <2>3. CASE ledger' = ledger
    BY <2>1, <2>2, <2>3
  <2>4. CASE ledger' = Append(ledger, Stop)
    BY <2>1, <2>2, <2>4
  <2>. QED  BY <2>3, <2>4
<1>5. PricedCalls(calls')
  BY <1>1, NoCallsCost
<1>6. SpendInv'
  BY <1>1, <1>4, <1>5 DEF SpendInv, Calls, Most
<1>7. StopInv'
  BY <1>1, <1>4 DEF StopInv, Stopped
<1>. QED  BY <1>6, <1>7

(* A step that appends nothing to the ledger and asks nothing.             *)
LEMMA SilentSpend ==
  ASSUME Inv, SpendInv, StopInv, UNCHANGED <<ledger, calls>>,
         pass' # "none" => accumulated' = Total(ledger),
         judging' = judging \/ Total(ledger) < Ceiling
  PROVE  SpendInv' /\ StopInv'
<1>1. Total(ledger) \in Nat /\ Ceiling \in Nat
  <2>1. Log(ledger) /\ Priced(ledger) /\ ~IsVerdict(Stop)
    BY DEF Inv, Shape, Typed, Log, SpendInv, Stop, IsVerdict, KindsJudged
  <2>. QED  BY <2>1, TotalGrown, JudgeAssumption
<1>. QED  BY <1>1 DEF SpendInv, StopInv, Stopped, Calls, Most, Total, TokensOf, Judged

LEMMA AnsweredSpend ==
  ASSUME Inv, SpendInv, StopInv, CallAnswered
  PROVE  SpendInv' /\ StopInv'
<1>1. PICK call : calls' = Append(calls, call) /\ call.tokens \in Usage
  BY DEF CallAnswered
<1>2. UNCHANGED <<ledger, pass, accumulated, judging>>
  BY DEF CallAnswered
<1>3. Log(calls) /\ Len(calls) \in Nat /\ DOMAIN calls = 1..Len(calls) /\ IsFiniteSet(DOMAIN calls)
  <2>1. Log(calls)
    BY DEF Inv, Shape, SessionShape, Asked, Log
  <2>. QED  BY <2>1, LogIs
<1> DEFINE t == Append(calls, call)
           x == Len(calls) + 1
<1>4. Log(t) /\ Len(t) = x /\ t[x] = call /\ \A k \in 1..Len(calls) : t[k] = calls[k]
  BY <1>3, Grown
<1>5. DOMAIN t = 1..x
  BY <1>4, LogIs
<1>6. DOMAIN t = DOMAIN calls \cup {x} /\ x \notin DOMAIN calls
  BY <1>3, <1>5
<1>7. t' = Append(calls', call') /\ calls' = t
  BY <1>1
<1>. HIDE DEF t, x
<1>8. PricedCalls(calls)
  BY DEF SpendInv
<1>9. call.tokens \in 0..Most /\ Most \in Nat /\ Usage \subseteq Nat
  BY <1>1, MostIs, JudgeAssumption
<1>10. Same(calls, t, DOMAIN calls) /\ Counted(calls, DOMAIN calls)
  BY <1>3, <1>4, <1>8, <1>9 DEF Same, Counted, PricedCalls
<1>11. TokensOf(t, DOMAIN t) = TokensOf(calls, DOMAIN calls) + call.tokens
  BY <1>4, <1>6, <1>9, <1>10, TokensOneMore
<1>12. PricedCalls(t)
  <2>1. \A k \in 1..Len(t) : k \in 1..Len(calls) \/ k = x
    BY <1>3, <1>4 DEF x
  <2>2. \A k \in 1..Len(t) : t[k].tokens \in Usage
    BY <1>1, <1>4, <1>8, <2>1 DEF PricedCalls
  <2>3. Len(t) * Most = Len(calls) * Most + Most
    BY <1>3, <1>4, <1>9 DEF x
  <2>4. PICK a \in Int : a = Len(calls) * Most
    BY <1>3, <1>9
  <2>5. TokensOf(t, DOMAIN t) \in 0..(a + Most)
    BY <1>8, <1>9, <1>11, <2>4 DEF PricedCalls
  <2>. QED  BY <2>2, <2>3, <2>4, <2>5 DEF PricedCalls
<1>13. SpendInv'
  BY <1>2, <1>7, <1>12 DEF SpendInv, Calls, Most, Total, TokensOf, Judged, Priced
<1>14. StopInv'
  BY <1>2 DEF StopInv, Stopped, Total, TokensOf, Judged
<1>. QED  BY <1>13, <1>14

(* The tokens that the model sums are those of the verdicts of both kinds. *)
LEMMA TokensAreTotal == Tokens(KindsJudged) = Total(ledger)
BY DEF Tokens, Total, Judged

LEMMA SpendStep == Inv /\ SpendInv /\ StopInv /\ [Next]_vars => SpendInv' /\ StopInv'
<1> SUFFICES ASSUME Inv, SpendInv, StopInv, [Next]_vars PROVE SpendInv' /\ StopInv'
  OBVIOUS
<1>0. /\ Asked(calls) /\ Log(ledger) /\ Priced(ledger)
      /\ pass # "none" => accumulated = Total(ledger)
      /\ Total(ledger) \in Nat /\ Ceiling \in Nat
  <2>1. Log(ledger) /\ Priced(ledger) /\ ~IsVerdict(Stop)
    BY DEF Inv, Shape, Typed, Log, SpendInv, Stop, IsVerdict, KindsJudged
  <2>2. Total(ledger) \in Nat
    BY <2>1, TotalGrown
  <2>. QED  BY <2>1, <2>2, JudgeAssumption DEF Inv, Shape, SessionShape, SpendInv
<1>cost. /\ TokensOf(calls, DOMAIN calls) \in 0..(Calls * Most)
         /\ TokensOf(<<>>, DOMAIN <<>>) \in 0..(Calls * Most)
  <2>1. PricedCalls(calls)
    BY DEF SpendInv
  <2>2. PICK b \in Nat : b = Calls * Most
    BY <1>0, <2>1, CallsCost
  <2>3. TokensOf(<<>>, DOMAIN <<>>) \in 0..b
    BY <1>0, <2>1, <2>2, CallsCost
  <2>. QED  BY <1>0, <2>1, <2>2, <2>3, CallsCost
<1>1. CASE Begin
  BY <1>1, SilentSpend, TokensAreTotal DEF Begin, SeedAccumulated
<1>2. CASE StartComparison
  <2>1. Total(ledger) < Ceiling
    BY <1>0, <1>2 DEF StartComparison, ReachedCeiling
  <2>. QED  BY <1>0, <1>2, <2>1, SilentSpend DEF StartComparison
<1>3. CASE StopAtCeiling
  <2>1. Total(ledger) >= Ceiling
    BY <1>0, <1>3 DEF StopAtCeiling, ReachedCeiling
  <2>. QED  BY <1>3, <2>1, EndSpend DEF StopAtCeiling
<1>4. CASE ReusedPass
  <2>1. accumulated' = Total(ledger)
    BY <1>0, <1>4 DEF ReusedPass, Carried
  <2>. QED  BY <1>4, <2>1, SilentSpend DEF ReusedPass
<1>5. CASE Finish
  BY <1>5, EndSpend DEF Finish
<1>6. CASE Leak
  <2>1. judging # 0
    BY <1>6, JudgeAssumption DEF Leak
  <2>2. Verdict("CANT_JUDGE", "leak", <<>>).tokens \in 0..(Calls * Most)
    BY <1>cost, VerdictOf
  <2>. QED  BY <1>6, <2>1, <2>2, VerdictOf, ConcludeSpend DEF Leak
<1>7. CASE CallAnswered
  BY <1>7, AnsweredSpend
<1>8. CASE CallFailed
  <2>1. PICK reply \in Answers : Conclude(Verdict("CANT_JUDGE", reply.says, calls))
    BY <1>8 DEF CallFailed
  <2>2. Verdict("CANT_JUDGE", reply.says, calls).tokens \in 0..(Calls * Most)
    BY <1>cost, VerdictOf
  <2>3. judging # 0
    BY <1>8 DEF CallFailed
  <2>. QED  BY <2>1, <2>2, <2>3, VerdictOf, ConcludeSpend
<1>9. CASE CombineCalls
  <2>1. Combine(calls).tokens = TokensOf(calls, DOMAIN calls)
    BY DEF Combine, Verdict
  <2>2. Combine(calls).tokens \in 0..(Calls * Most)
    BY <1>cost, <2>1
  <2>. QED  BY <1>9, <2>2, CombineOf, ConcludeSpend DEF CombineCalls
<1>10. CASE Dies
  BY <1>10, EndSpend DEF Dies
<1>11. ASSUME NEW kind \in KindsJudged, NEW c \in Pairs[kind], PairCompletes(kind, c)
       PROVE  SpendInv' /\ StopInv'
  <2>1. UNCHANGED <<ledger, pass, accumulated, judging, calls>>
    BY <1>11 DEF PairCompletes, session
  <2>. QED  BY <1>0, <2>1, SilentSpend
<1>12. CASE UNCHANGED vars
  <2>1. UNCHANGED <<ledger, pass, accumulated, judging, calls>>
    BY <1>12 DEF vars, session
  <2>. QED  BY <1>0, <2>1, SilentSpend
<1>. QED  BY <1>1, <1>2, <1>3, <1>4, <1>5, <1>6, <1>7, <1>8, <1>9, <1>10, <1>11, <1>12 DEF Next, Progress

LEMMA AlwaysSpend == Spec => [](SpendInv /\ StopInv)
BY AlwaysInv, SpendInit, SpendStep, PTL DEF Spec

(* Over both kinds of pairs and over every session, however often one dies *)
(* after a call and before its verdict, the tokens on the ledger stay      *)
(* within one comparison of the ceiling (session.py, _seed_accumulated).   *)
THEOREM TokensStayBounded == Spec => []CeilingHolds
<1>1. SpendInv => CeilingHolds
  BY TokensAreTotal DEF SpendInv, CeilingHolds, Most
<1>. QED  BY <1>1, AlwaysSpend, PTL

-----------------------------------------------------------------------------
(* A verdict is appended while a comparison is judged, and once a stop is  *)
(* on the ledger none is.                                                  *)
LEMMA AppendKeepsFinal ==
  ASSUME Log(ledger), StopIsFinal, NEW e, ledger' = Append(ledger, e), Stopped => ~IsVerdict(e)
  PROVE  StopIsFinal'
<1>1. /\ Log(ledger') /\ Len(ledger') = Len(ledger) + 1 /\ ledger'[Len(ledger) + 1] = e
      /\ \A k \in 1..Len(ledger) : ledger'[k] = ledger[k]
  BY Grown
<1>2. Len(ledger) \in Nat /\ DOMAIN ledger = 1..Len(ledger) /\ DOMAIN ledger' = 1..(Len(ledger) + 1)
  BY <1>1, LogIs
<1> SUFFICES ASSUME NEW i \in 1..(Len(ledger) + 1), NEW j \in 1..(Len(ledger) + 1), i < j,
                    ledger'[i].kind = "stop"
             PROVE  ~IsVerdict(ledger'[j])
  BY <1>2 DEF StopIsFinal
<1>3. i \in 1..Len(ledger) /\ ledger[i].kind = "stop"
  BY <1>1, <1>2
<1>4. CASE j \in 1..Len(ledger)
  <2>1. ~IsVerdict(ledger[j])
    BY <1>2, <1>3, <1>4 DEF StopIsFinal
  <2>2. ledger'[j] = ledger[j]
    BY <1>1, <1>4
  <2>. QED  BY <2>1, <2>2
<1>5. CASE j = Len(ledger) + 1
  BY <1>1, <1>3, <1>5 DEF Stopped
<1>. QED  BY <1>2, <1>4, <1>5

LEMMA FinalStep == Inv /\ StopInv /\ StopIsFinal /\ [Next]_vars => StopIsFinal'
<1> SUFFICES ASSUME Inv, StopInv, StopIsFinal, [Next]_vars PROVE StopIsFinal'
  OBVIOUS
<1>0. Log(ledger) /\ ~IsVerdict(Stop)
  BY DEF Inv, Shape, Typed, Log, Stop, IsVerdict, KindsJudged
<1>1. ASSUME judging # 0, NEW v, Conclude(v) PROVE StopIsFinal'
  BY <1>0, <1>1, AppendKeepsFinal DEF Conclude, StopInv
<1>2. ASSUME ledger' = ledger PROVE StopIsFinal'
  BY <1>2 DEF StopIsFinal
<1>3. CASE Leak
  BY <1>1, <1>3, JudgeAssumption DEF Leak
<1>4. CASE CallFailed
  BY <1>1, <1>4 DEF CallFailed
<1>5. CASE CombineCalls
  BY <1>1, <1>5 DEF CombineCalls
<1>6. CASE StopAtCeiling
  BY <1>0, <1>6, AppendKeepsFinal DEF StopAtCeiling
<1>7. CASE Begin \/ StartComparison \/ ReusedPass \/ Finish \/ CallAnswered \/ Dies
  BY <1>2, <1>7 DEF Begin, StartComparison, ReusedPass, Finish, CallAnswered, Dies
<1>8. ASSUME NEW kind \in KindsJudged, NEW c \in Pairs[kind], PairCompletes(kind, c)
      PROVE  StopIsFinal'
  BY <1>2, <1>8 DEF PairCompletes
<1>9. CASE UNCHANGED vars
  BY <1>2, <1>9 DEF vars
<1>. QED  BY <1>3, <1>4, <1>5, <1>6, <1>7, <1>8, <1>9 DEF Next, Progress

(* A stop at the ceiling is final for both passes of every later session   *)
(* (session.py, the check before a comparison).                            *)
THEOREM StopEndsJudging == Spec => []StopIsFinal
<1>1. Init => StopIsFinal
  BY DEF Init, StopIsFinal
<1>. QED  BY <1>1, FinalStep, AlwaysInv, AlwaysSpend, PTL DEF Spec
=============================================================================
