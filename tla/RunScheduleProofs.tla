------------------------- MODULE RunScheduleProofs -------------------------
(***************************************************************************)
(* Proofs about RunSchedule, for every plan, ceiling, number of reruns,    *)
(* runs and faults, and about one attempt (module Trial). A run reads the  *)
(* ledger once, when it starts; CellInv, SpendInv, OrderInv, CountInv and  *)
(* TriedInv say why what it then keeps in memory agrees with the ledger    *)
(* until it ends, but for the one event it has not yet accounted for.      *)
(***************************************************************************)
EXTENDS RunSchedule, SequenceLemmas

Looping == {"loop", "attempt", "ended", "recorded"}
Orders == Seq([cell : Nat, infra : BOOLEAN])

(* What the events are; a stop is only recorded at the ceiling or above.   *)
EventTyped(ev) ==
  /\ ev.kind \in AttemptKinds => ev.cell \in 1..NCells /\ ev.cost \in Costs
  /\ ev.kind = "run_stopped_cost_ceiling" => ev.accumulated \in Ceiling..(MaxTotal - 1)
  /\ ev.kind = "executed_order" => ev.order \in Orders

Log(l) == l \in Seq({l[k] : k \in DOMAIN l})
Typed(l) == Log(l) /\ \A k \in 1..Len(l) : EventTyped(l[k])

Shape ==
  /\ Typed(ledger)
  /\ cell \in Nat \ {0} /\ pc \in Steps
  /\ pc \in {"attempt", "ended", "recorded"} => cell <= NCells
  /\ ended.charge \in Costs
  /\ order \in Orders /\ faults \in Nat
  /\ pc = "recorded" => Append(order, Entry(Last(ledger))) \in Orders

(* While a run loops, a cell with a trial is one that the run knew of, or  *)
(* one that it has passed, or the one whose trial it just recorded; and it *)
(* attempts none that has a trial.                                         *)
CellInv ==
  /\ pc \in Looping =>
       \A c \in DoneCells(ledger) :
         c \in done \/ c < cell \/ (c = cell /\ pc = "recorded" /\ ended.how = "recorded")
  /\ pc \in {"attempt", "ended"} => cell \notin DoneCells(ledger)
  /\ pc = "recorded" /\ ended.how # "recorded" => cell \notin DoneCells(ledger)

(* A run's guard knows at least what the next run would start from, with   *)
(* the attempt that is on the ledger and not yet accounted for; and no     *)
(* attempt begins at the ceiling.                                          *)
SpendInv ==
  /\ accumulated \in 0..(MaxTotal - 1)
  /\ PriorSpend(ledger) < MaxTotal
  /\ pc \in {"loop", "attempt", "ended"} => PriorSpend(ledger) <= accumulated
  /\ pc = "recorded" => PriorSpend(ledger) <= Charge(accumulated, ended.charge)
  /\ pc \in {"ended", "recorded"} => accumulated < Ceiling

(* The order in memory is complete but for the event just recorded.        *)
OrderInv ==
  faults = 0 =>
    /\ pc = "idle" => PriorOrder(ledger) \in Orders /\ Complete(PriorOrder(ledger), ledger)
    /\ pc \in {"loop", "attempt", "ended", "finally"} => Complete(order, ledger)
    /\ pc = "recorded" => Complete(Append(order, Entry(Last(ledger))), ledger)
    /\ pc = "exit" => PriorOrder(ledger) = order /\ Complete(order, ledger)

(* The cells that the events of these kinds are about.                     *)
CellsOf(l, kinds) == {l[k].cell : k \in OfKind(l, kinds)}

(* The sidecar counts the trials there are but for the one just recorded.  *)
(* A run that leaves the loop of its own accord has tried every cell.      *)
Terminal == {"finished", "stopped_cost_ceiling"}
Tried == CellsOf(ledger, AttemptKinds)
Heartbeats ==
  [state : {"absent", "running"} \cup Terminal, done : Nat, infra : Nat, spend : Nat]
EndsWithOrder == Len(ledger) # 0 /\ ledger[Len(ledger)].kind = "executed_order"

CountInv ==
  /\ hb \in Heartbeats
  /\ IsFiniteSet(DoneCells(ledger))
  /\ Cardinality(DoneCells(ledger)) \in hb.done..(hb.done + 1)
  /\ pc \in {"loop", "attempt", "ended"} => Cardinality(DoneCells(ledger)) = hb.done
  /\ pc = "recorded" => Cardinality(DoneCells(ledger)) =
                          hb.done + (IF ended.how = "recorded" THEN 1 ELSE 0)

TriedInv ==
  /\ done \subseteq Tried
  /\ pc \in Looping => \A c \in 1..(cell - 1) : c \in Tried
  /\ pc = "recorded" => cell \in Tried
  /\ pc \in {"finally", "exit"} /\ ~stopped /\ ~aborted /\ ~raising => 1..NCells \subseteq Tried

TerminalInv ==
  /\ pc = "exit" => EndsWithOrder
  /\ stopped => pc \in {"finally", "exit"} /\ accumulated >= Ceiling
  /\ hb.state \in Terminal => pc = "idle" /\ EndsWithOrder
  /\ hb.state = "finished" /\ ~aborted => 1..NCells \subseteq Tried
  /\ hb.state = "stopped_cost_ceiling" => hb.spend >= Ceiling

Inv ==
  /\ Shape /\ CellInv /\ OneTrialPerCell
  /\ SpendInv /\ StopIsFinal /\ OrderInv
  /\ CountInv /\ TriedInv /\ TerminalInv

-----------------------------------------------------------------------------
(* The ledger after an append: what it was, and the event at its end.      *)
LEMMA Appended ==
  ASSUME NEW l, Log(l), NEW e
  PROVE  LET t == Append(l, e)
         IN  /\ Log(t) /\ Len(l) \in Nat /\ Len(t) = Len(l) + 1
             /\ DOMAIN l = 1..Len(l) /\ DOMAIN t = 1..(Len(l) + 1)
             /\ \A k \in 1..Len(l) : t[k] = l[k]
             /\ t[Len(l) + 1] = e
<1> DEFINE t == Append(l, e)
<1>1. /\ t \in Seq({t[k] : k \in DOMAIN t}) /\ Len(t) = Len(l) + 1 /\ Len(l) \in Nat
      /\ \A k \in 1..Len(l) : t[k] = l[k]
      /\ t[Len(l) + 1] = e
  BY AppendOwn DEF Log
<1>. HIDE DEF t
<1>2. /\ Log(t) /\ Len(l) \in Nat /\ Len(t) = Len(l) + 1
      /\ DOMAIN l = 1..Len(l) /\ DOMAIN t = 1..(Len(l) + 1)
      /\ \A k \in 1..Len(l) : t[k] = l[k]
      /\ t[Len(l) + 1] = e
  BY <1>1 DEF Log
<1>. QED  BY <1>2 DEF t

(* The positions of an event's kinds are one more.                         *)
NewAt(l, e, kinds) == IF e.kind \in kinds THEN {Len(l) + 1} ELSE {}

LEMMA KindsAppended ==
  ASSUME NEW l, Log(l), NEW e, NEW kinds
  PROVE  OfKind(Append(l, e), kinds) = OfKind(l, kinds) \cup NewAt(l, e, kinds)
<1>1. PICK t : t = Append(l, e)
  OBVIOUS
<1>2. /\ Len(l) \in Nat /\ DOMAIN l = 1..Len(l) /\ DOMAIN t = 1..(Len(l) + 1)
      /\ \A k \in 1..Len(l) : t[k] = l[k]
      /\ t[Len(l) + 1] = e
  BY <1>1, Appended
<1>3. OfKind(l, kinds) \subseteq 1..Len(l) /\ OfKind(t, kinds) \subseteq 1..(Len(l) + 1)
  BY <1>2 DEF OfKind
<1>4. \A k \in 1..(Len(l) + 1) : k \in 1..Len(l) \/ k = Len(l) + 1
  BY <1>2
<1>5. \A k \in 1..Len(l) : k \in OfKind(t, kinds) <=> k \in OfKind(l, kinds)
  BY <1>2 DEF OfKind
<1>6. Len(l) + 1 \in OfKind(t, kinds) <=> e.kind \in kinds
  BY <1>2 DEF OfKind
<1>7. OfKind(t, kinds) = OfKind(l, kinds) \cup NewAt(l, e, kinds)
  BY <1>3, <1>4, <1>5, <1>6 DEF NewAt
<1>. QED  BY <1>1, <1>7

LEMMA KindsWithin ==
  ASSUME NEW l, Log(l), NEW kinds
  PROVE  OfKind(l, kinds) \subseteq 1..Len(l) /\ Len(l) \in Nat /\ IsFiniteSet(OfKind(l, kinds))
<1>1. OfKind(l, kinds) \subseteq 1..Len(l) /\ Len(l) \in Nat
  BY DEF OfKind, Log
<1>2. IsFiniteSet(1..Len(l))
  BY <1>1, FS_Interval
<1>. QED  BY <1>1, <1>2, FS_Subset

LEMMA TypedAfterAppend ==
  ASSUME NEW l, Typed(l), NEW e, EventTyped(e)
  PROVE  Typed(Append(l, e))
<1>1. PICK t : t = Append(l, e)
  OBVIOUS
<1>0. Log(l) /\ \A k \in 1..Len(l) : EventTyped(l[k])
  BY DEF Typed
<1>2. /\ Log(t) /\ Len(t) = Len(l) + 1 /\ Len(l) \in Nat
      /\ \A k \in 1..Len(l) : t[k] = l[k]
      /\ t[Len(l) + 1] = e
  BY <1>0, <1>1, Appended
<1>3. \A k \in 1..Len(t) : k \in 1..Len(l) \/ k = Len(l) + 1
  BY <1>2
<1>4. Typed(t)
  BY <1>0, <1>2, <1>3 DEF Typed
<1>. QED  BY <1>1, <1>4

LEMMA CellsAppended ==
  ASSUME NEW l, Log(l), NEW e, NEW kinds
  PROVE  CellsOf(Append(l, e), kinds) =
           CellsOf(l, kinds) \cup (IF e.kind \in kinds THEN {e.cell} ELSE {})
<1>1. PICK t : t = Append(l, e)
  OBVIOUS
<1>2. (\A k \in 1..Len(l) : t[k] = l[k]) /\ t[Len(l) + 1] = e
  BY <1>1, Appended
<1>3. OfKind(l, kinds) \subseteq 1..Len(l) /\ OfKind(t, kinds) = OfKind(l, kinds) \cup NewAt(l, e, kinds)
  BY <1>1, KindsAppended, KindsWithin
<1>4. \A k \in OfKind(l, kinds) : t[k] = l[k]
  BY <1>2, <1>3
<1>5. CellsOf(t, kinds) = CellsOf(l, kinds) \cup (IF e.kind \in kinds THEN {e.cell} ELSE {})
  BY <1>2, <1>3, <1>4 DEF CellsOf, NewAt
<1>. QED  BY <1>1, <1>5

(* A trial's event makes its cell done, and no other event does.           *)
LEMMA DoneAfterAppend ==
  ASSUME NEW l, Log(l), NEW e
  PROVE  DoneCells(Append(l, e)) = DoneCells(l) \cup (IF e.kind = "trial" THEN {e.cell} ELSE {})
<1> DEFINE K == {"trial"}
<1>1. CellsOf(Append(l, e), K) = CellsOf(l, K) \cup (IF e.kind \in K THEN {e.cell} ELSE {})
  <2>. HIDE DEF K
  <2>. QED  BY CellsAppended
<1>. QED  BY <1>1 DEF DoneCells, CellsOf

(* A ledger on which no cell has two trials stays one if the event         *)
(* appended is no trial, or the first of its cell.                         *)
LEMMA AppendKeepsOne ==
  ASSUME Shape, OneTrialPerCell, NEW e,
         ledger' = Append(ledger, e),
         e.kind = "trial" => e.cell \notin DoneCells(ledger)
  PROVE  OneTrialPerCell'
<1>1. /\ Len(ledger') = Len(ledger) + 1 /\ Len(ledger) \in Nat
      /\ \A k \in 1..Len(ledger) : ledger'[k] = ledger[k]
      /\ ledger'[Len(ledger) + 1] = e
      /\ DOMAIN ledger = 1..Len(ledger)
  BY Appended DEF Shape, Typed
<1>2. \A k \in 1..Len(ledger) : ledger[k].kind = "trial" => ledger[k].cell \in DoneCells(ledger)
  BY <1>1 DEF DoneCells, OfKind
<1>3. \A j, k \in 1..(Len(ledger) + 1) :
        /\ ledger'[j].kind = "trial" /\ ledger'[k].kind = "trial"
        /\ ledger'[j].cell = ledger'[k].cell
        => j = k
  BY <1>1, <1>2 DEF OneTrialPerCell
<1>. QED  BY <1>1, <1>3 DEF OneTrialPerCell

-----------------------------------------------------------------------------
(* Spend: sums and the floor that a stop's snapshot puts under them.       *)
LEMMA LargestOf ==
  ASSUME NEW n \in Nat, NEW S \in SUBSET (0..n), S # {}
  PROVE  Max(S) \in S /\ \A x \in S : x <= Max(S)
<1> DEFINE T == {y \in 1..(n + 1) : y - 1 \in S}
<1>1. T \in SUBSET (1..(n + 1)) /\ T # {} /\ n + 1 \in Nat
  <2>1. \A x \in S : x + 1 \in T
    OBVIOUS
  <2>2. PICK x : x \in S
    OBVIOUS
  <2>3. x + 1 \in T
    BY <2>1, <2>2
  <2>. QED  BY <2>3
<1>2. PICK k \in T : \A j \in T : j <= k
  <2>. HIDE DEF T
  <2>. QED  BY <1>1, LastPosition
<1>3. PICK m \in S : k = m + 1
  BY <1>2
<1>4. \A x \in S : m >= x
  <2>1. \A x \in S : x + 1 \in T
    OBVIOUS
  <2>. QED  BY <1>2, <1>3, <2>1
<1>5. Max(S) \in S /\ \A x \in S : Max(S) >= x
  BY <1>4 DEF Max
<1>. QED  BY <1>5

LEMMA CostsCount ==
  ASSUME NEW ev, ev.cost \in Costs
  PROVE  CostOf(ev) \in 0..MaxCost
BY TrialAssumption DEF CostOf, Costs

LEMMA SumAppended ==
  ASSUME NEW l, Typed(l), NEW e, EventTyped(e), NEW kinds \in SUBSET AttemptKinds
  PROVE  /\ SumCosts(l, kinds) \in Nat
         /\ SumCosts(Append(l, e), kinds) =
              SumCosts(l, kinds) + (IF e.kind \in kinds THEN CostOf(e) ELSE 0)
<1> DEFINE t == Append(l, e)
           S == OfKind(l, kinds)
           U == OfKind(t, kinds)
           f == [k \in S |-> CostOf(l[k])]
           g == [k \in U |-> CostOf(t[k])]
<1>0. Log(l) /\ Typed(t) /\ Log(t)
  BY TypedAfterAppend DEF Typed
<1>1. /\ Len(l) \in Nat /\ Len(t) = Len(l) + 1
      /\ \A k \in 1..Len(l) : t[k] = l[k]
      /\ t[Len(l) + 1] = e
  <2>. HIDE DEF t
  <2>. QED  BY <1>0, Appended DEF t
<1>2. S \subseteq 1..Len(l) /\ IsFiniteSet(S) /\ U \subseteq 1..(Len(l) + 1)
  <2>1. S \subseteq 1..Len(l) /\ IsFiniteSet(S)
    BY <1>0, KindsWithin
  <2>2. U \subseteq 1..Len(t)
    <3>. HIDE DEF t
    <3>. QED  BY <1>0, KindsWithin
  <2>. QED  BY <1>1, <2>1, <2>2
<1>3. U = S \cup NewAt(l, e, kinds)
  BY <1>0, KindsAppended
<1>4. \A k \in S : CostOf(l[k]) \in Nat
  <2>1. \A k \in S : l[k].cost \in Costs
    BY <1>2 DEF OfKind, Typed, EventTyped
  <2>. QED  BY <2>1, CostsCount, TrialAssumption
<1>5. f \in [S -> Nat] /\ SumCosts(l, kinds) = SumFunction(f)
  BY <1>4 DEF SumCosts
<1>6. SumCosts(l, kinds) \in Nat
  <2>1. Numbers(f)
    BY <1>2, <1>5 DEF Numbers
  <2>. HIDE DEF f
  <2>. QED  BY <1>5, <2>1, SumIsNat
<1>7. CASE e.kind \notin kinds
  <2>1. U = S
    BY <1>3, <1>7 DEF NewAt
  <2>2. \A k \in S : t[k] = l[k]
    BY <1>1, <1>2
  <2>3. g = f
    <3>. HIDE DEF t, U, S
    <3>. QED  BY <2>1, <2>2
  <2>4. SumCosts(t, kinds) = SumFunction(g)
    BY DEF SumCosts
  <2>. HIDE DEF f, g, t
  <2>5. SumCosts(t, kinds) = SumCosts(l, kinds) + 0
    BY <1>5, <1>6, <2>3, <2>4
  <2>. QED  BY <1>6, <1>7, <2>5 DEF t
<1>8. CASE e.kind \in kinds
  <2> DEFINE x == Len(l) + 1
  <2>1. U = S \cup {x} /\ x \notin S
    BY <1>1, <1>2, <1>3, <1>8 DEF NewAt
  <2>2. \A k \in S : g[k] = f[k]
    <3>1. \A k \in S : t[k] = l[k] /\ k \in U
      BY <1>1, <1>2, <2>1
    <3>. HIDE DEF t, U, S
    <3>. QED  BY <3>1
  <2>3. g[x] = CostOf(e) /\ CostOf(e) \in Nat
    <3>1. x \in U /\ t[x] = e
      BY <1>1, <2>1
    <3>2. CostOf(e) \in Nat
      BY <1>8, CostsCount, TrialAssumption DEF EventTyped
    <3>. HIDE DEF t, U, x
    <3>. QED  BY <3>1, <3>2
  <2>4. g \in [U -> Nat]
    <3>1. \A k \in U : g[k] \in Nat
      <4>1. \A k \in S : g[k] \in Nat
        <5>. HIDE DEF g, S
        <5>. QED  BY <1>5, <2>2
      <4>. HIDE DEF g, S, U, x
      <4>. QED  BY <2>1, <2>3, <4>1
    <3>2. g = [k \in U |-> g[k]]
      OBVIOUS
    <3>. HIDE DEF g, S, U, x
    <3>. QED  BY <3>1, <3>2
  <2>5. SumCosts(t, kinds) = SumFunction(g)
    BY DEF SumCosts
  <2>6. SumFunction(g) = SumFunction(f) + g[x]
    <3>1. DOMAIN f = S
      OBVIOUS
    <3>. HIDE DEF f, g, S, U, x
    <3>2. Numbers(f) /\ OneMore(g, f, x)
      BY <1>2, <1>5, <2>1, <2>2, <2>4, <3>1 DEF Numbers, OneMore
    <3>. QED  BY <3>2, SumAdds
  <2>. HIDE DEF f, g, t, x
  <2>7. SumCosts(t, kinds) = SumCosts(l, kinds) + CostOf(e)
    BY <1>5, <2>3, <2>5, <2>6
  <2>. QED  BY <1>6, <1>8, <2>7 DEF t
<1>. QED  BY <1>7, <1>8

LEMMA FloorIs ==
  ASSUME NEW l, Typed(l), NEW spend \in Nat
  PROVE  /\ Floored(l, spend) \in Nat /\ spend <= Floored(l, spend)
         /\ \A k \in Stops(l) : l[k].accumulated \in Ceiling..Floored(l, spend)
         /\ \/ Floored(l, spend) = spend
            \/ \E k \in Stops(l) : Floored(l, spend) = l[k].accumulated
<1> DEFINE S == {spend} \cup {l[k].accumulated : k \in Stops(l)}
           F == Max(S)
<1>1. \A k \in Stops(l) : l[k].accumulated \in Ceiling..(MaxTotal - 1)
  <2>1. Stops(l) \subseteq 1..Len(l)
    BY KindsWithin DEF Stops, Typed
  <2>2. \A k \in Stops(l) : l[k].kind = "run_stopped_cost_ceiling"
    BY DEF Stops, OfKind
  <2>. QED  BY <2>1, <2>2 DEF Typed, EventTyped
<1>2. MaxTotal \in Nat /\ Ceiling \in Nat
  BY RunAssumption, TrialAssumption DEF MaxTotal
<1>3. S \in SUBSET (0..(spend + MaxTotal)) /\ spend \in S
  BY <1>1, <1>2
<1>4. F \in S /\ \A x \in S : x <= F
  <2>1. S # {} /\ spend + MaxTotal \in Nat
    BY <1>2, <1>3
  <2>. HIDE DEF S
  <2>. QED  BY <1>3, <2>1, LargestOf
<1>5. F \in Nat
  <2>. HIDE DEF S, F
  <2>. QED  BY <1>2, <1>3, <1>4
<1>6. Floored(l, spend) = F
  BY DEF Floored
<1>. HIDE DEF F
<1>. QED  BY <1>1, <1>2, <1>4, <1>5, <1>6

(* An event adds its cost to what a run would start from, or is a stop     *)
(* whose snapshot it then starts from.                                     *)
LEMMA PriorSpendAppended ==
  ASSUME NEW l, Typed(l), NEW e, EventTyped(e)
  PROVE  LET t == Append(l, e)
         IN  /\ PriorSpend(l) \in Nat /\ PriorSpend(t) \in Nat
             /\ \/ PriorSpend(t) <= PriorSpend(l)
                \/ e.kind \in AttemptKinds /\ PriorSpend(t) <= PriorSpend(l) + CostOf(e)
                \/ e.kind = "run_stopped_cost_ceiling" /\ PriorSpend(t) = e.accumulated
<1> DEFINE t == Append(l, e)
<1>0. Log(l) /\ Typed(t)
  BY TypedAfterAppend DEF Typed
<1>1. Len(l) \in Nat /\ (\A k \in 1..Len(l) : t[k] = l[k]) /\ t[Len(l) + 1] = e
  BY <1>0, Appended
<1>2. /\ SumCosts(l, AttemptKinds) \in Nat
      /\ SumCosts(t, AttemptKinds) =
           SumCosts(l, AttemptKinds) + (IF e.kind \in AttemptKinds THEN CostOf(e) ELSE 0)
  BY SumAppended
<1>3. e.kind \in AttemptKinds => CostOf(e) \in Nat
  BY CostsCount, TrialAssumption DEF EventTyped
<1>4. Stops(l) \subseteq 1..Len(l) /\ Stops(t) \subseteq Stops(l) \cup {Len(l) + 1}
  <2>1. Stops(l) \subseteq 1..Len(l)
    BY <1>0, KindsWithin DEF Stops
  <2> DEFINE K == {"run_stopped_cost_ceiling"}
  <2>2. OfKind(t, K) = OfKind(l, K) \cup NewAt(l, e, K)
    <3>. HIDE DEF K
    <3>. QED  BY <1>0, KindsAppended
  <2>. QED  BY <2>1, <2>2 DEF Stops, NewAt
<1>5. \A k \in Stops(t) : t[k].kind = "run_stopped_cost_ceiling"
  BY DEF Stops, OfKind
<1>. HIDE DEF t
<1>6. SumCosts(t, AttemptKinds) \in Nat
  BY <1>2, <1>3
<1>7. /\ PriorSpend(l) \in Nat /\ SumCosts(l, AttemptKinds) <= PriorSpend(l)
      /\ \A k \in Stops(l) : l[k].accumulated <= PriorSpend(l)
  <2>1. \A k \in Stops(l) : l[k].accumulated \in Ceiling..PriorSpend(l)
    BY <1>2, FloorIs DEF PriorSpend
  <2>2. PriorSpend(l) \in Nat /\ SumCosts(l, AttemptKinds) <= PriorSpend(l)
    BY <1>2, FloorIs DEF PriorSpend
  <2>. QED  BY <2>1, <2>2
<1>8. PriorSpend(t) \in Nat
  BY <1>0, <1>6, FloorIs DEF PriorSpend
<1>9. \/ PriorSpend(t) = SumCosts(t, AttemptKinds)
      \/ \E k \in Stops(t) : PriorSpend(t) = t[k].accumulated
  BY <1>0, <1>6, FloorIs DEF PriorSpend
<1>10. CASE PriorSpend(t) = SumCosts(t, AttemptKinds)
  BY <1>2, <1>3, <1>7, <1>8, <1>10 DEF t
<1>11. ASSUME NEW k \in Stops(t), PriorSpend(t) = t[k].accumulated
       PROVE  \/ PriorSpend(t) <= PriorSpend(l)
              \/ e.kind = "run_stopped_cost_ceiling" /\ PriorSpend(t) = e.accumulated
  <2>1. CASE k \in Stops(l)
    BY <1>1, <1>4, <1>7, <1>11, <2>1
  <2>2. CASE k = Len(l) + 1
    BY <1>1, <1>5, <1>11, <2>2
  <2>. QED  BY <1>4, <2>1, <2>2
<1>. QED  BY <1>7, <1>8, <1>9, <1>10, <1>11 DEF t

-----------------------------------------------------------------------------
(* The realized order: the n-th attempt on the ledger is its n-th entry.   *)
LEMMA RankWithin ==
  ASSUME NEW l, Log(l), NEW k \in Attempted(l)
  PROVE  Rank(l, k) \in 1..Cardinality(Attempted(l))
<1> DEFINE A == Attempted(l)
           B == {j \in A : j <= k}
<1>1. IsFiniteSet(A) /\ k \in Int
  BY KindsWithin DEF Attempted
<1>2. B \subseteq A /\ k \in B
  BY <1>1
<1>3. IsFiniteSet(B) /\ Cardinality(B) <= Cardinality(A)
  <2>. HIDE DEF A, B
  <2>. QED  BY <1>1, <1>2, FS_Subset
<1>4. Cardinality(A) \in Nat /\ Cardinality(B) \in Nat /\ Cardinality(B) # 0
  <2>. HIDE DEF A, B
  <2>. QED  BY <1>1, <1>2, <1>3, FS_CardinalityType, FS_EmptySet
<1>5. Rank(l, k) = Cardinality(B)
  BY DEF Rank
<1>. HIDE DEF A, B
<1>. QED  BY <1>3, <1>4, <1>5 DEF A

LEMMA RankAppended ==
  ASSUME NEW l, Log(l), NEW e, NEW k \in 1..Len(l)
  PROVE  Rank(Append(l, e), k) = Rank(l, k)
<1> DEFINE t == Append(l, e)
<1>1. /\ Attempted(t) = Attempted(l) \cup NewAt(l, e, AttemptKinds)
      /\ Attempted(l) \subseteq 1..Len(l) /\ Len(l) \in Nat
  BY KindsAppended, KindsWithin DEF Attempted
<1>2. {j \in Attempted(t) : j <= k} = {j \in Attempted(l) : j <= k}
  BY <1>1 DEF NewAt
<1>. QED  BY <1>2 DEF Rank

LEMMA CompleteAfterOther ==
  ASSUME NEW l, Log(l), NEW e, e.kind \notin AttemptKinds, NEW o, Complete(o, l)
  PROVE  Complete(o, Append(l, e))
<1> DEFINE t == Append(l, e)
<1>1. Attempted(t) = Attempted(l) /\ Attempted(l) \subseteq 1..Len(l)
  <2>1. Attempted(t) = Attempted(l) \cup NewAt(l, e, AttemptKinds)
    BY KindsAppended DEF Attempted
  <2>2. Attempted(l) \subseteq 1..Len(l)
    BY KindsWithin DEF Attempted
  <2>. QED  BY <2>1, <2>2 DEF NewAt
<1>2. \A k \in 1..Len(l) : t[k] = l[k]
  BY Appended
<1>3. \A k \in 1..Len(l) : Rank(t, k) = Rank(l, k)
  BY RankAppended
<1>. HIDE DEF t
<1>4. Complete(o, t)
  BY <1>1, <1>2, <1>3 DEF Complete
<1>. QED  BY <1>4 DEF t

LEMMA CompleteAfterAttempt ==
  ASSUME NEW l, Typed(l), NEW e, EventTyped(e), e.kind \in AttemptKinds,
         NEW o \in Orders, Complete(o, l)
  PROVE  Append(o, Entry(e)) \in Orders /\ Complete(Append(o, Entry(e)), Append(l, e))
<1> DEFINE t == Append(l, e)
           p == Append(o, Entry(e))
           n == Len(l) + 1
           A == Attempted(l)
<1>0. Log(l) /\ Log(t)
  BY TypedAfterAppend DEF Typed
<1>1. Attempted(t) = A \cup {n} /\ A \subseteq 1..Len(l) /\ IsFiniteSet(A) /\ Len(l) \in Nat
  BY <1>0, KindsAppended, KindsWithin DEF Attempted, NewAt
<1>2. (\A k \in 1..Len(l) : t[k] = l[k]) /\ t[n] = e
  BY <1>0, Appended
<1>3. \A k \in 1..Len(l) : Rank(t, k) = Rank(l, k)
  BY <1>0, RankAppended
<1>4. Entry(e) \in [cell : Nat, infra : BOOLEAN]
  BY RunAssumption DEF Entry, EventTyped
<1>5. /\ p \in Orders /\ Len(p) = Len(o) + 1 /\ Len(o) \in Nat
      /\ \A k \in 1..Len(o) : p[k] = o[k]
      /\ p[Len(o) + 1] = Entry(e)
  <2>. HIDE DEF Entry
  <2>. QED  BY <1>4 DEF Orders
<1>6. Len(o) = Cardinality(A) /\ \A k \in A : o[Rank(l, k)] = Entry(l[k])
  BY DEF Complete
<1>. HIDE DEF t, p
<1>7. Cardinality(Attempted(t)) = Len(o) + 1
  <2>1. n \notin A
    BY <1>1
  <2>2. Cardinality(A \cup {n}) = Cardinality(A) + 1
    <3>. HIDE DEF A, n
    <3>. QED  BY <1>1, <2>1, FS_AddElement
  <2>. QED  BY <1>1, <1>6, <2>2
<1>8. ASSUME NEW k \in A PROVE p[Rank(t, k)] = Entry(t[k])
  <2>1. Rank(l, k) \in 1..Len(o)
    BY <1>0, <1>6, RankWithin
  <2>2. k \in 1..Len(l) /\ Rank(t, k) = Rank(l, k) /\ t[k] = l[k]
    BY <1>1, <1>2, <1>3
  <2>3. p[Rank(l, k)] = Entry(l[k])
    BY <1>5, <1>6, <2>1
  <2>. QED  BY <2>2, <2>3
<1>9. p[Rank(t, n)] = Entry(t[n])
  <2>1. \A j \in Attempted(t) : j <= n
    BY <1>1
  <2>2. {j \in Attempted(t) : j <= n} = Attempted(t)
    BY <2>1
  <2>3. Rank(t, n) = Len(o) + 1
    BY <1>7, <2>2 DEF Rank
  <2>. QED  BY <1>2, <1>5, <2>3
<1>10. Complete(p, t)
  <2>1. Len(p) = Cardinality(Attempted(t))
    BY <1>5, <1>7
  <2>2. \A k \in Attempted(t) : p[Rank(t, k)] = Entry(t[k])
    <3>. HIDE DEF A, n
    <3>. QED  BY <1>1, <1>8, <1>9
  <2>. QED  BY <2>1, <2>2 DEF Complete
<1>. QED  BY <1>5, <1>10 DEF t, p

(* The order that a run's finally records is the one the next run reads.   *)
LEMMA OrderRecorded ==
  ASSUME NEW l, Log(l), NEW o
  PROVE  PriorOrder(Append(l, ExecutedOrder(o))) = o
<1> DEFINE e == ExecutedOrder(o)
           t == Append(l, e)
           K == {"executed_order"}
           S == OfKind(t, K)
           n == Len(l) + 1
<1>1. e.kind \in K /\ e.order = o
  BY DEF ExecutedOrder
<1>2. /\ Len(l) \in Nat /\ OfKind(l, K) \subseteq 1..Len(l)
      /\ S = OfKind(l, K) \cup NewAt(l, e, K)
  <2>. HIDE DEF K, e
  <2>. QED  BY KindsAppended, KindsWithin
<1>3. S \in SUBSET (0..n) /\ n \in S /\ n \in Nat
  <2>. HIDE DEF K, e, S
  <2>. QED  BY <1>1, <1>2 DEF NewAt
<1>4. Max(S) = n
  <2>. HIDE DEF S, n
  <2>1. Max(S) \in S /\ \A x \in S : x <= Max(S)
    BY <1>3, LargestOf
  <2>2. Max(S) \in 0..n /\ n <= Max(S)
    BY <1>3, <2>1
  <2>. QED  BY <1>3, <2>2
<1>5. t[n] = e
  <2>. HIDE DEF e
  <2>. QED  BY Appended
<1>. HIDE DEF e, t
<1>6. PriorOrder(t) = t[Max(S)].order
  BY <1>3 DEF PriorOrder
<1>. HIDE DEF S, n
<1>7. PriorOrder(t) = o
  BY <1>1, <1>4, <1>5, <1>6
<1>. QED  BY <1>7 DEF t, e

-----------------------------------------------------------------------------
(* Steps keep the types. An attempt ends with a cost or with none.         *)
LEMMA ChargesAreCosts == \A r \in Attempts \cup {NotEnded} : r.charge \in Costs
<1>1. ASSUME NEW e \in Environments PROVE RunTrial(e).charge \in Costs
  <2>1. Null \in Costs /\ e.metered \in Costs /\ e.self \in Costs
    BY <1>1 DEF Costs, Environments
  <2>2. \A how, x : Ended(how, x).charge = x
    BY DEF Ended
  <2>3. MeteredCost(e) \in Costs /\ SelfReported(e) \in Costs
    BY <2>1 DEF MeteredCost, SelfReported
  <2>4. EnforcementCost(SelfReported(e), MeteredCost(e)) \in Costs /\ TrackedSpend(e) \in Costs
    BY <2>3 DEF EnforcementCost, TrackedSpend
  <2>5. RecordEnds(e).charge \in Costs
    BY <2>2, <2>4 DEF RecordEnds
  <2>6. CaptureEnds(e).charge \in Costs
    BY <2>1, <2>2, <2>4, <2>5 DEF CaptureEnds
  <2>. QED  BY <2>1, <2>2, <2>3, <2>4, <2>5, <2>6 DEF RunTrial
<1>2. NotEnded.charge \in Costs
  BY DEF NotEnded, Ended, Costs
<1>. QED  BY <1>1, <1>2, RunAssumption

(* What is appended: an attempt's event is a trial's exactly if it was     *)
(* recorded, and costs no more than the guard is charged.                  *)
LEMMA EventOfEnded ==
  ASSUME Shape, pc = "ended"
  PROVE  /\ EventTyped(EventOf(ended)) /\ EventOf(ended).kind \in AttemptKinds
         /\ EventOf(ended).kind = "trial" <=> ended.how = "recorded"
         /\ EventOf(ended).cell = cell
         /\ accumulated \in Nat => Charge(accumulated, ended.charge) \in Nat
         /\ accumulated \in Nat =>
              accumulated + CostOf(EventOf(ended)) <= Charge(accumulated, ended.charge)
<1>1. /\ EventOf(ended).kind \in AttemptKinds
      /\ EventOf(ended).kind = "trial" <=> ended.how = "recorded"
      /\ EventOf(ended).cell = cell
      /\ EventOf(ended).cost \in {ended.charge, Null}
  BY DEF EventOf, TrialEvent, TrialInfraFailed, AttemptKinds
<1>2. cell \in 1..NCells /\ ended.charge \in Costs /\ Null \in Costs
  BY RunAssumption DEF Shape, Costs
<1>3. EventTyped(EventOf(ended))
  BY <1>1, <1>2 DEF EventTyped, AttemptKinds
<1>4. accumulated \in Nat => Charge(accumulated, ended.charge) \in Nat
  BY <1>2, TrialAssumption DEF Charge, Costs
<1>5. accumulated \in Nat =>
        accumulated + CostOf(EventOf(ended)) <= Charge(accumulated, ended.charge)
  BY <1>1, <1>2, TrialAssumption DEF Charge, CostOf, Costs
<1>. QED  BY <1>1, <1>3, <1>4, <1>5

LEMMA OtherEventsTyped ==
  /\ \A n \in Ceiling..(MaxTotal - 1) : EventTyped(CeilingStop(n))
  /\ \A o \in Orders : EventTyped(ExecutedOrder(o))
  /\ \A n : CeilingStop(n).kind \notin AttemptKinds
  /\ \A o : ExecutedOrder(o).kind \notin AttemptKinds
BY DEF EventTyped, CeilingStop, ExecutedOrder, AttemptKinds

LEMMA InitShape == Init => Shape
<1> SUFFICES ASSUME Init PROVE Shape
  OBVIOUS
<1>1. Typed(ledger)
  BY EmptyOwn DEF Init, Typed, Log
<1>2. order \in Orders
  BY DEF Init, Orders
<1>3. ended.charge \in Costs
  BY ChargesAreCosts DEF Init
<1>. QED  BY <1>1, <1>2, <1>3 DEF Init, Shape, Steps

LEMMA ShapeStep == Inv /\ [Next]_vars => Shape'
<1> SUFFICES ASSUME Inv, [Next]_vars PROVE Shape'
  OBVIOUS
<1>0. /\ Typed(ledger) /\ cell \in Nat \ {0} /\ pc \in Steps /\ order \in Orders /\ faults \in Nat
      /\ pc \in {"attempt", "ended", "recorded"} => cell <= NCells
      /\ ended.charge \in Costs /\ accumulated \in 0..(MaxTotal - 1)
      /\ <<>> \in Orders /\ NotEnded.charge \in Costs /\ NCells \in Nat
  BY ChargesAreCosts, RunAssumption DEF Inv, Shape, SpendInv, Orders
<1>1. CASE StartRun
  <2>1. PriorOrder(ledger) \in Orders
    <3> DEFINE K == {"executed_order"}
               S == OfKind(ledger, K)
    <3>1. S \subseteq 1..Len(ledger) /\ Len(ledger) \in Nat /\ \A k \in S : ledger[k].kind = "executed_order"
      <4>1. S \subseteq 1..Len(ledger) /\ Len(ledger) \in Nat
        <5>. HIDE DEF K
        <5>. QED  BY <1>0, KindsWithin DEF Typed
      <4>. QED  BY <4>1 DEF OfKind
    <3>2. \A k \in S : ledger[k].order \in Orders
      BY <1>0, <3>1 DEF Typed, EventTyped
    <3>3. S # {} => Max(S) \in S
      <4>1. S \in SUBSET (0..Len(ledger))
        BY <3>1
      <4>. HIDE DEF S
      <4>. QED  BY <3>1, <4>1, LargestOf
    <3>. QED  BY <1>0, <3>2, <3>3 DEF PriorOrder
  <2>. QED  BY <1>0, <1>1, <2>1 DEF StartRun, Shape, Steps
<1>2. CASE PassOver
  BY <1>0, <1>2 DEF PassOver, Shape, Steps
<1>3. CASE StopAtCeiling
  <2>1. Typed(ledger')
    <3>1. accumulated \in Ceiling..(MaxTotal - 1)
      BY <1>0, <1>3, RunAssumption DEF StopAtCeiling, WouldExceed
    <3>. QED  BY <1>0, <1>3, <3>1, OtherEventsTyped, TypedAfterAppend DEF StopAtCeiling
  <2>. QED  BY <1>0, <1>3, <2>1 DEF StopAtCeiling, Shape, Steps
<1>4. CASE SkipUnschedulable
  <2>1. Ended("not_started", Null).charge \in Costs
    BY DEF Ended, Costs
  <2>. QED  BY <1>0, <1>4, <2>1 DEF SkipUnschedulable, AtCell, Shape, Steps
<1>5. CASE BeginCell
  BY <1>0, <1>5 DEF BeginCell, AtCell, Shape, Steps
<1>6. CASE RunAttempt
  BY <1>0, <1>6, ChargesAreCosts DEF RunAttempt, Shape, Steps
<1>7. CASE RecordEnded
  <2>1. Typed(ledger')
    BY <1>0, <1>7, EventOfEnded, TypedAfterAppend DEF RecordEnded, Inv
  <2>2. Append(order, Entry(Last(ledger'))) \in Orders
    <3>1. Last(ledger') = EventOf(ended)
      BY <1>0, <1>7, Appended DEF RecordEnded, Last, Typed
    <3>2. Entry(EventOf(ended)) \in [cell : Nat, infra : BOOLEAN]
      BY <1>0, <1>7, EventOfEnded DEF Entry, RecordEnded, Inv
    <3>. HIDE DEF Entry
    <3>. QED  BY <1>0, <3>1, <3>2 DEF Orders
  <2>. QED  BY <1>0, <1>7, <2>1, <2>2 DEF RecordEnded, Shape, Steps
<1>8. CASE Account
  <2>1. order' \in Orders
    BY <1>8 DEF Account, Inv, Shape
  <2>. QED  BY <1>0, <1>8, <2>1 DEF Account, Shape, Steps
<1>9. CASE RecordOrder
  <2>1. Typed(ledger')
    BY <1>0, <1>9, OtherEventsTyped, TypedAfterAppend DEF RecordOrder
  <2>. QED  BY <1>0, <1>9, <2>1 DEF RecordOrder, Shape, Steps
<1>10. CASE Exit \/ Crash
  BY <1>0, <1>10 DEF Exit, Crash, Gone, Shape, Steps
<1>11. CASE Interrupt
  BY <1>0, <1>11 DEF Interrupt, Shape, Steps
<1>12. CASE UNCHANGED vars
  BY <1>0, <1>12 DEF vars, Inv, Shape
<1>. QED
  BY <1>1, <1>2, <1>3, <1>4, <1>5, <1>6, <1>7, <1>8, <1>9, <1>10, <1>11, <1>12 DEF Next, Progress

-----------------------------------------------------------------------------
(* No cell gets a second trial.                                            *)
LEMMA OtherAppend ==
  ASSUME Inv, NEW e, e.kind # "trial", ledger' = Append(ledger, e)
  PROVE  DoneCells(ledger') = DoneCells(ledger) /\ OneTrialPerCell'
<1>1. DoneCells(ledger') = DoneCells(ledger)
  BY DoneAfterAppend DEF Inv, Shape, Typed
<1>. QED  BY <1>1, AppendKeepsOne DEF Inv

LEMMA CellsWithin ==
  ASSUME NEW l, Typed(l)
  PROVE  DoneCells(l) \subseteq 1..NCells /\ CellsOf(l, AttemptKinds) \subseteq 1..NCells
<1>1. DOMAIN l = 1..Len(l)
  BY DEF Typed, Log
<1>. QED  BY <1>1 DEF DoneCells, CellsOf, OfKind, Typed, EventTyped, AttemptKinds

LEMMA CellStep == Inv /\ [Next]_vars => CellInv' /\ OneTrialPerCell'
<1> SUFFICES ASSUME Inv, [Next]_vars PROVE CellInv' /\ OneTrialPerCell'
  OBVIOUS
<1>0. Shape /\ CellInv /\ OneTrialPerCell /\ DoneCells(ledger) \subseteq Nat
  <2>1. DoneCells(ledger) \subseteq 1..NCells
    BY CellsWithin DEF Inv, Shape
  <2>. QED  BY <2>1, RunAssumption DEF Inv
<1>1. CASE StartRun
  <2>1. ledger' = ledger /\ done' = DoneCells(ledger) /\ pc' = "loop" /\ cell' = 1
    BY <1>1 DEF StartRun
  <2>. QED  BY <1>0, <2>1 DEF Shape, CellInv, OneTrialPerCell, DoneCells, OfKind, Steps
<1>2. CASE PassOver
  <2>1. /\ ledger' = ledger /\ done' = done /\ ended' = ended /\ pc = "loop"
        /\ \/ pc' = "finally" /\ cell' = cell
           \/ pc' = pc /\ cell' = cell + 1 /\ cell \in done
    BY <1>2 DEF PassOver
  <2>2. DoneCells(ledger') = DoneCells(ledger)
    BY <2>1
  <2>. QED
    BY <1>0, <2>1, <2>2 DEF Shape, CellInv, OneTrialPerCell, Steps, Looping
<1>3. CASE StopAtCeiling
  <2>1. /\ ledger' = Append(ledger, CeilingStop(accumulated))
        /\ pc' = "finally" /\ cell' = cell
    BY <1>3 DEF StopAtCeiling
  <2>2. CeilingStop(accumulated).kind # "trial"
    BY DEF CeilingStop
  <2>3. DoneCells(ledger') = DoneCells(ledger) /\ OneTrialPerCell'
    BY <2>1, <2>2, OtherAppend
  <2>. QED  BY <1>0, <2>1, <2>3 DEF Shape, CellInv, DoneCells, OfKind, Steps, Looping
<1>4. CASE SkipUnschedulable \/ BeginCell
  <2>1. /\ ledger' = ledger /\ done' = done /\ cell' = cell
        /\ pc = "loop" /\ cell \notin done /\ pc' \in {"ended", "attempt"}
    BY <1>4 DEF SkipUnschedulable, BeginCell, AtCell
  <2>2. cell \notin DoneCells(ledger)
    BY <1>0, <2>1 DEF Shape, CellInv, Looping
  <2>. QED
    BY <1>0, <2>1, <2>2 DEF Shape, CellInv, OneTrialPerCell, DoneCells, OfKind, Steps, Looping
<1>5. CASE RunAttempt
  <2>1. /\ ledger' = ledger /\ done' = done /\ cell' = cell
        /\ pc = "attempt" /\ pc' = "ended"
    BY <1>5 DEF RunAttempt
  <2>. QED
    BY <1>0, <2>1 DEF Shape, CellInv, OneTrialPerCell, DoneCells, OfKind, Steps, Looping
<1>6. CASE RecordEnded
  <2>1. /\ ledger' = Append(ledger, EventOf(ended))
        /\ done' = done /\ cell' = cell /\ ended' = ended
        /\ pc = "ended" /\ pc' = "recorded"
    BY <1>6 DEF RecordEnded
  <2>2. cell \notin DoneCells(ledger)
    BY <1>0, <2>1 DEF CellInv
  <2>3. OneTrialPerCell'
    BY <1>0, <2>1, <2>2, EventOfEnded, AppendKeepsOne
  <2>4. DoneCells(ledger') =
          DoneCells(ledger) \cup (IF ended.how = "recorded" THEN {cell} ELSE {})
    BY <1>0, <2>1, EventOfEnded, DoneAfterAppend DEF Shape, Typed
  <2>. HIDE DEF DoneCells
  <2>. QED
    BY <1>0, <2>1, <2>2, <2>3, <2>4 DEF Shape, CellInv, Steps, Looping
<1>7. CASE Account
  <2>1. /\ ledger' = ledger /\ done' = done /\ pc = "recorded"
        /\ \/ pc' = "finally" /\ cell' = cell
           \/ ended.how = "infra" /\ pc' = "attempt" /\ cell' = cell
           \/ pc' = "loop" /\ cell' = cell + 1
    BY <1>7 DEF Account
  <2>2. DoneCells(ledger') = DoneCells(ledger)
    BY <2>1
  <2>. QED
    BY <1>0, <2>1, <2>2 DEF Shape, CellInv, OneTrialPerCell, Steps, Looping
<1>8. CASE RecordOrder
  <2>1. /\ ledger' = Append(ledger, ExecutedOrder(order))
        /\ pc' = "exit" /\ cell' = cell
    BY <1>8 DEF RecordOrder
  <2>2. ExecutedOrder(order).kind # "trial"
    BY DEF ExecutedOrder
  <2>3. DoneCells(ledger') = DoneCells(ledger) /\ OneTrialPerCell'
    BY <2>1, <2>2, OtherAppend
  <2>. QED  BY <1>0, <2>1, <2>3 DEF Shape, CellInv, DoneCells, OfKind, Steps, Looping
<1>9. CASE Exit \/ Crash
  <2>1. ledger' = ledger /\ pc' = "idle" /\ cell' = 1
    BY <1>9 DEF Exit, Crash, Gone
  <2>. QED
    BY <1>0, <2>1 DEF Shape, CellInv, OneTrialPerCell, DoneCells, OfKind, Steps, Looping
<1>10. CASE Interrupt
  <2>1. ledger' = ledger /\ pc' = "finally" /\ cell' = cell
    BY <1>10 DEF Interrupt
  <2>. QED
    BY <1>0, <2>1 DEF Shape, CellInv, OneTrialPerCell, DoneCells, OfKind, Steps, Looping
<1>11. CASE UNCHANGED vars
  BY <1>0, <1>11 DEF vars, CellInv, OneTrialPerCell, DoneCells, OfKind
<1>. QED
  BY <1>1, <1>2, <1>3, <1>4, <1>5, <1>6, <1>7, <1>8, <1>9, <1>10, <1>11 DEF Next, Progress

-----------------------------------------------------------------------------
(* Neither the guard nor the ledger goes an attempt's cost above the       *)
(* ceiling.                                                                *)
LEMMA SpendStep == Inv /\ [Next]_vars => SpendInv'
<1> SUFFICES ASSUME Inv, [Next]_vars PROVE SpendInv'
  OBVIOUS
<1>0. /\ Typed(ledger) /\ SpendInv /\ accumulated \in Nat /\ pc \in Steps
      /\ Ceiling \in Nat \ {0} /\ MaxCost \in Nat /\ MaxTotal = Ceiling + MaxCost
      /\ MaxTotal \in Nat
  BY RunAssumption, TrialAssumption DEF Inv, Shape, SpendInv, MaxTotal
<1>1. PriorSpend(ledger) \in Nat /\ PriorSpend(ledger) <= MaxTotal - 1
  <2>1. EventTyped(ExecutedOrder(order))
    BY OtherEventsTyped DEF Inv, Shape
  <2>2. PriorSpend(ledger) \in Nat
    BY <1>0, <2>1, PriorSpendAppended
  <2>. QED  BY <1>0, <2>2 DEF SpendInv
<1>2. CASE StartRun
  BY <1>0, <1>1, <1>2 DEF StartRun, SpendInv
<1>3. CASE PassOver
  BY <1>0, <1>3 DEF PassOver, SpendInv
<1>4. CASE StopAtCeiling
  <2> DEFINE e == CeilingStop(accumulated)
  <2>1. EventTyped(e) /\ e.kind \notin AttemptKinds /\ e.accumulated = accumulated
    <3>1. accumulated \in Ceiling..(MaxTotal - 1)
      BY <1>0, <1>4 DEF StopAtCeiling, WouldExceed, SpendInv
    <3>2. e.accumulated = accumulated
      BY DEF CeilingStop
    <3>. QED  BY <3>1, <3>2, OtherEventsTyped
  <2>2. ledger' = Append(ledger, e) /\ pc' = "finally" /\ accumulated' = accumulated
    BY <1>4 DEF StopAtCeiling
  <2>. HIDE DEF e
  <2>3. /\ PriorSpend(ledger') \in Nat
        /\ PriorSpend(ledger') <= PriorSpend(ledger) \/ PriorSpend(ledger') = accumulated
    BY <1>0, <2>1, <2>2, PriorSpendAppended
  <2>. QED  BY <1>0, <1>1, <2>2, <2>3 DEF SpendInv
<1>5. CASE SkipUnschedulable \/ BeginCell
  BY <1>0, <1>5 DEF SkipUnschedulable, BeginCell, AtCell, WouldExceed, SpendInv
<1>6. CASE RunAttempt
  BY <1>0, <1>6 DEF RunAttempt, WouldExceed, SpendInv
<1>7. CASE RecordEnded
  <2> DEFINE e == EventOf(ended)
  <2>1. /\ EventTyped(e) /\ e.kind \in AttemptKinds
        /\ Charge(accumulated, ended.charge) \in Nat
        /\ accumulated + CostOf(e) <= Charge(accumulated, ended.charge)
    BY <1>0, <1>7, EventOfEnded DEF RecordEnded, Inv
  <2>2. /\ ledger' = Append(ledger, e) /\ accumulated' = accumulated /\ ended' = ended
        /\ pc = "ended" /\ pc' = "recorded"
    BY <1>7 DEF RecordEnded
  <2>3. e.kind # "run_stopped_cost_ceiling"
    BY <2>1 DEF AttemptKinds
  <2>4. CostOf(e) \in 0..MaxCost
    BY <2>1, CostsCount DEF EventTyped
  <2>. HIDE DEF e
  <2>5. /\ PriorSpend(ledger') \in Nat
        /\ PriorSpend(ledger') <= PriorSpend(ledger) + CostOf(e)
    <3>1. /\ PriorSpend(ledger') \in Nat
          /\ \/ PriorSpend(ledger') <= PriorSpend(ledger)
             \/ PriorSpend(ledger') <= PriorSpend(ledger) + CostOf(e)
      BY <1>0, <2>1, <2>2, <2>3, PriorSpendAppended
    <3>. QED  BY <1>1, <2>4, <3>1
  <2>6. PriorSpend(ledger) <= accumulated /\ accumulated < Ceiling
    BY <1>0, <2>2 DEF SpendInv
  <2>7. PriorSpend(ledger') <= accumulated + CostOf(e)
    BY <1>0, <1>1, <2>4, <2>5, <2>6
  <2>8. PriorSpend(ledger') < MaxTotal
    BY <1>0, <2>4, <2>5, <2>6, <2>7
  <2>9. PriorSpend(ledger') <= Charge(accumulated, ended.charge)
    BY <1>0, <2>1, <2>4, <2>5, <2>7
  <2>10. Charge(accumulated, ended.charge)' = Charge(accumulated, ended.charge)
    BY <2>2 DEF Charge
  <2>. QED  BY <1>0, <2>2, <2>6, <2>8, <2>9, <2>10 DEF SpendInv
<1>8. CASE Account
  <2>1. /\ accumulated' = Charge(accumulated, ended.charge) /\ ledger' = ledger
        /\ pc = "recorded" /\ pc' \in {"finally", "attempt", "loop"}
    BY <1>8 DEF Account, GuardCharge
  <2>2. accumulated' \in 0..(MaxTotal - 1)
    <3>1. accumulated < Ceiling /\ ended.charge \in Costs
      BY <1>0, <2>1 DEF SpendInv, Inv, Shape
    <3>. QED  BY <1>0, <2>1, <3>1, TrialAssumption DEF Charge, Costs
  <2>3. PriorSpend(ledger) <= accumulated'
    BY <1>0, <2>1 DEF SpendInv
  <2>. QED  BY <1>0, <2>1, <2>2, <2>3 DEF SpendInv
<1>9. CASE RecordOrder
  <2> DEFINE e == ExecutedOrder(order)
  <2>1. EventTyped(e) /\ e.kind \notin AttemptKinds /\ e.kind = "executed_order"
    <3>1. order \in Orders
      BY DEF Inv, Shape
    <3>2. e.kind = "executed_order"
      BY DEF ExecutedOrder
    <3>. QED  BY <3>1, <3>2, OtherEventsTyped
  <2>2. ledger' = Append(ledger, e) /\ pc' = "exit" /\ accumulated' = accumulated
    BY <1>9 DEF RecordOrder
  <2>. HIDE DEF e
  <2>3. PriorSpend(ledger') \in Nat /\ PriorSpend(ledger') <= PriorSpend(ledger)
    BY <1>0, <2>1, <2>2, PriorSpendAppended
  <2>. QED  BY <1>0, <1>1, <2>2, <2>3 DEF SpendInv
<1>10. CASE Exit \/ Crash
  BY <1>0, <1>10 DEF Exit, Crash, Gone, SpendInv
<1>11. CASE Interrupt
  BY <1>0, <1>11 DEF Interrupt, SpendInv
<1>12. CASE UNCHANGED vars
  <2>1. UNCHANGED <<ledger, accumulated, pc, ended>>
    BY <1>12 DEF vars
  <2>. QED  BY <1>0, <2>1 DEF SpendInv, Charge
<1>. QED
  BY <1>2, <1>3, <1>4, <1>5, <1>6, <1>7, <1>8, <1>9, <1>10, <1>11, <1>12 DEF Next, Progress

-----------------------------------------------------------------------------
(* The order in memory and on the ledger is complete, if no run crashed.   *)
LEMMA OrderStep == Inv /\ [Next]_vars => OrderInv'
<1> SUFFICES ASSUME Inv, [Next]_vars, faults' = 0 PROVE OrderInv'
  BY DEF OrderInv
<1>0. /\ Typed(ledger) /\ Log(ledger) /\ OrderInv /\ pc \in Steps /\ order \in Orders /\ faults \in Nat
      /\ pc = "recorded" => Append(order, Entry(Last(ledger))) \in Orders
  BY DEF Inv, Shape, Typed
<1>1. CASE StartRun
  BY <1>0, <1>1 DEF StartRun, OrderInv
<1>2. CASE PassOver \/ SkipUnschedulable \/ BeginCell \/ RunAttempt
  BY <1>0, <1>2 DEF PassOver, SkipUnschedulable, BeginCell, RunAttempt, AtCell, OrderInv
<1>3. CASE StopAtCeiling
  <2>1. /\ ledger' = Append(ledger, CeilingStop(accumulated)) /\ pc' = "finally" /\ order' = order
        /\ faults' = faults /\ pc \in {"loop", "attempt"}
    BY <1>3 DEF StopAtCeiling, AtCell
  <2>2. Complete(order, ledger')
    BY <1>0, <2>1, OtherEventsTyped, CompleteAfterOther DEF OrderInv
  <2>. QED  BY <2>1, <2>2 DEF OrderInv
<1>4. CASE RecordEnded
  <2> DEFINE e == EventOf(ended)
  <2>1. EventTyped(e) /\ e.kind \in AttemptKinds
    BY <1>4, EventOfEnded DEF RecordEnded, Inv
  <2>2. /\ ledger' = Append(ledger, e) /\ pc = "ended" /\ pc' = "recorded" /\ order' = order
        /\ faults' = faults
    BY <1>4 DEF RecordEnded
  <2>. HIDE DEF e
  <2>3. Last(ledger') = e
    BY <1>0, <2>2, Appended DEF Last
  <2>4. Complete(Append(order, Entry(e)), ledger')
    <3>1. Complete(order, ledger)
      BY <1>0, <2>2 DEF OrderInv
    <3>2. Complete(Append(order, Entry(e)), Append(ledger, e))
      BY <1>0, <2>1, <3>1, CompleteAfterAttempt
    <3>. QED  BY <2>2, <3>2
  <2>5. Complete(Append(order', Entry(Last(ledger'))), ledger')
    BY <2>2, <2>3, <2>4
  <2>. QED  BY <2>2, <2>5 DEF OrderInv
<1>5. CASE Account
  <2>1. /\ order' = Append(order, Entry(Last(ledger))) /\ ledger' = ledger /\ faults' = faults
        /\ pc = "recorded" /\ pc' \in {"finally", "attempt", "loop"}
    BY <1>5 DEF Account
  <2>2. Complete(order', ledger')
    BY <1>0, <2>1 DEF OrderInv
  <2>. QED  BY <2>1, <2>2 DEF OrderInv
<1>6. CASE RecordOrder
  <2>1. /\ ledger' = Append(ledger, ExecutedOrder(order)) /\ pc = "finally" /\ pc' = "exit"
        /\ order' = order /\ faults' = faults
    BY <1>6 DEF RecordOrder
  <2>2. Complete(order, ledger')
    BY <1>0, <2>1, OtherEventsTyped, CompleteAfterOther DEF OrderInv
  <2>3. PriorOrder(ledger') = order
    BY <1>0, <2>1, OrderRecorded
  <2>. QED  BY <2>1, <2>2, <2>3 DEF OrderInv
<1>7. CASE Exit
  <2>1. pc = "exit" /\ pc' = "idle" /\ ledger' = ledger /\ faults' = faults
    BY <1>7 DEF Exit, Gone
  <2>. QED  BY <1>0, <2>1 DEF OrderInv
<1>8. CASE Crash \/ Interrupt
  BY <1>0, <1>8 DEF Crash, Interrupt
<1>9. CASE UNCHANGED vars
  BY <1>0, <1>9 DEF vars, OrderInv
<1>. QED
  BY <1>1, <1>2, <1>3, <1>4, <1>5, <1>6, <1>7, <1>8, <1>9 DEF Next, Progress

-----------------------------------------------------------------------------
(* The sidecar counts the trials of the ledger.                            *)
LEMMA SpendIsNat == Inv /\ [Next]_vars => accumulated \in Nat /\ accumulated' \in Nat
<1> SUFFICES ASSUME Inv, [Next]_vars PROVE accumulated \in Nat /\ accumulated' \in Nat
  OBVIOUS
<1>1. MaxTotal \in Nat /\ MaxTotal' = MaxTotal
  BY RunAssumption, TrialAssumption DEF MaxTotal
<1>2. accumulated' \in 0..(MaxTotal' - 1)
  BY SpendStep DEF SpendInv
<1>. QED  BY <1>1, <1>2 DEF Inv, SpendInv

LEMMA CountedHeartbeat ==
  ASSUME hb \in Heartbeats, accumulated' \in Nat, Account
  PROVE  /\ hb' \in Heartbeats /\ hb'.state = hb.state
         /\ hb'.done = hb.done + (IF ended.how = "recorded" THEN 1 ELSE 0)
<1> DEFINE counted == IF ended.how = "recorded" THEN CountDone(hb) ELSE CountInfra(hb)
<1>1. /\ counted \in Heartbeats /\ counted.state = hb.state
      /\ counted.done = hb.done + (IF ended.how = "recorded" THEN 1 ELSE 0)
  <2>1. CASE ended.how = "recorded"
    BY <2>1 DEF CountDone, Heartbeats
  <2>2. CASE ended.how # "recorded"
    BY <2>2 DEF CountInfra, Heartbeats
  <2>. QED  BY <2>1, <2>2
<1>2. hb' = counted \/ hb' = [counted EXCEPT !.spend = accumulated']
  BY DEF Account
<1>. HIDE DEF counted
<1>. QED  BY <1>1, <1>2 DEF Heartbeats

LEMMA CountStep == Inv /\ [Next]_vars => CountInv'
<1> SUFFICES ASSUME Inv, [Next]_vars PROVE CountInv'
  OBVIOUS
<1> DEFINE D == DoneCells(ledger)
<1>0. /\ Typed(ledger) /\ Log(ledger) /\ CountInv /\ pc \in Steps
      /\ accumulated' \in Nat
  BY SpendIsNat DEF Inv, Shape, Typed
<1>1. IsFiniteSet(D) /\ Cardinality(D) \in Nat
  BY <1>0, FS_CardinalityType DEF CountInv
<1>2. CASE StartRun
  <2>1. /\ ledger' = ledger /\ pc' = "loop"
        /\ hb' = [state |-> "running", done |-> Cardinality(D), infra |-> 0, spend |-> accumulated']
    BY <1>2 DEF StartRun
  <2>2. D' = D
    BY <2>1
  <2>. HIDE DEF D
  <2>. QED  BY <1>0, <1>1, <2>1, <2>2 DEF CountInv, Heartbeats, D
<1>3. CASE PassOver \/ SkipUnschedulable \/ BeginCell \/ RunAttempt
  <2>1. /\ ledger' = ledger /\ hb' = hb /\ pc \in {"loop", "attempt"}
        /\ pc' \in {"loop", "attempt", "ended", "finally"}
    BY <1>3 DEF PassOver, SkipUnschedulable, BeginCell, RunAttempt, AtCell
  <2>2. D' = D
    BY <2>1
  <2>. QED  BY <1>0, <1>1, <2>1, <2>2 DEF CountInv
<1>4. CASE StopAtCeiling \/ RecordOrder
  <2>1. /\ hb' = hb /\ pc' \in {"finally", "exit"}
        /\ \/ ledger' = Append(ledger, CeilingStop(accumulated))
           \/ ledger' = Append(ledger, ExecutedOrder(order))
    BY <1>4 DEF StopAtCeiling, RecordOrder
  <2>2. CeilingStop(accumulated).kind # "trial" /\ ExecutedOrder(order).kind # "trial"
    BY DEF CeilingStop, ExecutedOrder
  <2>3. D' = D
    BY <2>1, <2>2, OtherAppend
  <2>. HIDE DEF D
  <2>. QED  BY <1>0, <1>1, <2>1, <2>3 DEF CountInv, D
<1>5. CASE RecordEnded
  <2>1. /\ ledger' = Append(ledger, EventOf(ended)) /\ hb' = hb /\ ended' = ended
        /\ pc = "ended" /\ pc' = "recorded"
    BY <1>5 DEF RecordEnded
  <2>2. D' = D \cup (IF ended.how = "recorded" THEN {cell} ELSE {})
    BY <1>0, <2>1, EventOfEnded, DoneAfterAppend DEF Inv
  <2>3. cell \notin D
    BY <2>1 DEF Inv, CellInv
  <2>4. /\ IsFiniteSet(D \cup {cell})
        /\ Cardinality(D \cup {cell}) = Cardinality(D) + 1
    <3>. HIDE DEF D
    <3>. QED  BY <1>1, <2>3, FS_AddElement
  <2>5. Cardinality(D) = hb.done
    BY <1>0, <2>1 DEF CountInv
  <2>6. /\ IsFiniteSet(D')
        /\ Cardinality(D') = hb.done + (IF ended.how = "recorded" THEN 1 ELSE 0)
    <3>. HIDE DEF D
    <3>1. CASE ended.how = "recorded"
      BY <2>2, <2>4, <2>5, <3>1
    <3>2. CASE ended.how # "recorded"
      <4>1. D' = D
        BY <2>2, <3>2
      <4>. QED  BY <1>1, <2>5, <3>2, <4>1
    <3>. QED  BY <3>1, <3>2
  <2>. HIDE DEF D
  <2>. QED  BY <1>0, <1>1, <2>1, <2>6 DEF CountInv, D
<1>6. CASE Account
  <2>1. /\ ledger' = ledger /\ pc = "recorded" /\ pc' \in {"finally", "attempt", "loop"}
    BY <1>6 DEF Account
  <2>2. /\ hb' \in Heartbeats
        /\ hb'.done = hb.done + (IF ended.how = "recorded" THEN 1 ELSE 0)
    BY <1>0, <1>6, CountedHeartbeat DEF CountInv
  <2>3. D' = D
    BY <2>1
  <2>. QED  BY <1>0, <1>1, <2>1, <2>2, <2>3 DEF CountInv
<1>7. CASE Exit
  <2>1. /\ ledger' = ledger /\ pc' = "idle"
    BY <1>7 DEF Exit, Gone
  <2>2. /\ hb' \in Heartbeats
        /\ hb'.done = hb.done
    BY <1>0, <1>7, SpendIsNat DEF Exit, CountInv, Heartbeats, Terminal
  <2>3. D' = D
    BY <2>1
  <2>. QED  BY <1>0, <1>1, <2>1, <2>2, <2>3 DEF CountInv
<1>8. CASE Crash \/ Interrupt
  <2>1. ledger' = ledger /\ hb' = hb /\ pc' \in {"idle", "finally"}
    BY <1>8 DEF Crash, Interrupt, Gone
  <2>2. D' = D
    BY <2>1
  <2>. QED  BY <1>0, <1>1, <2>1, <2>2 DEF CountInv
<1>9. CASE UNCHANGED vars
  <2>1. UNCHANGED <<ledger, hb, pc, ended>>
    BY <1>9 DEF vars
  <2>2. D' = D
    BY <2>1
  <2>. QED  BY <1>0, <1>1, <2>1, <2>2 DEF CountInv
<1>. QED
  BY <1>2, <1>3, <1>4, <1>5, <1>6, <1>7, <1>8, <1>9 DEF Next, Progress

-----------------------------------------------------------------------------
(* A run that leaves the loop of its own accord has tried every cell.      *)
LEMMA TriedGrows ==
  ASSUME Inv, NEW e, ledger' = Append(ledger, e)
  PROVE  Tried' = Tried \cup (IF e.kind \in AttemptKinds THEN {e.cell} ELSE {})
<1>1. Log(ledger)
  BY DEF Inv, Shape, Typed
<1>. QED  BY <1>1, CellsAppended DEF Tried

LEMMA DoneWereTried ==
  ASSUME Inv
  PROVE  DoneCells(ledger) \subseteq Tried
BY DEF DoneCells, Tried, CellsOf, OfKind, AttemptKinds

LEMMA TriedStep == Inv /\ [Next]_vars => TriedInv'
<1> SUFFICES ASSUME Inv, [Next]_vars PROVE TriedInv'
  OBVIOUS
<1>0. TriedInv /\ cell \in Nat \ {0} /\ pc \in Steps /\ NCells \in Nat
  BY RunAssumption DEF Inv, Shape
<1>1. CASE StartRun
  <2>1. ledger' = ledger /\ done' = DoneCells(ledger) /\ pc' = "loop" /\ cell' = 1
    BY <1>1 DEF StartRun
  <2>2. Tried' = Tried
    BY <2>1 DEF Tried, CellsOf, OfKind
  <2>. QED  BY <2>1, <2>2, DoneWereTried DEF TriedInv
<1>2. CASE PassOver
  <2>1. /\ UNCHANGED <<ledger, done>> /\ pc = "loop"
        /\ \/ cell > NCells /\ pc' = "finally"
           \/ cell \in done /\ cell' = cell + 1 /\ pc' = "loop"
    BY <1>2 DEF PassOver
  <2>2. Tried' = Tried
    BY <2>1 DEF Tried, CellsOf, OfKind
  <2>3. \A c \in 1..(cell - 1) : c \in Tried
    BY <1>0, <2>1 DEF TriedInv, Looping
  <2>. HIDE DEF Tried
  <2>. QED  BY <1>0, <2>1, <2>2, <2>3 DEF TriedInv, Looping
<1>3. CASE StopAtCeiling
  <2>1. /\ ledger' = Append(ledger, CeilingStop(accumulated)) /\ pc' = "finally"
        /\ stopped' = TRUE /\ done' = done
    BY <1>3 DEF StopAtCeiling
  <2>2. Tried' = Tried
    BY <2>1, TriedGrows, OtherEventsTyped
  <2>. HIDE DEF Tried
  <2>. QED  BY <1>0, <2>1, <2>2 DEF TriedInv, Looping
<1>4. CASE SkipUnschedulable \/ BeginCell \/ RunAttempt
  <2>1. /\ UNCHANGED <<ledger, done, cell>> /\ pc \in Looping /\ pc' \in {"attempt", "ended"}
    BY <1>4 DEF SkipUnschedulable, BeginCell, RunAttempt, AtCell, Looping
  <2>2. Tried' = Tried
    BY <2>1 DEF Tried, CellsOf, OfKind
  <2>. HIDE DEF Tried
  <2>. QED  BY <1>0, <2>1, <2>2 DEF TriedInv, Looping
<1>5. CASE RecordEnded
  <2>1. /\ ledger' = Append(ledger, EventOf(ended)) /\ UNCHANGED <<done, cell>>
        /\ pc = "ended" /\ pc' = "recorded"
    BY <1>5 DEF RecordEnded
  <2>2. EventOf(ended).kind \in AttemptKinds /\ EventOf(ended).cell = cell
    BY <2>1, EventOfEnded DEF Inv
  <2>3. Tried' = Tried \cup {cell}
    BY <2>1, <2>2, TriedGrows
  <2>. HIDE DEF Tried
  <2>. QED  BY <1>0, <2>1, <2>3 DEF TriedInv, Looping
<1>6. CASE Account
  <2>1. /\ UNCHANGED <<ledger, done>> /\ pc = "recorded"
        /\ \/ pc' = "finally" /\ ended.how = "proxy_dead"
           \/ pc' = "attempt" /\ cell' = cell
           \/ pc' = "loop" /\ cell' = cell + 1
        /\ aborted' = (ended.how = "proxy_dead")
    BY <1>6 DEF Account
  <2>2. Tried' = Tried
    BY <2>1 DEF Tried, CellsOf, OfKind
  <2>3. cell \in Tried /\ \A c \in 1..(cell - 1) : c \in Tried
    BY <1>0, <2>1 DEF TriedInv, Looping
  <2>. HIDE DEF Tried
  <2>4. \A c \in 1..cell : c \in Tried
    <3>1. \A c \in 1..cell : c \in 1..(cell - 1) \/ c = cell
      BY <1>0
    <3>. QED  BY <2>3, <3>1
  <2>5. CASE pc' = "finally" /\ ended.how = "proxy_dead"
    BY <1>0, <2>1, <2>2, <2>5 DEF TriedInv, Looping
  <2>6. CASE pc' = "attempt" /\ cell' = cell
    BY <1>0, <2>1, <2>2, <2>3, <2>6 DEF TriedInv, Looping
  <2>7. CASE pc' = "loop" /\ cell' = cell + 1
    <3>1. cell' - 1 = cell
      BY <1>0, <2>7
    <3>. QED  BY <1>0, <2>1, <2>2, <2>4, <2>7, <3>1 DEF TriedInv, Looping
  <2>. QED  BY <2>1, <2>5, <2>6, <2>7
<1>7. CASE RecordOrder
  <2>1. /\ ledger' = Append(ledger, ExecutedOrder(order)) /\ pc = "finally" /\ pc' = "exit"
        /\ UNCHANGED <<done, stopped, aborted, raising>>
    BY <1>7 DEF RecordOrder
  <2>2. Tried' = Tried
    BY <2>1, TriedGrows, OtherEventsTyped
  <2>. HIDE DEF Tried
  <2>. QED  BY <1>0, <2>1, <2>2 DEF TriedInv, Looping
<1>8. CASE Exit \/ Crash
  <2>1. ledger' = ledger /\ pc' = "idle" /\ done' = {}
    BY <1>8 DEF Exit, Crash, Gone
  <2>. QED  BY <2>1 DEF TriedInv, Looping
<1>9. CASE Interrupt
  <2>1. UNCHANGED <<ledger, done>> /\ pc' = "finally" /\ raising' = TRUE
    BY <1>9 DEF Interrupt
  <2>2. Tried' = Tried
    BY <2>1 DEF Tried, CellsOf, OfKind
  <2>. HIDE DEF Tried
  <2>. QED  BY <1>0, <2>1, <2>2 DEF TriedInv, Looping
<1>10. CASE UNCHANGED vars
  <2>1. UNCHANGED <<ledger, done, pc, cell, stopped, aborted, raising>>
    BY <1>10 DEF vars
  <2>2. Tried' = Tried
    BY <2>1 DEF Tried, CellsOf, OfKind
  <2>. HIDE DEF Tried
  <2>. QED  BY <1>0, <2>1, <2>2 DEF TriedInv
<1>. QED
  BY <1>1, <1>2, <1>3, <1>4, <1>5, <1>6, <1>7, <1>8, <1>9, <1>10 DEF Next, Progress

(* A terminal heartbeat is left only by a run that ended in order.         *)
LEMMA TerminalStep == Inv /\ [Next]_vars => TerminalInv'
<1> SUFFICES ASSUME Inv, [Next]_vars PROVE TerminalInv'
  OBVIOUS
<1>0. /\ TerminalInv /\ TriedInv /\ pc \in Steps /\ Log(ledger)
      /\ hb \in Heartbeats /\ accumulated' \in Nat
  BY SpendIsNat DEF Inv, Shape, CountInv, Typed
<1>1. ledger' = ledger => Tried' = Tried /\ EndsWithOrder' = EndsWithOrder
  BY DEF Tried, CellsOf, OfKind, EndsWithOrder
<1>. HIDE DEF Tried, EndsWithOrder
<1>2. CASE StartRun
  <2>1. hb'.state = "running" /\ pc' = "loop" /\ stopped' = FALSE
    BY <1>2 DEF StartRun
  <2>. QED  BY <2>1 DEF TerminalInv, Terminal
<1>3. CASE PassOver \/ SkipUnschedulable \/ BeginCell \/ RunAttempt \/ Interrupt
  <2>1. /\ hb' = hb /\ stopped' = stopped /\ pc \in Looping /\ pc' \in Looping \cup {"finally"}
    BY <1>3 DEF PassOver, SkipUnschedulable, BeginCell, RunAttempt, Interrupt, AtCell, Looping
  <2>. QED  BY <1>0, <2>1 DEF TerminalInv, Terminal, Looping
<1>4. CASE StopAtCeiling
  <2>1. /\ hb' = hb /\ pc \in Looping /\ pc' = "finally" /\ accumulated' = accumulated
        /\ accumulated >= Ceiling
    BY <1>4 DEF StopAtCeiling, AtCell, WouldExceed, Looping
  <2>. QED  BY <1>0, <2>1 DEF TerminalInv, Terminal, Looping
<1>5. CASE RecordEnded
  <2>1. hb' = hb /\ stopped' = stopped /\ pc = "ended" /\ pc' = "recorded"
    BY <1>5 DEF RecordEnded
  <2>. QED  BY <1>0, <2>1 DEF TerminalInv, Terminal
<1>6. CASE Account
  <2>1. /\ stopped' = stopped /\ pc = "recorded" /\ pc' \in Looping \cup {"finally"}
    BY <1>6 DEF Account, Looping
  <2>2. hb'.state = hb.state
    BY <1>0, <1>6, CountedHeartbeat
  <2>. QED  BY <1>0, <2>1, <2>2 DEF TerminalInv, Terminal, Looping
<1>7. CASE RecordOrder
  <2>1. /\ ledger' = Append(ledger, ExecutedOrder(order)) /\ pc = "finally" /\ pc' = "exit"
        /\ UNCHANGED <<hb, stopped, accumulated>>
    BY <1>7 DEF RecordOrder
  <2>2. Len(ledger') = Len(ledger) + 1 /\ Len(ledger) \in Nat
        /\ ledger'[Len(ledger) + 1] = ExecutedOrder(order)
    BY <1>0, <2>1, Appended
  <2>3. EndsWithOrder'
    BY <2>2 DEF EndsWithOrder, ExecutedOrder
  <2>. QED  BY <1>0, <2>1, <2>3 DEF TerminalInv, Terminal
<1>8. CASE Exit
  <2>1. /\ pc = "exit" /\ pc' = "idle" /\ ledger' = ledger /\ aborted' = aborted /\ stopped' = FALSE
        /\ hb' = IF FinishHeartbeat
                 THEN [hb EXCEPT !.state = IF stopped THEN "stopped_cost_ceiling" ELSE "finished",
                                 !.spend = accumulated]
                 ELSE hb
    BY <1>8 DEF Exit, Gone
  <2>2. hb.state \notin Terminal
    BY <1>0, <2>1 DEF TerminalInv
  <2>3. CASE raising
    <3>1. hb' = hb
      BY <2>1, <2>3 DEF FinishHeartbeat
    <3>. QED  BY <1>0, <1>1, <2>1, <2>2, <3>1 DEF TerminalInv, Terminal
  <2>4. CASE ~raising
    <3>1. /\ hb'.state = IF stopped THEN "stopped_cost_ceiling" ELSE "finished"
          /\ hb'.spend = accumulated
      BY <1>0, <2>1, <2>4 DEF FinishHeartbeat, Heartbeats
    <3>2. EndsWithOrder /\ (stopped => accumulated >= Ceiling)
      BY <1>0, <2>1 DEF TerminalInv
    <3>3. ~stopped /\ ~aborted => 1..NCells \subseteq Tried
      BY <1>0, <2>1, <2>4 DEF TriedInv
    <3>. QED  BY <1>1, <2>1, <3>1, <3>2, <3>3 DEF TerminalInv, Terminal
  <2>. QED  BY <2>3, <2>4
<1>9. CASE Crash
  <2>1. /\ pc # "idle" /\ pc' = "idle" /\ ledger' = ledger /\ hb' = hb /\ stopped' = FALSE
    BY <1>9 DEF Crash, Gone
  <2>. QED  BY <1>0, <2>1 DEF TerminalInv, Terminal
<1>10. CASE UNCHANGED vars
  <2>1. UNCHANGED <<ledger, hb, pc, stopped, aborted, accumulated>>
    BY <1>10 DEF vars
  <2>. QED  BY <1>0, <1>1, <2>1 DEF TerminalInv
<1>. QED
  BY <1>2, <1>3, <1>4, <1>5, <1>6, <1>7, <1>8, <1>9, <1>10 DEF Next, Progress

-----------------------------------------------------------------------------
(* Once a run was stopped, the next starts at the ceiling.                 *)
LEMMA AppendKeepsFinal ==
  ASSUME Log(ledger), StopIsFinal, NEW e, ledger' = Append(ledger, e),
         \/ e.kind \in {"run_stopped_cost_ceiling", "executed_order"}
         \/ \A j \in 1..Len(ledger) : ledger[j].kind # "run_stopped_cost_ceiling"
  PROVE  StopIsFinal'
<1>1. /\ Len(ledger') = Len(ledger) + 1 /\ Len(ledger) \in Nat
      /\ \A k \in 1..Len(ledger) : ledger'[k] = ledger[k]
      /\ ledger'[Len(ledger) + 1] = e
  BY Appended
<1> SUFFICES ASSUME NEW j \in 1..Len(ledger'), ledger'[j].kind = "run_stopped_cost_ceiling",
                    NEW k \in (j + 1)..Len(ledger')
             PROVE  ledger'[k].kind \in {"run_stopped_cost_ceiling", "executed_order"}
  BY DEF StopIsFinal
<1>2. j \in 1..Len(ledger) /\ ledger[j].kind = "run_stopped_cost_ceiling"
  BY <1>1
<1>3. k \in 1..Len(ledger) \/ k = Len(ledger) + 1
  BY <1>1
<1>. QED  BY <1>1, <1>2, <1>3 DEF StopIsFinal

LEMMA StopStep == Inv /\ [Next]_vars => StopIsFinal'
<1> SUFFICES ASSUME Inv, [Next]_vars PROVE StopIsFinal'
  OBVIOUS
<1>0. Typed(ledger) /\ Log(ledger) /\ StopIsFinal
  BY DEF Inv, Shape, Typed
<1>1. CASE StopAtCeiling
  <2>1. CeilingStop(accumulated).kind = "run_stopped_cost_ceiling"
    BY DEF CeilingStop
  <2>. QED  BY <1>0, <1>1, <2>1, AppendKeepsFinal DEF StopAtCeiling
<1>2. CASE RecordOrder
  <2>1. ExecutedOrder(order).kind = "executed_order"
    BY DEF ExecutedOrder
  <2>. QED  BY <1>0, <1>2, <2>1, AppendKeepsFinal DEF RecordOrder
<1>3. CASE RecordEnded
  <2>1. PriorSpend(ledger) <= accumulated /\ accumulated < Ceiling /\ accumulated \in Nat /\ Ceiling \in Nat
    BY <1>3, SpendIsNat, RunAssumption DEF RecordEnded, Inv, SpendInv
  <2>2. ASSUME NEW j \in 1..Len(ledger), ledger[j].kind = "run_stopped_cost_ceiling"
        PROVE  FALSE
    <3>1. j \in Stops(ledger)
      BY <1>0, <2>2 DEF Stops, OfKind, Log
    <3>2. SumCosts(ledger, AttemptKinds) \in Nat
      <4>1. EventTyped(EventOf(ended))
        BY <1>3, EventOfEnded DEF RecordEnded, Inv
      <4>. QED  BY <1>0, <4>1, SumAppended
    <3>3. PriorSpend(ledger) \in Nat /\ ledger[j].accumulated \in Ceiling..PriorSpend(ledger)
      BY <1>0, <3>1, <3>2, FloorIs DEF PriorSpend
    <3>. QED  BY <2>1, <3>3
  <2>. QED  BY <1>0, <1>3, <2>2, AppendKeepsFinal DEF RecordEnded
<1>4. CASE ledger' = ledger
  BY <1>0, <1>4 DEF StopIsFinal
<1>. QED
  BY <1>1, <1>2, <1>3, <1>4 DEF Next, Progress, StartRun, PassOver, SkipUnschedulable, BeginCell,
     RunAttempt, Account, Exit, Crash, Interrupt, vars

-----------------------------------------------------------------------------
LEMMA InitInv == Init => Inv
<1> SUFFICES ASSUME Init PROVE Inv
  OBVIOUS
<1>1. Shape /\ ledger = <<>> /\ Len(ledger) = 0 /\ DOMAIN ledger = {}
  BY InitShape, EmptyOwn DEF Init
<1>2. \A kinds : OfKind(ledger, kinds) = {}
  BY <1>1 DEF OfKind
<1>3. DoneCells(ledger) = {} /\ Tried = {} /\ Attempted(ledger) = {}
  BY <1>2 DEF DoneCells, Tried, CellsOf, Attempted
<1>4. PriorSpend(ledger) = 0
  <2> DEFINE f == [k \in {} |-> CostOf(ledger[k])]
  <2>1. SumCosts(ledger, AttemptKinds) = SumFunction(f)
    BY <1>2 DEF SumCosts
  <2>2. DOMAIN f = {} /\ f \in [{} -> Nat]
    OBVIOUS
  <2>. HIDE DEF f
  <2>3. Numbers(f)
    BY <2>2, FS_EmptySet DEF Numbers
  <2>4. SumCosts(ledger, AttemptKinds) = 0
    BY <2>1, <2>2, <2>3, SumIsNat
  <2>5. Stops(ledger) = {}
    BY <1>2 DEF Stops
  <2>. QED  BY <1>1, <2>4, <2>5, FloorIs DEF PriorSpend, Shape
<1>5. SpendInv
  <2>1. Ceiling \in Nat \ {0} /\ MaxCost \in Nat /\ MaxTotal = Ceiling + MaxCost
    BY RunAssumption, TrialAssumption DEF MaxTotal
  <2>. QED  BY <1>4, <2>1 DEF Init, SpendInv
<1>6. OrderInv
  <2>1. PriorOrder(ledger) = <<>>
    BY <1>2 DEF PriorOrder
  <2>2. <<>> \in Orders /\ Len(<<>>) = 0
    BY DEF Orders
  <2>3. Complete(<<>>, ledger)
    BY <1>3, <2>2, FS_EmptySet DEF Complete
  <2>. QED  BY <2>1, <2>2, <2>3 DEF Init, OrderInv
<1>7. CountInv
  BY <1>3, FS_EmptySet DEF Init, CountInv, Heartbeats
<1>8. CellInv /\ OneTrialPerCell /\ StopIsFinal /\ TriedInv /\ TerminalInv
  BY <1>1, <1>3 DEF Init, CellInv, OneTrialPerCell, StopIsFinal, TriedInv, TerminalInv, Looping, Terminal
<1>. QED  BY <1>1, <1>5, <1>6, <1>7, <1>8 DEF Inv

LEMMA AlwaysInv == Spec => []Inv
<1>1. Inv /\ [Next]_vars => Inv'
  BY ShapeStep, CellStep, SpendStep, StopStep, OrderStep, CountStep, TriedStep, TerminalStep DEF Inv
<1>. QED  BY <1>1, InitInv, PTL DEF Spec

(* RN-1 for every plan: however often runs crash, are interrupted and      *)
(* start again, no cell gets a second trial (run/interleave.py schedule    *)
(* and _prior_run_state).                                                  *)
THEOREM NoCellRunsTwice == Spec => []OneTrialPerCell
<1>1. Inv => OneTrialPerCell
  BY DEF Inv
<1>. QED  BY <1>1, AlwaysInv, PTL

(* RN-2 and RN-3: however runs end and resume, the guard and the spend     *)
(* that the next run starts from stay less than one attempt's cost above   *)
(* the ceiling (run/budget.py CostGuard, _prior_run_state).                *)
THEOREM SpendStaysBounded == Spec => []CeilingHolds
<1>1. Inv => CeilingHolds
  <2>1. MaxTotal \in Nat
    BY RunAssumption, TrialAssumption DEF MaxTotal
  <2>. QED  BY <2>1 DEF Inv, SpendInv, CeilingHolds
<1>. QED  BY <1>1, AlwaysInv, PTL

(* After a ceiling stop no run attempts anything (_record_ceiling_stop,    *)
(* and the floor in _prior_run_state).                                     *)
THEOREM StopEndsAttempts == Spec => []StopIsFinal
<1>1. Inv => StopIsFinal
  BY DEF Inv
<1>. QED  BY <1>1, AlwaysInv, PTL

(* AC-4: the order that runs leave, if none was killed or interrupted, has *)
(* every attempt of the ledger in its place (schedule's finally).          *)
THEOREM OrderStaysComplete == Spec => []OrderIsComplete
<1>1. Inv => OrderIsComplete
  BY DEF Inv, OrderInv, OrderIsComplete
<1>. QED  BY <1>1, AlwaysInv, PTL

(* The heartbeat is at most one trial behind the ledger, and terminal only *)
(* after a run that ended in order (run/heartbeat.py).                     *)
THEOREM HeartbeatStaysHonest == Spec => []HeartbeatHonest
<1>1. Inv => HeartbeatHonest
  <2> SUFFICES ASSUME Inv PROVE HeartbeatHonest
    OBVIOUS
  <2>1. StatusDone(ledger) - hb.done \in {0, 1}
    <3>1. Cardinality(DoneCells(ledger)) \in hb.done..(hb.done + 1) /\ hb.done \in Nat
      BY DEF Inv, CountInv, Heartbeats
    <3>. QED  BY <3>1 DEF StatusDone
  <2>2. Tried = {ledger[k].cell : k \in Attempted(ledger)} /\ Tried \subseteq 1..NCells
    BY CellsWithin DEF Tried, CellsOf, Attempted, Inv, Shape
  <2>3. TerminalInv
    BY DEF Inv
  <2>4. EndsWithOrder => Last(ledger).kind = "executed_order"
    BY DEF EndsWithOrder, Last
  <2>5. hb.state = "finished" /\ ~aborted =>
          {ledger[k].cell : k \in Attempted(ledger)} = 1..NCells
    BY <2>2, <2>3 DEF TerminalInv
  <2>6. hb.state = "stopped_cost_ceiling" => WouldExceed(hb.spend)
    BY <2>3 DEF TerminalInv, WouldExceed
  <2>7. hb.state \in {"finished", "stopped_cost_ceiling"} => Last(ledger).kind = "executed_order"
    BY <2>3, <2>4 DEF TerminalInv, Terminal
  <2>. QED  BY <2>1, <2>5, <2>6, <2>7 DEF HeartbeatHonest
<1>. QED  BY <1>1, AlwaysInv, PTL

-----------------------------------------------------------------------------
(* One attempt, whatever it meets (run/engines/base.py, run/seam.py and    *)
(* run/budget.py): its failure reason is the most specific one, a recorded *)
(* trial is charged no less than was metered, and a timeout survives.      *)
THEOREM AttemptsAreSound == \A e \in Environments : TrialSound(e)
<1> SUFFICES ASSUME NEW e \in Environments PROVE TrialSound(e)
  OBVIOUS
<1>1. /\ e.exec \in {"completed", "timeout", "kill_failed", "daemon_error", "refused"}
      /\ e.native \in {"ok", "corrupt"} /\ e.proxy \in {"off", "missing", "present"}
      /\ e.spans \in {"off", "missing", "present"}
      /\ e.metered \in Costs /\ e.self \in Costs
  BY DEF Environments
<1>2. MostSpecificReason(e)
  <2> SUFFICES ASSUME e.exec # "refused" PROVE EngineRun(e).reason = FirstSignal(e)
    BY DEF MostSpecificReason
  <2> DEFINE H(i) == Signals(e)[i].holds
             first(i) == H(i) /\ \A j \in 1..(i - 1) : ~H(j)
  <2>1. ASSUME NEW i \in 1..7, first(i) PROVE FirstSignal(e) = Signals(e)[i].why
    <3>1. \A k \in 1..7 : first(k) => k = i
      <4> SUFFICES ASSUME NEW k \in 1..7, first(k) PROVE k = i
        OBVIOUS
      <4>. HIDE DEF H
      <4>. QED  BY <2>1
    <3>2. (CHOOSE k \in 1..7 : first(k)) = i
      <4>. HIDE DEF first
      <4>. QED  BY <2>1, <3>1
    <3>. QED  BY <3>2 DEF FirstSignal
  <2>2. /\ H(1) = (e.exec = "kill_failed") /\ Signals(e)[1].why = "kill_failed"
        /\ H(2) = (e.exec = "daemon_error") /\ Signals(e)[2].why = "daemon_error"
        /\ H(3) = (e.exec = "timeout") /\ Signals(e)[3].why = Null
        /\ H(4) = (e.native = "corrupt") /\ Signals(e)[4].why = "telemetry_corrupt"
        /\ H(5) = (e.proxy = "missing") /\ Signals(e)[5].why = "proxy_log_missing"
        /\ H(6) = (e.spans = "missing") /\ Signals(e)[6].why = "span_log_missing"
        /\ H(7) = TRUE /\ Signals(e)[7].why = Null
    BY DEF Signals
  <2>. HIDE DEF H
  <2>4. /\ H(1) => first(1)
        /\ H(2) /\ ~H(1) => first(2)
        /\ H(3) /\ ~H(1) /\ ~H(2) => first(3)
        /\ H(4) /\ ~H(1) /\ ~H(2) /\ ~H(3) => first(4)
        /\ H(5) /\ ~H(1) /\ ~H(2) /\ ~H(3) /\ ~H(4) => first(5)
        /\ H(6) /\ ~H(1) /\ ~H(2) /\ ~H(3) /\ ~H(4) /\ ~H(5) => first(6)
        /\ H(7) /\ ~H(1) /\ ~H(2) /\ ~H(3) /\ ~H(4) /\ ~H(5) /\ ~H(6) => first(7)
    OBVIOUS
  <2>. HIDE DEF first
  <2>5. \A i \in 1..7 : first(i) => FirstSignal(e) = Signals(e)[i].why
    BY <2>1
  <2>10. /\ first(1) => FirstSignal(e) = "kill_failed"
         /\ first(2) => FirstSignal(e) = "daemon_error"
         /\ first(3) => FirstSignal(e) = Null
         /\ first(4) => FirstSignal(e) = "telemetry_corrupt"
         /\ first(5) => FirstSignal(e) = "proxy_log_missing"
         /\ first(6) => FirstSignal(e) = "span_log_missing"
         /\ first(7) => FirstSignal(e) = Null
    BY <2>2, <2>5
  <2>11. /\ e.exec \in {"kill_failed", "daemon_error"} => FirstSignal(e) = e.exec
         /\ e.exec = "timeout" => FirstSignal(e) = Null
         /\ e.exec = "completed" =>
              FirstSignal(e) = IF e.native = "corrupt" THEN "telemetry_corrupt"
                               ELSE IF e.proxy = "missing" THEN "proxy_log_missing"
                               ELSE IF e.spans = "missing" THEN "span_log_missing" ELSE Null
    BY <1>1, <2>2, <2>4, <2>10
  <2>6. \A o, r : Completed(o).outcome = o /\ Completed(o).reason = Null
                  /\ InfraFailed(r).outcome = "infra_failed" /\ InfraFailed(r).reason = r
    BY DEF Completed, InfraFailed
  <2>7. EngineRun(e) = Assemble(e)
    BY DEF EngineRun
  <2>8. CASE e.exec \in {"kill_failed", "daemon_error", "timeout"}
    <3>1. Executed(e).outcome # "completed"
          /\ Executed(e).reason = IF e.exec = "timeout" THEN Null ELSE e.exec
      BY <2>6, <2>8 DEF Executed
    <3>2. Assemble(e) = Executed(e)
      BY <3>1 DEF Assemble, Downgrade
    <3>. QED  BY <2>7, <2>8, <2>11, <3>1, <3>2
  <2>9. CASE e.exec = "completed"
    <3>1. Executed(e).outcome = "completed" /\ Executed(e).reason = Null
      BY <2>6, <2>9 DEF Executed
    <3>2. Assemble(e).reason =
            IF e.native = "corrupt" THEN "telemetry_corrupt"
            ELSE IF e.proxy = "missing" THEN "proxy_log_missing"
            ELSE IF e.spans = "missing" THEN "span_log_missing" ELSE Null
      BY <2>6, <3>1 DEF Assemble, Downgrade
    <3>. QED  BY <2>7, <2>9, <2>11, <3>2
  <2>. QED  BY <1>1, <2>8, <2>9
<1>3. /\ MeteredCost(e) \in Costs /\ SelfReported(e) \in Costs
      /\ \A how, x : Ended(how, x).how = how /\ Ended(how, x).charge = x
  <2>1. Null \in Costs
    BY DEF Costs
  <2>. QED  BY <1>1, <2>1 DEF MeteredCost, SelfReported, Ended
<1>4. MeteredCost(e) # Null =>
        EnforcementCost(SelfReported(e), MeteredCost(e)) \in Nat
        /\ EnforcementCost(SelfReported(e), MeteredCost(e)) >= MeteredCost(e)
  BY <1>3, TrialAssumption DEF EnforcementCost, Costs
<1>5. UnderReportingBuysNothing(e)
  <2>1. RunTrial(e).how = "recorded" => RunTrial(e) = RecordEnds(e)
    BY <1>3 DEF RunTrial, CaptureEnds
  <2>2. RecordEnds(e).charge = EnforcementCost(SelfReported(e), MeteredCost(e))
    BY <1>3 DEF RecordEnds
  <2>. QED  BY <1>3, <1>4, <2>1, <2>2, TrialAssumption DEF UnderReportingBuysNothing, Costs
<1>6. TimeoutSurvives(e)
  <2> SUFFICES ASSUME e.exec = "timeout", e.fault \in {"none", "captured_log"}
               PROVE  RunTrial(e) = Ended("recorded", Incurred(e))
    BY DEF TimeoutSurvives
  <2>1. Executed(e).outcome = "timeout"
    BY DEF Executed, Completed
  <2>2. EngineRun(e).outcome = "timeout"
    BY <2>1 DEF EngineRun, Assemble, Downgrade
  <2>3. RunTrial(e) = CaptureEnds(e)
    BY <2>2 DEF RunTrial, PreEngineFaults
  <2>4. CaptureEnds(e) = RecordEnds(e)
    BY DEF CaptureEnds, TimeoutCarveOut
  <2>. QED  BY <2>2, <2>3, <2>4 DEF RecordEnds, Incurred
<1>. QED  BY <1>2, <1>5, <1>6 DEF TrialSound
=============================================================================
