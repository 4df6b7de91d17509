----------------------------- MODULE RunSchedule -----------------------------
(***************************************************************************)
(* src/harness/run/interleave.py schedule: one `bench run` after another   *)
(* over the planned cells, each resuming from the ledger, with the cost    *)
(* guard (run/budget.py), the heartbeat sidecar (run/heartbeat.py) and     *)
(* what status/aggregate.py tells observers meanwhile. How an attempt ends *)
(* comes from module Trial. Cells are numbered in the derived order.       *)
(*                                                                         *)
(* A run can stop anywhere: killed (Crash), or unwound by an exception the *)
(* loop does not catch (Interrupt), whose finally still records the order. *)
(***************************************************************************)
EXTENDS Trial, Sequences, FiniteSets, SequencesExt

CONSTANTS NCells,        \* planned cells
          Schedulable,   \* those that are known and admitted
          Ceiling,       \* the locked cost ceiling
          MaxRetries,    \* max_infra_retries
          Attempts,      \* how attempts may end: some of the results of Trial
          MaxRuns,       \* bound: `bench run` invocations
          MaxFaults      \* bound: crashes and interrupts

ASSUME RunAssumption ==
  /\ {NCells, MaxRetries, MaxRuns, MaxFaults} \subseteq Nat
  /\ Ceiling \in Nat \ {0}
  /\ Schedulable \subseteq 1..NCells
  /\ Attempts \subseteq {RunTrial(e) : e \in Environments}

VARIABLES
  ledger,       \* the events schedule reads and writes, in order
  hb,           \* run.heartbeat.json
  pc, cell,     \* where the run is, and at which planned cell
  accumulated,  \* the guard's running total
  done,         \* done_cells, as read at the start of the run
  order,        \* out.executed_order
  attempts,     \* failed attempts at this cell
  ended,        \* how the latest attempt ended
  stopped, aborted, raising,   \* the run's flags; raising: unwinding
  runs, faults, \* how many so far
  charged       \* what all guards were charged and the ledger heard of (observation)

run  == <<pc, cell, accumulated, done, order, attempts, ended, stopped, aborted, raising>>
vars == <<ledger, hb, pc, cell, accumulated, done, order, attempts, ended,
          stopped, aborted, raising, runs, faults, charged>>

-----------------------------------------------------------------------------
(* The ledger's events, and what a run reads from them.                    *)

TrialEvent(c, cost) == [kind |-> "trial", cell |-> c, cost |-> cost]
TrialInfraFailed(c, cost) == [kind |-> "trial_infra_failed", cell |-> c, cost |-> cost]
CeilingStop(total) == [kind |-> "run_stopped_cost_ceiling", accumulated |-> total]
ExecutedOrder(o) == [kind |-> "executed_order", order |-> o]

(* The positions of the events of these kinds, and what they cost in all.  *)
OfKind(l, kinds) == {k \in DOMAIN l : l[k].kind \in kinds}
CostOf(ev) == IF ev.cost = Null THEN 0 ELSE ev.cost
SumCosts(l, kinds) == SumFunction([k \in OfKind(l, kinds) |-> CostOf(l[k])])

AttemptKinds == {"trial", "trial_infra_failed"}
Stops(l) == OfKind(l, {"run_stopped_cost_ceiling"})

(* _prior_run_state: what is itemised, but at least any stop's snapshot.   *)
Floored(l, spend) == Max({spend} \cup {l[k].accumulated : k \in Stops(l)})
PriorSpend_NoSnapshot(l) == SumCosts(l, AttemptKinds)
PriorSpend(l) == Floored(l, SumCosts(l, AttemptKinds))

DoneCells_None(l) == {}
DoneCells(l) == {l[k].cell : k \in OfKind(l, {"trial"})}

PriorOrder_None(l) == <<>>
PriorOrder(l) ==
  LET orders == OfKind(l, {"executed_order"})
  IN  IF orders = {} THEN <<>> ELSE l[Max(orders)].order

(* An entry of executed_order: the cell, and whether it was an infra       *)
(* failure. Every trial and every failed attempt makes one.                *)
Entry(ev) == [cell |-> ev.cell, infra |-> ev.kind = "trial_infra_failed"]

WouldExceed_Above(total) == total > Ceiling
WouldExceed(total) == total >= Ceiling
Charge(total, cost) == IF cost = Null THEN total ELSE total + cost

NotEnded == Ended("none", Null)

Init ==
  /\ ledger = <<>>
  /\ hb = [state |-> "absent", done |-> 0, infra |-> 0, spend |-> 0]
  /\ pc = "idle" /\ cell = 1
  /\ accumulated = 0 /\ done = {} /\ order = <<>>
  /\ attempts = 0 /\ ended = NotEnded
  /\ stopped = FALSE /\ aborted = FALSE /\ raising = FALSE
  /\ runs = 0 /\ faults = 0 /\ charged = 0

-----------------------------------------------------------------------------
(* schedule.                                                               *)

(* The process is gone, and its memory with it.                            *)
Gone ==
  /\ pc' = "idle" /\ cell' = 1
  /\ accumulated' = 0 /\ done' = {} /\ order' = <<>>
  /\ attempts' = 0 /\ ended' = NotEnded
  /\ stopped' = FALSE /\ raising' = FALSE

StartRun ==
  /\ pc = "idle" /\ runs < MaxRuns
  /\ runs' = runs + 1
  /\ accumulated' = PriorSpend(ledger)
  /\ done' = DoneCells(ledger)
  /\ order' = PriorOrder(ledger)
  /\ hb' = [state |-> "running", done |-> Cardinality(done'), infra |-> 0,
            spend |-> accumulated']
  /\ pc' = "loop" /\ cell' = 1 /\ attempts' = 0 /\ ended' = NotEnded
  /\ stopped' = FALSE /\ aborted' = FALSE /\ raising' = FALSE
  /\ UNCHANGED <<ledger, faults, charged>>

(* The for loop has no cell left, or the cell already has a trial.         *)
PassOver ==
  /\ pc = "loop"
  /\ IF cell > NCells THEN pc' = "finally" /\ UNCHANGED cell
     ELSE cell \in done /\ cell' = cell + 1 /\ UNCHANGED pc
  /\ UNCHANGED <<ledger, hb, accumulated, done, order, attempts, ended,
                 stopped, aborted, raising, runs, faults, charged>>

AtCell == pc = "loop" /\ cell <= NCells /\ cell \notin done

(* _record_ceiling_stop: before a cell, and before every further attempt.  *)
StopAtCeiling ==
  /\ AtCell \/ pc = "attempt"
  /\ WouldExceed(accumulated)
  /\ ledger' = Append(ledger, CeilingStop(accumulated))
  /\ stopped' = TRUE
  /\ pc' = "finally"
  /\ UNCHANGED <<hb, cell, accumulated, done, order, attempts, ended, aborted,
                 raising, runs, faults, charged>>

(* _fail_cell for a task or arm nobody knows, or a task not admitted.      *)
SkipUnschedulable ==
  /\ AtCell /\ ~WouldExceed(accumulated) /\ cell \notin Schedulable
  /\ ended' = Ended("not_started", Null)
  /\ pc' = "ended"
  /\ UNCHANGED <<ledger, hb, cell, accumulated, done, order, attempts,
                 stopped, aborted, raising, runs, faults, charged>>

BeginCell ==
  /\ AtCell /\ ~WouldExceed(accumulated) /\ cell \in Schedulable
  /\ attempts' = 0
  /\ pc' = "attempt"
  /\ UNCHANGED <<ledger, hb, cell, accumulated, done, order, ended, stopped, aborted,
                 raising, runs, faults, charged>>

(* _run_with_infra_reruns: run_trial, unless the guard stops it first.     *)
RunAttempt ==
  /\ pc = "attempt" /\ ~WouldExceed(accumulated)
  /\ ended' \in Attempts
  /\ pc' = "ended"
  /\ UNCHANGED <<ledger, hb, cell, accumulated, done, order, attempts, stopped,
                 aborted, raising, runs, faults, charged>>

(* The event an ended attempt puts on the ledger: only a recorded trial and*)
(* a post-engine failure carry their cost there.                           *)
EventOf(r) ==
  CASE r.how = "recorded"    -> TrialEvent(cell, r.charge)
    [] r.how = "post_engine" -> TrialInfraFailed(cell, r.charge)
    [] OTHER                 -> TrialInfraFailed(cell, Null)

(* What the guard is charged: an infra failure as much as a trial.         *)
GuardCharge(r) == r.charge

RecordEnded ==
  /\ pc = "ended"
  /\ ledger' = Append(ledger, EventOf(ended))
  /\ charged' = Charge(charged, GuardCharge(ended))
  /\ pc' = "recorded"
  /\ UNCHANGED <<hb, cell, accumulated, done, order, attempts, ended, stopped, aborted,
                 raising, runs, faults>>

(* After the append: the guard, the heartbeat, the realized order, and     *)
(* where the loop goes next.                                               *)
RerunLeft == attempts + 1 <= MaxRetries
CountDone(h) == [h EXCEPT !.done = @ + 1]
CountInfra(h) == [h EXCEPT !.infra = @ + 1]

Account ==
  /\ pc = "recorded"
  /\ accumulated' = Charge(accumulated, GuardCharge(ended))
  /\ hb' = LET counted == IF ended.how = "recorded" THEN CountDone(hb) ELSE CountInfra(hb)
           IN  IF ended.how \in {"recorded", "infra", "proxy_dead"}
               THEN [counted EXCEPT !.spend = accumulated'] ELSE counted
  /\ order' = Append(order, Entry(Last(ledger)))
  /\ attempts' = IF ended.how = "infra" THEN attempts + 1 ELSE 0
  /\ ended' = NotEnded
  /\ aborted' = (ended.how = "proxy_dead")
  /\ \/ /\ ended.how = "proxy_dead"
        /\ pc' = "finally" /\ UNCHANGED cell
     \/ /\ ended.how = "infra" /\ RerunLeft
        /\ pc' = "attempt" /\ UNCHANGED cell
     \/ /\ ended.how # "proxy_dead" /\ ~(ended.how = "infra" /\ RerunLeft)
        /\ pc' = "loop" /\ cell' = cell + 1
  /\ UNCHANGED <<ledger, done, stopped, raising, runs, faults, charged>>

(* finally: record_executed_order.                                         *)
RecordOrder ==
  /\ pc = "finally"
  /\ ledger' = Append(ledger, ExecutedOrder(order))
  /\ pc' = "exit"
  /\ UNCHANGED <<hb, cell, accumulated, done, order, attempts, ended, stopped, aborted,
                 raising, runs, faults, charged>>

(* hb.finish, on a normal exit only.                                       *)
FinishHeartbeat_Always == TRUE
FinishHeartbeat == ~raising
Exit ==
  /\ pc = "exit"
  /\ hb' = IF FinishHeartbeat
           THEN [hb EXCEPT !.state = IF stopped THEN "stopped_cost_ceiling" ELSE "finished",
                           !.spend = accumulated]
           ELSE hb
  /\ Gone
  /\ UNCHANGED <<ledger, aborted, runs, faults, charged>>

-----------------------------------------------------------------------------
(* SIGKILL or the host gone: nothing more of this run happens.             *)
Crash ==
  /\ pc # "idle" /\ faults < MaxFaults
  /\ faults' = faults + 1
  /\ Gone
  /\ UNCHANGED <<ledger, hb, aborted, runs, charged>>

(* KeyboardInterrupt and the like: no handler of the loop takes it.        *)
Interrupt ==
  /\ pc \in {"loop", "attempt", "ended", "recorded"} /\ faults < MaxFaults
  /\ faults' = faults + 1
  /\ raising' = TRUE
  /\ pc' = "finally" /\ ended' = NotEnded
  /\ UNCHANGED <<ledger, hb, cell, accumulated, done, order, attempts,
                 stopped, aborted, runs, charged>>

Progress == \/ PassOver \/ StopAtCeiling \/ SkipUnschedulable \/ BeginCell \/ RunAttempt
            \/ RecordEnded \/ Account \/ RecordOrder \/ Exit
Next == StartRun \/ Progress \/ Crash \/ Interrupt

Spec == Init /\ [][Next]_vars

-----------------------------------------------------------------------------
(* status/aggregate.py, for an observer of the ledger: _cells and _spend.  *)
StatusDone(l) == Cardinality(DoneCells(l))
StatusSpend(l) == Floored(l, SumCosts(l, {"trial"}))

-----------------------------------------------------------------------------
Steps == {"idle", "loop", "attempt", "ended", "recorded", "finally", "exit"}
MaxTotal == Ceiling + MaxCost
TypeOK ==
  /\ \A k \in 1..Len(ledger) :
       ledger[k].kind \in {"trial", "trial_infra_failed", "run_stopped_cost_ceiling",
                          "executed_order"}
  /\ hb.state \in {"absent", "running", "finished", "stopped_cost_ceiling"}
  /\ hb.done \in 0..NCells /\ hb.infra \in 0..(NCells * (MaxRetries + 1))
  /\ hb.spend \in 0..MaxTotal /\ accumulated \in 0..MaxTotal
  /\ pc \in Steps /\ cell \in 1..(NCells + 1) /\ done \subseteq Schedulable
  /\ attempts \in 0..(MaxRetries + 1)
  /\ {stopped, aborted, raising} \subseteq BOOLEAN
  /\ runs \in 0..MaxRuns /\ faults \in 0..MaxFaults

Attempted(l) == OfKind(l, AttemptKinds)

(* RN-1: "a re-run resumes instead of duplicating". However often runs     *)
(* crash and start again, no cell gets a second trial.                     *)
OneTrialPerCell ==
  \A j, k \in 1..Len(ledger) :
    /\ ledger[j].kind = "trial" /\ ledger[k].kind = "trial"
    /\ ledger[j].cell = ledger[k].cell
    => j = k

(* RN-2, RN-3: reruns, resumes and crashes included, neither the guard nor *)
(* the ledger ever shows more than one attempt's cost above the ceiling.   *)
CeilingHolds == accumulated < MaxTotal /\ PriorSpend(ledger) < MaxTotal

(* Once the ceiling has stopped a run, no later run attempts anything: the *)
(* stop's snapshot survives the resume, unitemised infra spend included.   *)
StopIsFinal ==
  \A j \in 1..Len(ledger) : ledger[j].kind = "run_stopped_cost_ceiling" =>
    \A k \in (j + 1)..Len(ledger) :
      ledger[k].kind \in {"run_stopped_cost_ceiling", "executed_order"}

(* AC-4: the executed_order a run leaves is the complete realized order,   *)
(* over all the runs so far - every trial and every failed attempt on the  *)
(* ledger, once, in ledger order. (Here: if no run crashed.)               *)
Rank(l, k) == Cardinality({j \in Attempted(l) : j <= k})
Complete(o, l) ==
  /\ Len(o) = Cardinality(Attempted(l))
  /\ \A k \in Attempted(l) : o[Rank(l, k)] = Entry(l[k])
OrderIsComplete ==
  faults = 0 /\ pc = "idle" => Complete(PriorOrder(ledger), ledger)

(* The sidecar agrees with the ledger. An observer who reads both never    *)
(* sees it ahead of the ledger, nor more than the one trial behind whose   *)
(* heartbeat is still to be written; and "a crash must leave the stale     *)
(* running document, never a false finished": a terminal heartbeat means   *)
(* that the order is recorded and, unless the proxy died, that every cell  *)
(* was tried, or the ceiling reached.                                      *)
HeartbeatHonest ==
  /\ StatusDone(ledger) - hb.done \in {0, 1}
  /\ hb.state \in {"finished", "stopped_cost_ceiling"} =>
       /\ Last(ledger).kind = "executed_order"
       /\ hb.state = "finished" /\ ~aborted =>
            {ledger[k].cell : k \in Attempted(ledger)} = 1..NCells
       /\ hb.state = "stopped_cost_ceiling" => WouldExceed(hb.spend)

-----------------------------------------------------------------------------
(* Statements of the source that the code does not keep.                   *)

(* _prior_run_state: "a crash after real spend no longer forgets it on     *)
(* resume". What the guards were charged is there when a run starts.       *)
ResumeRemembersSpend == pc = "loop" /\ cell = 1 => accumulated >= charged

(* _spend: "the same arithmetic schedule resumes with, so status and the   *)
(* guard cannot disagree". What an observer is told was spent is what the  *)
(* next run's guard starts from.                                           *)
StatusAgreesWithGuard == StatusSpend(ledger) = PriorSpend(ledger)
=============================================================================
