------------------------------- MODULE Trial -------------------------------
(***************************************************************************)
(* One attempt at a trial: src/harness/run/seam.py run_trial around        *)
(* src/harness/run/engines/base.py EngineBase.run, as a function of what   *)
(* the attempt met. What it met is a record:                               *)
(*   exec     how the container ended, "refused" when none was started     *)
(*   native   the agent's log: "ok" (absence included) or "corrupt"        *)
(*   proxy    the metering proxy's log: "off", "missing" or "present"      *)
(*   spans    the OTLP collector's log, likewise                           *)
(*   metered  what the proxy metered for this trial, Null for nothing      *)
(*   self     the cost the agent's log claims, Null for none               *)
(*   fault    the step that goes wrong, "none" for none                    *)
(***************************************************************************)
EXTENDS Naturals

CONSTANTS MaxCost,   \* bound: the cost of one attempt
          Null       \* no figure

ASSUME TrialAssumption == MaxCost \in Nat /\ Null \notin Nat

Costs == 0..MaxCost \cup {Null}

PreEngineFaults  == {"holdout_leak", "missing_key"}
PostEngineFaults == {"redaction", "telemetry_block", "by_model_block", "captured_log",
                     "captured_steps", "captured_spans", "persist"}

Environments ==
  [exec : {"completed", "timeout", "kill_failed", "daemon_error", "refused"},
   native : {"ok", "corrupt"},
   proxy : {"off", "missing", "present"}, spans : {"off", "missing", "present"},
   metered : Costs, self : Costs,
   fault : {"none"} \cup PreEngineFaults \cup PostEngineFaults]

(* budget.py: the larger of the two figures, or the one there is.          *)
EnforcementCost_SelfFirst(self, metered) == IF self # Null THEN self ELSE metered
EnforcementCost(self, metered) ==
  IF self # Null /\ metered # Null THEN IF self > metered THEN self ELSE metered
  ELSE IF self # Null THEN self ELSE metered

-----------------------------------------------------------------------------
(* EngineBase.run. A log that is not there or does not parse is a signal,  *)
(* and a signal only downgrades a trial that would count as completed.     *)

Completed(o) == [outcome |-> o, reason |-> Null]
InfraFailed(why) == [outcome |-> "infra_failed", reason |-> why]

Executed(e) ==
  CASE e.exec \in {"completed", "timeout"} -> Completed(e.exec)
    [] e.exec = "refused"                  -> InfraFailed("unpinned_image")
    [] OTHER                               -> InfraFailed(e.exec)

Downgrade(r, signal, why) ==
  IF signal /\ r.outcome = "completed" THEN InfraFailed(why) ELSE r

Assemble(e) ==
  LET telemetry == Downgrade(Executed(e), e.native = "corrupt", "telemetry_corrupt")
      egress    == Downgrade(telemetry, e.proxy = "missing", "proxy_log_missing")
  IN  Downgrade(egress, e.spans = "missing", "span_log_missing")

EngineRun(e) == IF e.exec = "refused" THEN Executed(e) ELSE Assemble(e)

(* What the engine hands on: the proxy's figure, if its log was there, and *)
(* the agent's claim, if its log could be read. No container, no figures.  *)
MeteredCost(e) == IF e.exec # "refused" /\ e.proxy = "present" THEN e.metered ELSE Null
Readable(e) == e.exec # "refused" /\ e.native = "ok"
SelfReported(e) == IF Readable(e) /\ e.fault # "telemetry_block" THEN e.self ELSE Null

-----------------------------------------------------------------------------
(* run_trial, as the scheduler sees it end. how is                         *)
(*   "not_started"    an exception before the engine ran                   *)
(*   "post_engine"    PostEngineFailure, with the spend it carries         *)
(*   "adapter_fault"  another exception after the engine ran               *)
(*   "infra", "proxy_dead", "recorded"   a record came back                *)

Ended(how, charge) == [how |-> how, charge |-> charge]

(* SpendTracker: the proxy's figure first, the agent's claim once known.   *)
TrackedSpend(e) == IF SelfReported(e) # Null THEN SelfReported(e) ELSE MeteredCost(e)

RecordEnds(e) ==
  LET r == EngineRun(e)
  IN  Ended(IF r.outcome # "infra_failed" THEN "recorded"
            ELSE IF r.reason = "proxy_log_missing" THEN "proxy_dead" ELSE "infra",
            EnforcementCost(SelfReported(e), MeteredCost(e)))

(* CapturePipeline.capture: skipped for an infra failure; an unreadable    *)
(* log is an honest absence after a timeout, which ends the capture.       *)
TimeoutCarveOut(e) == e.exec = "timeout"
CaptureEnds(e) ==
  CASE e.fault = "captured_log" /\ ~TimeoutCarveOut(e)
         -> Ended("post_engine", TrackedSpend(e))
    [] e.fault \in {"captured_spans", "persist"} -> Ended("post_engine", TrackedSpend(e))
    [] e.fault = "captured_steps" -> Ended("adapter_fault", Null)
    [] OTHER -> RecordEnds(e)

RunTrial(e) ==
  LET failed == EngineRun(e).outcome = "infra_failed"
  IN  CASE e.fault \in PreEngineFaults -> Ended("not_started", Null)
        [] e.fault = "redaction" -> Ended("post_engine", MeteredCost(e))
        [] e.fault = "telemetry_block" /\ Readable(e) -> Ended("adapter_fault", Null)
        [] e.fault = "by_model_block" /\ Readable(e) /\ ~failed -> Ended("adapter_fault", Null)
        [] ~failed -> CaptureEnds(e)
        [] OTHER -> RecordEnds(e)

(* What an attempt really cost, as far as anyone can tell.                 *)
Incurred(e) == EnforcementCost(SelfReported(e), MeteredCost(e))
-----------------------------------------------------------------------------
(* What an attempt owes, whichever environment it met.                     *)

(* base.py: "kill_failed > daemon_error > timeout > telemetry_corrupt >    *)
(* proxy_log_missing > span_log_missing". The failure reason is the first  *)
(* of these that holds, and a timeout is no failure at all.                *)
Signals(e) ==
  <<[holds |-> e.exec = "kill_failed",  why |-> "kill_failed"],
    [holds |-> e.exec = "daemon_error", why |-> "daemon_error"],
    [holds |-> e.exec = "timeout",      why |-> Null],
    [holds |-> e.native = "corrupt",    why |-> "telemetry_corrupt"],
    [holds |-> e.proxy = "missing",     why |-> "proxy_log_missing"],
    [holds |-> e.spans = "missing",     why |-> "span_log_missing"],
    [holds |-> TRUE,                    why |-> Null]>>
FirstSignal(e) ==
  LET i == CHOOSE i \in 1..7 : /\ Signals(e)[i].holds
                               /\ \A j \in 1..(i - 1) : ~Signals(e)[j].holds
  IN  Signals(e)[i].why
MostSpecificReason(e) == e.exec # "refused" => EngineRun(e).reason = FirstSignal(e)

(* budget.py F-H4: "under-reporting must not buy budget". A trial that is  *)
(* recorded is charged at least what the proxy metered.                    *)
UnderReportingBuysNothing(e) ==
  LET ended == RunTrial(e)
  IN  ended.how = "recorded" /\ MeteredCost(e) # Null =>
        ended.charge # Null /\ ended.charge >= MeteredCost(e)

(* seam.py, timeout carve-out: a log cut short by the kill costs neither   *)
(* the timeout datapoint nor its spend.                                    *)
TimeoutSurvives(e) ==
  e.exec = "timeout" /\ e.fault \in {"none", "captured_log"} =>
    RunTrial(e) = Ended("recorded", Incurred(e))

TrialSound(e) == MostSpecificReason(e) /\ UnderReportingBuysNothing(e) /\ TimeoutSurvives(e)
=============================================================================
