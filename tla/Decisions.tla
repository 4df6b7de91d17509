----------------------------- MODULE Decisions ------------------------------
(***************************************************************************)
(* The other parts that decide by a computation and keep no state, each a  *)
(* subject of Evidence's questions: attempts and their settings, the logs  *)
(* an attempt leaves, process scores, and what an analysis and its         *)
(* documents claim.                                                        *)
(***************************************************************************)
EXTENDS Evidence

CONSTANTS Sentinel,     \* a rubric's anchor that is no score
          HighestCost   \* bound: the cost of one attempt

Trial      == INSTANCE Trial WITH MaxCost <- HighestCost
Settings   == INSTANCE Settings
Telemetry  == INSTANCE Telemetry
Process    == INSTANCE Process
Statistics == INSTANCE Statistics
Findings   == INSTANCE Findings
Documents  == INSTANCE Documents
Observe    == INSTANCE Observe

(* What is asked of them: the value of OtherCases.                         *)
DecisionCases ==
  [specs      |-> Settings!SpecCases,         configs   |-> Settings!ConfigCases,
   keys       |-> Settings!KeyCases,          attempt   |-> Trial!Environments,
   spans      |-> Telemetry!SpanCases,        stream    |-> Telemetry!StreamCases,
   log        |-> Telemetry!LogCases,         process   |-> Process!ProcessCases,
   statistics |-> Statistics!StatisticsCases, findings  |-> Findings!FindingsCases,
   documents  |-> Documents!DocumentsCases,   observing |-> Observe!ObserveCases]

-----------------------------------------------------------------------------
(* An attempt at a trial: what it is charged and why it failed (run/       *)
(* seam.py, budget.py), the environment and egress its arm declared (run/  *)
(* settings.py, egress.py), and the steps, thoughts and figures that are   *)
(* read from what it left (adapters/), whatever order they arrive in.      *)
AttemptsSound ==
  /\ Asked("attempt")  => Trial!TrialSound(question)
  /\ Asked("specs") \/ Asked("configs") \/ Asked("keys") => Settings!SettingsSound(question)
  /\ Asked("spans")    => Telemetry!SpansSound(question)
  /\ Asked("stream")   => Telemetry!StreamSound(question)
  /\ Asked("log")      => Telemetry!LogSound(question)

(* A process score is the judge's own or a named reason (process/). What   *)
(* an analysis claims follows from the trials it may use (analyze/), every *)
(* document says the same of it, and the counts an observer is shown are   *)
(* the work that each stage would find (status/, ledger/view.py).          *)
ClaimsSound ==
  /\ Asked("process")    => Process!ProcessSound(question)
  /\ Asked("statistics") => Statistics!StatisticsSound(question)
  /\ Asked("findings")   => Findings!FindingsSound(question)
  /\ Asked("documents")  => Documents!DocumentsSound(question)
  /\ Asked("observing")  => Observe!ObserveSound(question)
=============================================================================
