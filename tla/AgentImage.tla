----------------------------- MODULE AgentImage -----------------------------
(***************************************************************************)
(* The entrypoint of the claude-code-groundwork trial image: one image for *)
(* every arm. It reads the arm's payload, plans and applies what the arm's *)
(* treatment installs, runs the claude CLI (whose Stop hook, on an         *)
(* enforced or a placebo arm, sends the model back to work), and leaves    *)
(* the log the harness reads. The model edits the workspace, the policy    *)
(* the gate is meant to hold it to included. Assumed: the artifacts        *)
(* directory can be written, the model leaves $HOME and the hook's log     *)
(* alone, and the CLI begins its transcript before the model acts.         *)
(***************************************************************************)
EXTENDS Integers, Sequences, FiniteSets

CONSTANTS
  MaxRounds,  \* the hook's MAX_ROUNDS
  MaxEdits,   \* bound: edits of the model
  Absent

AgentAssumption ==
  /\ MaxRounds \in Nat /\ MaxEdits \in Nat
  /\ Absent \notin {"generic", "native", "pristine", "lenient"}

VARIABLES
  payload,    \* the arm's payload in /verdi/request.json
  at,         \* where the entrypoint is
  plan,       \* what plan_groundwork returned
  home,       \* what is installed under $HOME, the hook's rounds and its copies of
              \* the base graph and the policy (`policy` stands for both)
  workspace,  \* the code, and the workspace's own graph and policy
  hook,       \* the running Stop hook: its step, the rounds it read, its decision
  enforceLog, \* artifacts/groundwork-enforce.jsonl
  log,        \* artifacts/agent_log.json and the writer's flags
  transcripts, \* what became of the session's transcripts
  exit, edits

vars == <<payload, at, plan, home, workspace, hook, enforceLog, log, transcripts, exit, edits>>

Workflows == {"ground_verify", "ground_verify_enforced", "placebo_gate"}
Payloads == [tools : {"groundwork", "other", "not_a_list"},
             workflow : Workflows \cup {"unknown", Absent},
             extra : {"policy_pointer", "unknown", Absent}]
Codes == {"uncompilable", "violating", "clean"}
Policies == {"pristine", "lenient"}

GroundworkEnabled == payload.tools = "groundwork"

(***************************************************************************)
(* plan_groundwork: what the payload arms. A workflow with no tool, an     *)
(* unknown one, and a prompt-only treatment with anything else, raise.     *)
(***************************************************************************)
HookOf(workflow) ==
  CASE workflow = "ground_verify_enforced" -> "enforce"
    [] workflow = "placebo_gate" -> "placebo"
    [] OTHER -> "no_hook"
Disabled == [enabled |-> FALSE, args |-> {}, hook |-> "no_hook", copies |-> FALSE]
InvalidPayload ==
  LET workflow == payload.workflow
      extra == payload.extra
  IN  \/ workflow # Absent /\ (~GroundworkEnabled \/ workflow \notin Workflows)
      \/ extra # Absent /\ (GroundworkEnabled \/ workflow # Absent \/ extra = "unknown")
PlanGroundwork ==
  LET workflow == payload.workflow IN
  IF payload.extra # Absent THEN [Disabled EXCEPT !.args = {"system_prompt_extra"}]
  ELSE IF ~GroundworkEnabled THEN Disabled
  ELSE [enabled |-> TRUE, hook |-> HookOf(workflow),
        args |-> {"mcp_config"} \cup (IF workflow = Absent THEN {} ELSE {"ground_verify"}),
        copies |-> HookOf(workflow) = "enforce"]

NoLog == [file |-> Absent, finished |-> FALSE, native |-> FALSE]
NoHook == [step |-> "none", current |-> 0, decision |-> "none"]
Init ==
  /\ payload \in Payloads
  /\ at = "read" /\ plan = Absent
  /\ home = [armed |-> FALSE, hook |-> "no_hook", rounds |-> 0, policy |-> Absent]
  /\ workspace = [code |-> "violating", policy |-> "pristine"]
  /\ hook = NoHook /\ enforceLog = <<>> /\ log = NoLog /\ transcripts = "none"
  /\ exit = "running" /\ edits = 0

(***************************************************************************)
(* AgentLog's two terminals. One file, one format: after the native one    *)
(* the generic one refuses, and the file stays as it is. run_visible turns *)
(* what main raises into a scorable log and exit 1.                        *)
(***************************************************************************)
Finish(lg)     == IF lg.native THEN lg ELSE [lg EXCEPT !.file = "generic", !.finished = TRUE]
FinishNative   == [file |-> "native", finished |-> TRUE, native |-> TRUE]
RunVisible(lg) == IF lg.native THEN lg ELSE Finish(lg)
Raise(lg)      == at' = "exited" /\ exit' = "1" /\ log' = RunVisible(lg)

ReadRequest ==
  /\ at = "read"
  /\ \/ Raise(log) /\ UNCHANGED plan
     \/ IF InvalidPayload THEN Raise(log) /\ UNCHANGED plan
        ELSE at' = "apply" /\ plan' = PlanGroundwork /\ UNCHANGED <<log, exit>>
  /\ UNCHANGED <<payload, home, workspace, hook, enforceLog, transcripts, edits>>

(***************************************************************************)
(* apply_plan: the files (the hook, its rounds, the settings), then the    *)
(* copies of the workspace's graph and policy as they were mounted, then   *)
(* the skill. It may fail after any of them, and then the CLI never runs.  *)
(***************************************************************************)
ApplyPlan ==
  /\ at = "apply"
  /\ \/ ~plan.enabled /\ at' = "cli" /\ UNCHANGED <<home, log, exit>>
     \/ /\ plan.enabled /\ at' = "cli" /\ UNCHANGED <<log, exit>>
        /\ home' = [armed |-> TRUE, hook |-> plan.hook, rounds |-> 0,
                    policy |-> IF plan.copies THEN workspace.policy ELSE Absent]
     \/ /\ plan.enabled /\ Raise(log)
        /\ \E h \in {"no_hook", plan.hook}, p \in {Absent, workspace.policy} :
             /\ p # Absent => plan.copies /\ h = plan.hook
             /\ home' = [home EXCEPT !.hook = h, !.policy = p]
  /\ UNCHANGED <<payload, plan, workspace, hook, enforceLog, transcripts, edits>>

(* The model's work between two attempts to stop: it edits the workspace,  *)
(* and leaves $HOME and the hook's log alone.                              *)
Edit ==
  /\ at = "cli" /\ hook = NoHook /\ edits < MaxEdits
  /\ \E code \in Codes, policy \in Policies : workspace' = [code |-> code, policy |-> policy]
  /\ edits' = edits + 1
  /\ UNCHANGED <<payload, at, plan, home, hook, enforceLog, log, transcripts, exit>>

(***************************************************************************)
(* A Stop attempt runs the hook that settings.json registers. It reads the *)
(* rounds used; the enforcing one then builds the branch graph and runs    *)
(* the gate on it against the copies, the placebo blocks at once. To send  *)
(* the model back it counts the round, then logs it, then answers; an      *)
(* exception at any of these points allows the stop, and is logged if the  *)
(* log can still be written.                                               *)
(***************************************************************************)
Attempt ==
  /\ at = "cli" /\ hook = NoHook
  /\ IF home.hook = "no_hook" THEN at' = "stopped" /\ UNCHANGED hook
     ELSE /\ hook' = [step |-> "rounds", current |-> home.rounds, decision |-> "none"]
          /\ UNCHANGED at
  /\ UNCHANGED <<payload, plan, home, workspace, enforceLog, log, transcripts, exit, edits>>
InHook(step) == at = "cli" /\ hook.step = step
RoundsLeft == hook.current < MaxRounds

Logs(round, decision) ==
  enforceLog' = Append(enforceLog, [decision |-> decision, round |-> round])
Allow(decision) ==
  Logs(hook.current, decision) /\ hook' = NoHook /\ at' = "stopped" /\ UNCHANGED home
Block_BuildErrorsFree(decision) ==
  /\ home' = [home EXCEPT !.rounds = IF decision = "block" THEN @ + 1 ELSE @]
  /\ hook' = [hook EXCEPT !.step = "log", !.decision = decision]
  /\ UNCHANGED <<at, enforceLog>>
Block(decision) ==
  /\ home' = [home EXCEPT !.rounds = hook.current + 1]
  /\ hook' = [hook EXCEPT !.step = "log", !.decision = decision]
  /\ UNCHANGED <<at, enforceLog>>

HookExhausted == InHook("rounds") /\ ~RoundsLeft /\ Allow("exhausted")
HookPlacebo == InHook("rounds") /\ RoundsLeft /\ home.hook = "placebo" /\ Block("block")
HookGraph ==
  /\ InHook("rounds") /\ RoundsLeft /\ home.hook = "enforce"
  /\ IF workspace.code = "uncompilable" THEN Block("build_error")
     ELSE hook' = [hook EXCEPT !.step = "review"] /\ UNCHANGED <<at, home, enforceLog>>
GateReturns(policy) == IF workspace.code = "clean" \/ policy = "lenient" THEN 0 ELSE 1
HookReview ==
  /\ InHook("review")
  /\ \/ IF GateReturns(home.policy) = 0 THEN Allow("clean") ELSE Block("block")
     \/ Allow("gate_error")
HookLogs ==
  /\ InHook("log")
  /\ Logs(hook.current, hook.decision) /\ hook' = [hook EXCEPT !.step = "answer"]
  /\ UNCHANGED <<at, home>>
HookAnswers ==
  /\ InHook("answer") /\ hook' = NoHook
  /\ UNCHANGED <<at, home, enforceLog>>
HookError ==
  /\ at = "cli" /\ hook # NoHook
  /\ Logs(-1, "hook_error") \/ UNCHANGED enforceLog
  /\ hook' = NoHook /\ at' = "stopped" /\ UNCHANGED home
Hook ==
  /\ \/ HookExhausted \/ HookPlacebo \/ HookGraph \/ HookReview
     \/ HookLogs \/ HookAnswers \/ HookError
  /\ UNCHANGED <<payload, plan, workspace, log, transcripts, exit, edits>>

(***************************************************************************)
(* The CLI's end: its result object, with or without an error in it, other *)
(* output, or the timeout of the entrypoint, which may come at any time,   *)
(* while the hook runs too. Before anything is parsed, in the finally, the *)
(* transcripts are copied; one that cannot be is named on stderr, and      *)
(* where there was no session there is nothing to copy.                    *)
(***************************************************************************)
SessionActed == edits > 0 \/ enforceLog # <<>>
CaptureTranscripts ==
  transcripts' \in {"copied", "warned"} \cup (IF SessionActed THEN {} ELSE {"none"})

CliEnds ==
  /\ at \in {"cli", "stopped"}
  /\ CaptureTranscripts
  /\ \/ hook = NoHook /\ log' = FinishNative /\ at' = "exited" /\ exit' = "0"
     \/ Raise(FinishNative)  \* an object, with is_error or a return code
     \/ Raise(Finish(log))   \* no object, a return code
     \/ Raise(log)           \* exit 0 and no object, TimeoutExpired, no CLI
  /\ hook' = NoHook
  /\ UNCHANGED <<payload, plan, home, workspace, enforceLog, edits>>

Next == ReadRequest \/ ApplyPlan \/ Edit \/ Attempt \/ Hook \/ CliEnds
Spec == Init /\ [][Next]_vars

(***************************************************************************)
(* The hook's own words: it is bounded and never traps. However the model  *)
(* mixes broken and blocked builds, and wherever the hook fails, the model *)
(* is sent back MaxRounds times at most; the rounds used are the lines of  *)
(* the log, in order, but for the one round whose line was not written,    *)
(* and no session goes on after that one.                                  *)
(***************************************************************************)
Sent == {i \in 1..Len(enforceLog) : enforceLog[i].decision \in {"block", "build_error"}}
SentBefore(i) == {j \in Sent : j < i}
RedrivesBounded ==
  /\ home.rounds <= MaxRounds
  /\ home.rounds - Cardinality(Sent) \in {0, 1}
  /\ at = "cli" /\ hook = NoHook => home.rounds = Cardinality(Sent)
  /\ \A i \in Sent : enforceLog[i].round = Cardinality(SentBefore(i))

(***************************************************************************)
(* "editing /workspace/policy.json cannot defeat the gate": a session that *)
(* the gate let go as clean has clean code, whatever the model did to the  *)
(* policy in its workspace, and nothing was edited after the gate looked.  *)
(***************************************************************************)
ClearedIsClean ==
  at \in {"stopped", "exited"} /\ enforceLog # <<>> /\ enforceLog[Len(enforceLog)].decision = "clean"
    => workspace.code = "clean"

(***************************************************************************)
(* One log, in one format, on every way out: a native result is never      *)
(* rewritten, an entrypoint that fails still leaves a log, and only a      *)
(* session whose result says no error exits 0. Whatever the model did, its *)
(* transcript is kept or its loss is named. No arm but an enabled one has  *)
(* anything under $HOME, and no arm whose arming failed ran the CLI.       *)
(***************************************************************************)
EvidenceKept ==
  /\ exit # "running" => log.file # Absent /\ log.finished
  /\ log.native => log.file = "native"
  /\ exit # "running" /\ SessionActed => transcripts # "none"
  /\ exit = "0" => log.native /\ at = "exited" /\ (plan.enabled <=> home.armed)
  /\ enforceLog # <<>> => payload.workflow \in {"ground_verify_enforced", "placebo_gate"} /\ home.armed
=============================================================================
