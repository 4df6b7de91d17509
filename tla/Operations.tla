----------------------------- MODULE Operations -----------------------------
(***************************************************************************)
(* The machines that share no state with one another, side by side:        *)
(* `moving` says which of them starts and moves, and the variables of the  *)
(* others stay AtRest. A constant or variable that two machines have       *)
(* carries the name of its machine.                                        *)
(***************************************************************************)
EXTENDS Naturals

CONSTANTS Absent, AtRest

CONSTANTS
  Planners, Stages, plan_Specs, Passing, plan_MaxEdits, plan_MaxFaults
CONSTANTS
  Cands, corpus_Shas, People, Curators, Procs, MaxEvents, MaxStarts
CONSTANTS
  import_Tasks, import_Shas, Semvers, import_MaxRuns
CONSTANTS
  Runs
CONSTANTS
  Conns, gateway_Trials, Strangers, Hosts, ALLOW, NoTrial
CONSTANTS
  author_Requests, author_MaxWrites
CONSTANTS
  MaxRounds, image_MaxEdits
CONSTANTS
  trial_MaxWrites, DaemonAnswers
CONSTANTS
  Events, Anchorers, MaxLines, MaxAnchors, MaxShort, anchor_MaxFaults,
  anchor_MaxEdits
CONSTANTS
  reuse_Trials, Ephemeral, MaxGrades, MaxExports, reuse_MaxRuns

VARIABLES moving
VARIABLES
  spec, plan_locks, guard, created, plan_pc, parsed, gfd, flocked, stage,
  found, view, plan_edits, plan_faults
VARIABLES
  corpus_manifest, corpus_ledger, corpus_files, staged, cmd, starts
VARIABLES
  import_manifest, cache, import, import_runs
VARIABLES
  networks, containers, rawlog, managed, sidecars_pc, spoiled
VARIABLES
  bound, conn, gateway_log, spans, seq
VARIABLES
  author_files, author_locks, author_request, author_writes, previewed
VARIABLES
  payload, image_at, plan, home, workspace, hook, enforceLog, image_log,
  transcripts, exit, image_edits
VARIABLES
  trial_request, container, trial_files, trial_writes, trial_pc, result,
  todo, input, shas, committed
VARIABLES
  lines, torn, synced, store, anchor_pc, rec, shorts, anchor_faults,
  anchor_edits, certified
VARIABLES
  reuse_ledger, gone, snapshot, bundles, target, diffs, drifted, reuse_at,
  bundle, cells, cell, reuse_runs

PlanLock == INSTANCE PlanLock WITH
  Specs <- plan_Specs, MaxEdits <- plan_MaxEdits,
  MaxFaults <- plan_MaxFaults, locks <- plan_locks, pc <- plan_pc,
  edits <- plan_edits, faults <- plan_faults

Corpus == INSTANCE Corpus WITH
  Shas <- corpus_Shas, manifest <- corpus_manifest, ledger <- corpus_ledger,
  files <- corpus_files

Import == INSTANCE Import WITH
  Tasks <- import_Tasks, Shas <- import_Shas, MaxRuns <- import_MaxRuns,
  manifest <- import_manifest, runs <- import_runs

Sidecars == INSTANCE Sidecars WITH
  pc <- sidecars_pc

Gateway == INSTANCE Gateway WITH
  Trials <- gateway_Trials, log <- gateway_log

Author == INSTANCE Author WITH
  Requests <- author_Requests, MaxWrites <- author_MaxWrites,
  files <- author_files, locks <- author_locks, request <- author_request,
  writes <- author_writes

AgentImage == INSTANCE AgentImage WITH
  MaxEdits <- image_MaxEdits, at <- image_at, log <- image_log,
  edits <- image_edits

HarborTrial == INSTANCE HarborTrial WITH
  MaxWrites <- trial_MaxWrites, request <- trial_request,
  files <- trial_files, writes <- trial_writes, pc <- trial_pc

Anchor == INSTANCE Anchor WITH
  MaxFaults <- anchor_MaxFaults, MaxEdits <- anchor_MaxEdits,
  pc <- anchor_pc, faults <- anchor_faults, edits <- anchor_edits

ControlReuse == INSTANCE ControlReuse WITH
  Trials <- reuse_Trials, MaxRuns <- reuse_MaxRuns, ledger <- reuse_ledger,
  at <- reuse_at, runs <- reuse_runs

(* The assumptions of the modules on their constants.                      *)
ASSUME OperationsAssumption ==
  /\ PlanLock!PlanLockAssumption
  /\ Corpus!CorpusAssumption
  /\ Import!ImportAssumption
  /\ Gateway!GatewayAssumption
  /\ Author!AuthorAssumption
  /\ AgentImage!AgentAssumption
  /\ HarborTrial!HarborAssumption
  /\ Anchor!AnchorAssumption
  /\ ControlReuse!ReuseAssumption

planVars == <<spec, plan_locks, guard, created, plan_pc, parsed, gfd,
               flocked, stage, found, view, plan_edits, plan_faults>>
corpusVars == <<corpus_manifest, corpus_ledger, corpus_files, staged, cmd,
                 starts>>
importVars == <<import_manifest, cache, import, import_runs>>
sidecarsVars == <<networks, containers, rawlog, managed, sidecars_pc,
                   spoiled>>
gatewayVars == <<bound, conn, gateway_log, spans, seq>>
authorVars == <<author_files, author_locks, author_request, author_writes,
                 previewed>>
imageVars == <<payload, image_at, plan, home, workspace, hook, enforceLog,
                image_log, transcripts, exit, image_edits>>
trialVars == <<trial_request, container, trial_files, trial_writes,
                trial_pc, result, todo, input, shas, committed>>
anchorVars == <<lines, torn, synced, store, anchor_pc, rec, shorts,
                 anchor_faults, anchor_edits, certified>>
reuseVars == <<reuse_ledger, gone, snapshot, bundles, target, diffs,
                drifted, reuse_at, bundle, cells, cell, reuse_runs>>

(* A machine at rest.                                                      *)
planRests ==
  spec = AtRest /\ plan_locks = AtRest /\ guard = AtRest /\ created = AtRest
  /\ plan_pc = AtRest /\ parsed = AtRest /\ gfd = AtRest /\ flocked = AtRest
  /\ stage = AtRest /\ found = AtRest /\ view = AtRest
  /\ plan_edits = AtRest /\ plan_faults = AtRest
corpusRests ==
  corpus_manifest = AtRest /\ corpus_ledger = AtRest
  /\ corpus_files = AtRest /\ staged = AtRest /\ cmd = AtRest
  /\ starts = AtRest
importRests ==
  import_manifest = AtRest /\ cache = AtRest /\ import = AtRest
  /\ import_runs = AtRest
sidecarsRests ==
  networks = AtRest /\ containers = AtRest /\ rawlog = AtRest
  /\ managed = AtRest /\ sidecars_pc = AtRest /\ spoiled = AtRest
gatewayRests ==
  bound = AtRest /\ conn = AtRest /\ gateway_log = AtRest /\ spans = AtRest
  /\ seq = AtRest
authorRests ==
  author_files = AtRest /\ author_locks = AtRest /\ author_request = AtRest
  /\ author_writes = AtRest /\ previewed = AtRest
imageRests ==
  payload = AtRest /\ image_at = AtRest /\ plan = AtRest /\ home = AtRest
  /\ workspace = AtRest /\ hook = AtRest /\ enforceLog = AtRest
  /\ image_log = AtRest /\ transcripts = AtRest /\ exit = AtRest
  /\ image_edits = AtRest
trialRests ==
  trial_request = AtRest /\ container = AtRest /\ trial_files = AtRest
  /\ trial_writes = AtRest /\ trial_pc = AtRest /\ result = AtRest
  /\ todo = AtRest /\ input = AtRest /\ shas = AtRest /\ committed = AtRest
anchorRests ==
  lines = AtRest /\ torn = AtRest /\ synced = AtRest /\ store = AtRest
  /\ anchor_pc = AtRest /\ rec = AtRest /\ shorts = AtRest
  /\ anchor_faults = AtRest /\ anchor_edits = AtRest /\ certified = AtRest
reuseRests ==
  reuse_ledger = AtRest /\ gone = AtRest /\ snapshot = AtRest
  /\ bundles = AtRest /\ target = AtRest /\ diffs = AtRest
  /\ drifted = AtRest /\ reuse_at = AtRest /\ bundle = AtRest
  /\ cells = AtRest /\ cell = AtRest /\ reuse_runs = AtRest

Init ==
  \/ /\ moving = "plan" /\ PlanLock!Init
     /\ corpusRests /\ importRests /\ sidecarsRests /\ gatewayRests
     /\ authorRests /\ imageRests /\ trialRests /\ anchorRests /\ reuseRests
  \/ /\ moving = "corpus" /\ Corpus!Init
     /\ planRests /\ importRests /\ sidecarsRests /\ gatewayRests
     /\ authorRests /\ imageRests /\ trialRests /\ anchorRests /\ reuseRests
  \/ /\ moving = "import" /\ Import!Init
     /\ planRests /\ corpusRests /\ sidecarsRests /\ gatewayRests
     /\ authorRests /\ imageRests /\ trialRests /\ anchorRests /\ reuseRests
  \/ /\ moving = "sidecars" /\ Sidecars!Init
     /\ planRests /\ corpusRests /\ importRests /\ gatewayRests
     /\ authorRests /\ imageRests /\ trialRests /\ anchorRests /\ reuseRests
  \/ /\ moving = "gateway" /\ Gateway!Init
     /\ planRests /\ corpusRests /\ importRests /\ sidecarsRests
     /\ authorRests /\ imageRests /\ trialRests /\ anchorRests /\ reuseRests
  \/ /\ moving = "author" /\ Author!Init
     /\ planRests /\ corpusRests /\ importRests /\ sidecarsRests
     /\ gatewayRests /\ imageRests /\ trialRests /\ anchorRests
     /\ reuseRests
  \/ /\ moving = "image" /\ AgentImage!Init
     /\ planRests /\ corpusRests /\ importRests /\ sidecarsRests
     /\ gatewayRests /\ authorRests /\ trialRests /\ anchorRests
     /\ reuseRests
  \/ /\ moving = "trial" /\ HarborTrial!Init
     /\ planRests /\ corpusRests /\ importRests /\ sidecarsRests
     /\ gatewayRests /\ authorRests /\ imageRests /\ anchorRests
     /\ reuseRests
  \/ /\ moving = "anchor" /\ Anchor!Init
     /\ planRests /\ corpusRests /\ importRests /\ sidecarsRests
     /\ gatewayRests /\ authorRests /\ imageRests /\ trialRests
     /\ reuseRests
  \/ /\ moving = "reuse" /\ ControlReuse!Init
     /\ planRests /\ corpusRests /\ importRests /\ sidecarsRests
     /\ gatewayRests /\ authorRests /\ imageRests /\ trialRests
     /\ anchorRests

Next ==
  /\ UNCHANGED moving
  /\ \/ /\ moving = "plan" /\ PlanLock!Next
        /\ UNCHANGED <<corpusVars, importVars, sidecarsVars, gatewayVars,
                       authorVars, imageVars, trialVars, anchorVars,
                       reuseVars>>
     \/ /\ moving = "corpus" /\ Corpus!Next
        /\ UNCHANGED <<planVars, importVars, sidecarsVars, gatewayVars,
                       authorVars, imageVars, trialVars, anchorVars,
                       reuseVars>>
     \/ /\ moving = "import" /\ Import!Next
        /\ UNCHANGED <<planVars, corpusVars, sidecarsVars, gatewayVars,
                       authorVars, imageVars, trialVars, anchorVars,
                       reuseVars>>
     \/ /\ moving = "sidecars" /\ Sidecars!Next
        /\ UNCHANGED <<planVars, corpusVars, importVars, gatewayVars,
                       authorVars, imageVars, trialVars, anchorVars,
                       reuseVars>>
     \/ /\ moving = "gateway" /\ Gateway!Next
        /\ UNCHANGED <<planVars, corpusVars, importVars, sidecarsVars,
                       authorVars, imageVars, trialVars, anchorVars,
                       reuseVars>>
     \/ /\ moving = "author" /\ Author!Next
        /\ UNCHANGED <<planVars, corpusVars, importVars, sidecarsVars,
                       gatewayVars, imageVars, trialVars, anchorVars,
                       reuseVars>>
     \/ /\ moving = "image" /\ AgentImage!Next
        /\ UNCHANGED <<planVars, corpusVars, importVars, sidecarsVars,
                       gatewayVars, authorVars, trialVars, anchorVars,
                       reuseVars>>
     \/ /\ moving = "trial" /\ HarborTrial!Next
        /\ UNCHANGED <<planVars, corpusVars, importVars, sidecarsVars,
                       gatewayVars, authorVars, imageVars, anchorVars,
                       reuseVars>>
     \/ /\ moving = "anchor" /\ Anchor!Next
        /\ UNCHANGED <<planVars, corpusVars, importVars, sidecarsVars,
                       gatewayVars, authorVars, imageVars, trialVars,
                       reuseVars>>
     \/ /\ moving = "reuse" /\ ControlReuse!Next
        /\ UNCHANGED <<planVars, corpusVars, importVars, sidecarsVars,
                       gatewayVars, authorVars, imageVars, trialVars,
                       anchorVars>>

vars == <<moving, planVars, corpusVars, importVars, sidecarsVars, gatewayVars, authorVars, imageVars, trialVars, anchorVars, reuseVars>>
Spec == Init /\ [][Next]_vars

-----------------------------------------------------------------------------
(* PL-3: "exactly one lock per ledger", however many planners race through *)
(* the guard, its unlinking and its re-creation (plan/lock.py).            *)
AtMostOneLock == moving = "plan" => PlanLock!AtMostOneLock

(* PL-2: the sha that is locked is of bytes that passed the gates, although*)
(* experiment.yaml may change in between (plan/lock.py).                   *)
LockPassedGates == moving = "plan" => PlanLock!LockPassedGates

(* PRA-M1: a stage runs the locked spec, never one swapped in between the  *)
(* check of its sha and its use (plan/lock.py, assert_lock).               *)
RunsLockedSpec == moving = "plan" => PlanLock!RunsLockedSpec

(* No order of commands, relabelled approval, overlap or death of a        *)
(* command admits a task whose signer mined it, and what the manifest and  *)
(* the embedded copies claim is on the chain first, a subset drawn without *)
(* --ledger apart (corpus/admit.py, D-P4-3; corpus/api.py, CO-9).          *)
CorpusSound ==
  moving = "corpus" => Corpus!AdmissionEarned /\ Corpus!ManifestFollowsChain

(* An import carries what the manifest before it recorded of the same      *)
(* content and launders nothing, wherever an earlier import died           *)
(* (corpus/public.py, PRA-M12).                                            *)
ImportSound == [][moving = "import" => Import!CarriesState]_vars

(* Runs that start, fail and tear down side by side leave one another's    *)
(* sidecars reachable and nothing of their own behind (hermetic/           *)
(* sidecar.py, incident 2026-07-10; D-09-1).                               *)
SidecarsSound ==
  moving = "sidecars" => Sidecars!UpMeansReachable /\ Sidecars!NothingLeaks

(* Bytes reach an upstream unbroken and only behind their own allow line,  *)
(* whatever trial the client names; a trial's spans are the batches        *)
(* acknowledged under its id, once each                                    *)
(* (the metering proxy and the span collector of src/harness/hermetic).    *)
GatewaySound ==
  moving = "gateway" => Gateway!MeteredEgress /\ Gateway!SpansAttributed

(* Saves, previews and locks in any order: a stage starts only on files    *)
(* that were read whole and locked, and a green preview of files nobody    *)
(* changes is not refused at the lock (author/server.py).                  *)
AuthorSound ==
  moving = "author" => Author!RunnableIsLocked /\ Author!GreenPreviewLocks

(* The Stop hook sends the model back MAX_ROUNDS times at most, and logs   *)
(* each but one that ends the session; a cleared exit was scored by the    *)
(* arm's own policy; and every way out leaves one log and the transcripts  *)
(* (src/images/reference/claude-code-groundwork/agent.py).                 *)
AgentImageSound ==
  moving = "image" =>
    AgentImage!RedrivesBounded /\ AgentImage!ClearedIsClean /\ AgentImage!EvidenceKept

(* What a completed trial's record committed to is what its workspace      *)
(* still holds, unless the kill was never confirmed, where docker inspect  *)
(* fails only for a container that is gone; and the environment the        *)
(* container saw is the one the request asked for                          *)
(* (run/engines/harbor.py, run/seam.py).                                   *)
HarborTrialSound ==
  moving = "trial" =>
    HarborTrial!EnvironmentHolds /\ (DaemonAnswers => HarborTrial!EvidenceIsFinal)

(* A cross-check that passed vouches for one history whatever is rewritten *)
(* later, no checkpoint is stored that the chain does not announce, and an *)
(* honest ledger raises no alarm (ledger/anchors.py, ledger/api.py).       *)
AnchorSound ==
  moving = "anchor" =>
    Anchor!AnchoredHistoryFixed /\ Anchor!NoOrphanCheckpoint /\ Anchor!NoFalseAlarm

(* What the marker of a reused control attests is there once, beside its   *)
(* snapshot, wherever an import was killed and whichever bundle resumed    *)
(* it; and a control that is reused is never run (run/reuse.py).           *)
ReuseSound ==
  moving = "reuse" => ControlReuse!AttestedImport /\ ControlReuse!NoFreshControl
=============================================================================
