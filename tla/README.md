# verdi-bench in TLA+

verdi-bench runs controlled comparisons of coding agents: an experiment is
pre-registered and locked, its trials are run in containers under a cost ceiling,
graded, judged by a model, reviewed by people, and analysed into findings that may be
called official only when a fence of checks passes. Every stage is a separate `bench`
process. The stages have no coordinator, no database and no shared memory: what one
tells another is an event in `ledger.ndjson`, a hash-chained append-only file, and a
stage that starts again after a crash knows only what the ledger says. The
interesting behaviour is therefore

- what several processes do to one file,
- what a process read before somebody else appended,
- what is and is not on the ledger when a process dies,
- how spend is counted over reruns, resumes and two kinds of judging, and
- in which order capture, reveal, selfcheck, head and render may happen.

This directory models that. Paths below are relative to `src/harness/` unless they
start with `src/`. `PROJECT.json` holds, for each definition, the lines it stands for;
for each property, a mutant of the code that breaks it; and the list of hazards.

## 1. Inventory

| Component | State it keeps | Operations | Interacts through | What is hard | Module |
|---|---|---|---|---|---|
| ledger chain (`ledger/chain.py`, `ledger/query.py`) | the file, its torn tail, the flock | `append_event`, `verify_chain`, `tail_events` | every stage and every observer | concurrent appends, short writes, crashes and power loss between write and fsync, pollers reading half a line | `Chain`, `Ledger`, `AppendOnlyLog`, `LedgerProofs` |
| anchors (`ledger/anchors.py`, `ledger/api.py`) | anchor store outside the experiment | `anchor`, `verify_against_anchor` | ledger, external store | two reads of a growing file, two writes that a crash separates, rewritten history | `Anchor` |
| author (`author/server.py`) | a draft directory, a threaded server | save, preview, lock | files, the lock | a save that is half written, between two reads, or after the lock | `Author` |
| lock (`plan/lock.py`) | `experiment_locked`, the guard file | `lock_experiment`, `assert_lock` | every later stage calls `assert_lock` | racing planners, an unlinked guard, the spec edited under the reader | `PlanLock`, `ReadThenAppend` |
| schema and settings (`schema/`, `run/settings.py`, `run/egress.py`) | none | validate, resolve keys, hosts and egress | the schedule, one trial | two files and the environment must agree about who may reach what | `Settings` |
| one trial (`run/seam.py`, `run/engines/base.py`, `run/budget.py`) | none; a function of what the attempt met | `run_trial`, `EngineBase.run` | called by the schedule | which of several failures wins, what a failed attempt is charged | `Trial` |
| a trial's container (`run/engines/harbor.py`, `run/redact.py`, captures) | a container, the workspace, three artifacts | run, kill, scrub, capture, commit a hash | docker | a container that outlives its kill, secrets that a pattern misses or whose removal breaks a file | `HarborTrial` |
| schedule (`run/interleave.py`, `run/budget.py`, `run/heartbeat.py`) | guard total, realized order, the heartbeat sidecar | `schedule`, infra reruns, ceiling stop | ledger, sidecar, observers | resume after a kill at any point, the ceiling inside the rerun loop, an honest sidecar | `RunSchedule`, `RunScheduleProofs` |
| hermetic (`hermetic/`) | two containers a run, two networks of the host | sidecar up and down, sweeps | docker | two runs on one host that raise, need and remove the same networks | `Sidecars` |
| inside the sidecars (`hermetic/_*_container.py`) | allow log, span log, a sequence counter | tunnel, reverse proxy, collect | a thread per connection | bytes before their allow line, batches attributed to another trial | `Gateway` |
| agent image (`src/images/reference/claude-code-groundwork`) | settings, a hook, its counter and log | arm, run the CLI, gate a stop | the container of a trial | a Stop hook that traps the model, or is defeated by what the model edits | `AgentImage` |
| adapters (`adapters/`) | none | native logs and spans to telemetry | one trial | spans in any order, logs that violate the format they declare | `Telemetry` |
| control reuse (`run/reuse.py`, `run/control_reuse.py`) | a bundle | export, gated and resumable import | two ledgers, snapshots beside the target's | resuming half an import, a source that goes on while it is exported, a run without the flag | `ControlReuse` |
| grade (`grade/api.py`, `grade/deterministic.py`) | none between passes; the skip set of a pass | `grade_experiment` | trials in, grades out | stale skip set, transient against terminal refusals, overrides, docker that comes and goes | `Grade`, `GradeProofs` |
| graders and baseline (`grade/fence.py`, `grade/runners.py`, `grade/baseline.py`) | none | fences, parsing, plugins, the flake baseline | one grading attempt | tested code that prints a verdict of its own, an outage taken for a failure | `GradeFence`, `Evidence`, `GradeProofs` |
| judge (`judge/`) | the token total of a session | `judge_pair`, both passes of `JudgingSession` | trials in, verdicts out | resuming after transient verdicts, one budget over two passes, swapped positions | `Judge`, `JudgeProofs` |
| blinding (`blind/`, `judge/packet.py`, `judge/envelope.py`) | none | scrub, leak scan, packets, reply envelopes | judge, process, forensics | one removal that uncovers another name | `Blind`, `Evidence`, `GradeProofs` |
| review (`review/`) | none; a threaded server | build, capture, reveal, score | judge verdicts in, human verdicts out | parallel requests, a rebuild that selects another queue, a build that dies | `BlindReview`, `Review`, `ReadThenAppend`, `ReviewProofs` |
| process scores (`process/`) | none | human and judge scores, coverage, agreement | after a reveal | the reveal gate; sessions that score again | the gate in `Review`, the rest in `Process` |
| forensics (`forensics/`) | none | scan, detectors, metrics, advisory review | committed evidence | bytes that are not what was committed; absence taken for a clean answer | `Forensics`, `Evidence`, `GradeProofs` |
| contamination (`contamination/`) | none | overlap, canary, memory probe, dating | trials' solutions, models | a provider that stops half way through a probe | `Contamination`, `Evidence`, `GradeProofs` |
| analyze (`analyze/api.py`, the fence, selfcheck) | three files on disk | `run_analyze`, `run_selfcheck_cli` | everything on the ledger | checks that each read a ledger which moves, artifacts without an event | `Official`, `OfficialProofs` |
| analyze (numbers and text) | none | extract, decide, disclose, render | the findings document | a trial quarantined in one section and counted in another; documents that disagree | `Statistics`, `Findings`, `Documents` |
| status, serve (`status/`, `serve/`, `ledger/view.py`) | none | read-only views | ledger, sidecar | counts that differ from what the stages would do next, a tail cursor | `Observe`, `Ledger` (the tail), `RunSchedule` (count and spend) |
| corpus: curation (`corpus/admit.py` and the rest) | manifest files, candidate files | mine, approve, baseline, admit, subset, calibrate | ledger and manifest | two writes that a crash separates, overlapping load-and-save | `Corpus` |
| corpus: import (`corpus/public.py`, `corpus/benchmarks.py`, `corpus/materialize.py`) | a cache of blobs, a manifest saved last | import, materialise, prune | the cache | an import that dies between blobs and manifest, a status carried to other content | `Import` |
| event constructors (`ledger/events.py`) | none | build and append one event each | every stage | - | with the component that calls them |
| sdk, CLI, webkit, image builds | none | argument handling, parsing, rendering | the stages | - | not modelled |
| outside the harness (`src/corpora`, `src/scripts`, `src/deploy`, `src/docs`, `src/tests`, the other images) | - | - | - | - | not modelled |

What makes each component correct:

- **ledger**: the complete lines are one chain; an acknowledged event survives
  everything; a poller is given every event once; nobody keeps the flock.
- **anchors**: an anchored prefix that passed a cross-check is that prefix for ever; no
  checkpoint without its announcement; no alarm on an honest ledger.
- **lock**: one lock; of bytes that passed the gates; and every stage runs those bytes.
- **trial**: the most specific failure is named; under-reporting buys nothing; a
  timeout stays a datapoint and is paid for.
- **schedule**: one trial per cell; the ceiling holds; a stop is final; the order is
  complete; the sidecar is honest.
- **judge**: one conclusion per comparison; the ceiling holds over both passes; a
  winner is preferred in both positions; every pair is concluded at last.
- **review**: capture, then reveal, then score; one verdict of a comparison (which the code
  keeps for one request at a time, §3); every queue can be finished.
- **analyze**: an official render is earned by the ledger its event names; no orphan
  artifact.
- **grade**: an outcome after a settled one is explained by an override or by what the
  pass had read; a grade is never knowingly overridden; nothing a finished pass saw is
  left without an event.
- **control reuse**: the marker vouches for each cell once and with its snapshot; the
  arm is never run after it; a resumed import is equal to an uninterrupted one (which
  the code does not keep, §3).
- **corpus**: whoever signs an admission did not mine the task, and signed that
  version; the manifest claims no admission, calibration status or ledgered draw the chain did
  not record first; an import launders nothing.
- **sidecars**: while a run executes its sidecars are reachable, whatever other runs
  do; when the last has left nothing is left behind.
- **gateway**: bytes leave only behind the one allow line of their connection, whatever
  name the client gave; a trial's spans are its acknowledged batches, once each.
- **author**: a stage starts only on files that were read whole, checked and locked; a
  green preview is not refused at the lock.
- **agent image**: the hook is bounded, and a stop it lets through was scored by the
  arm's own policy.
- **evidence**: what a recorded trial committed to holds no secret and stays what it is;
  detectors speak on committed bytes only and name what they could not read.
- **decisions**: what an analysis claims follows from the trials it may use, and each
  document says the same.

## 2. Modules and the code

### `Chain`, `Ledger`, `AppendOnlyLog`
`Chain` is the pure part of `chain.py`: lines, links and `verify_chain`. SHA-256 is an
injection: the hash of a line is a tagged copy of it, so a hash stands for the history
it closes. `Ledger` runs `append_event` in its own steps (open, flock, refuse a torn
tail, read the head, one `os.write`, fsync, the `finally`) for every writer, with
short writes, crashes, power loss of the unsynced end, the operator's repair of a torn
tail, and pollers of `tail_events`. A write onto a torn tail completes the torn line,
as it would in the file. A power loss takes the observers with it: they start again at
offset zero, as a restarted `serve` does. `AppendOnlyLog` is what readers may rely on;
`Ledger` implements it with `log <- SubSeq(lines, 1, synced)`.

The other modules take one append as one step. `LedgerProofs` (`MutualExclusion` and
`ChainStaysIntact`) is why they may; the fsync is kept where it matters (`Anchor`).

### `Anchor`
`bench anchor` is three steps: verify the chain, read the lines to checkpoint (a second
read of a file that may have grown or been torn meanwhile), append `chain_anchor`; then
the record goes to the store. Somebody with the user's rights may rewrite either file,
recomputing every later hash. A passing cross-check records what it vouched for
(`certified`, an observation only).

### `PlanLock`
`lock_experiment` with the guard file as an inode behind a name: it is created by
whoever opens it first, unlinked by whoever recorded a lock, and re-created under the
same name with another inode, on which an flock says nothing about the first.
`assert_lock` is two steps, the events and then the one read of the spec; the stage
goes on with what it parsed. The spec may be edited at any moment.

### `Trial`, `RunSchedule`
`Trial` is `run_trial` around `EngineBase.run` as a function from what the attempt met
(container end, the three logs, two cost figures, a step that raises) to how the
schedule sees it end and what it is charged. It says nothing of the files; `HarborTrial`
has those. `RunSchedule` is `schedule`: prior state
from the ledger, the loop over cells, the ceiling before a cell and before every rerun,
infra reruns, the events with or without a cost, the guard, the heartbeat, and the
`finally` that records the order. Its attempts must be among the results of `Trial`
(`RunAssumption`). `StatusDone` and `StatusSpend` are what an observer computes of the
same ledger.

### `Grade`
A pass is: read the settled trials (`_completed_trials`), read the ledger again to
resolve `--retry-terminal`, probe docker, list the trials, then one event per trial,
marks if the probe failed, grades or refusals if it did not. `find_events` returns a
list, so the trials are those of one moment (`todo`, positions taken in order). Passes
overlap, die and are repeated, `bench run` appends trials meanwhile, and what an attempt
with a container comes to is any of `Outcomes` at any time, because docker may stop or
come back after the probe. `override_of` is a line hash, here the position of the line.
`began` is the length of the ledger a pass read first; the event keeps it (`seen`),
which nothing but the properties reads.

### `ControlReuse`
The export reads trials, then grades, then workspaces and head, while the source goes
on. The steps of the source need nothing of `Grade` but that a trial can be graded
again: the grade of a cell is the line that graded it. The import looks for its marker,
then at the fingerprint gate, then takes up the cells that have no `reused_trial` yet,
one at a time and in any order, each in up to three writes (snapshot, trial, grade),
and appends `control_reused` last.
A run may be told another bundle than the last one was, or none, and may die between
any two writes. The arm is dropped from the schedule if the ledger names it as reused;
otherwise its trials are run (`RunFresh`).

### `Judge`
A session is two passes, native pairs and then pairs with a reused control, over what
`assemble.py` finds complete and not conclusively judged when the pass starts. Each
comparison is `judge_pair`: a leak check, one call per order, a failed call that ends
it at once, and the combination. Each verdict is appended as it is reached. The
running total is seeded from the verdicts of both kinds and carried from one pass to
the next.

### `BlindReview`, `Review`, `ReadThenAppend`
`BlindReview` is the promise for one comparison when up to `Parallel` requests are handled
at a time: revealed only after a verdict, scored only after a reveal, and no more verdicts,
and no more reveals, than there are requests in parallel; with one, that is one blind
verdict and then one reveal. `Review` is how it is kept, with the handlers of the server as
`Parallel`: a build appends its packet events one by one and then its batch; capture,
reveal and score each check gates over one read of the ledger and append later, with
nothing held in between; and the judge may judge again what was transient.
`ReadThenAppend` puts beside it the other command that appends on the strength of a read,
`bench plan`, which reads again under its guard. The two share no state; `moving` says
which of them runs.

### `Official`
`run_analyze` reads the data, computes, reads the head, and validates twice (for the
findings and for the dossier), each time the head and then, for an official render,
the eight fence checks in order with a read of the ledger each; then the event and
three files. `FenceReport` is what an observer is shown of the same checks, item by item; by
design it leaves the deployed method to the render (`analyze/fence.py`), so what is shown
ready may be refused, but nothing renders that was not shown ready (`OfficialIsEarned`).
The correction is derived from the locked spec, of which there is one, so here it is a
constant, and its check never fails.
`run_selfcheck_cli` reads the data, simulates, and appends. Other
commands append trials, verdicts, calibrations and probes between any two steps.

### `Corpus`, `Import`
Every curation command is a process that loads the manifest, decides, appends its
events and saves the whole manifest back, without a lock; it may be killed, or its save
may fail, in between. A candidate file is its sha, an approval the pair of the key that
signed and the name the command line gave. `corpus subset` saves its draw whether or not
it was given a ledger to record it on. `staged` remembers who ever mined a version,
which no file does. `Import` computes a new manifest from the dataset and the manifest
of the import before it, writes blobs one by one, and saves; the operator bumps
versions and edits statuses between imports.

### `Author`
A save opens (and truncates) one file after another; a preview and a lock read spec,
rubric and tasks one after another; requests run in parallel and only the append of the
lock is guarded, as in `PlanLock`. `StageStarts` is what `assert_lock` and the task
commitment accept later.

### `Sidecars`, `Gateway`
Each docker command of `ManagedSidecar` is a step and may fail; containers and the two
networks belong to the host, so runs meet on them. `bench proxy down` and a kill set
`spoiled`: after them the code promises nothing to a run that was up. `Gateway` is one
thread per connection inside the sidecars: the CONNECT tunnel and the reverse proxy
with their allow lines, the collector with its counter and its file behind two
different locks. A client names its trial as it likes, "-" and names of no trial included, and nobody
looks a name up.

### `HarborTrial`, `AgentImage`
`HarborTrial` is the evidence of one trial, step by step: the workspace is staged and
the image resolved, the container starts with the environment that `docker run` makes of
its layers (the last of a name holds: the key is the arm's whatever the task declares, and
the hosts that bypass the proxy are merged with the task's), and it writes while it lives; the harness takes it for dead after `docker
kill`, `wait` and `inspect`; then the logs pass their doors, the workspace is scrubbed
file by file, trajectory and flight recorder are made of one read of the scrubbed log,
and grading commits a hash. Raising the metered network or writing the request's file may
fail before there is a container, and a file being scrubbed may be refused or end before its
data does; both fail the trial. A missing proxy or collector log turns a completed trial into an
infra failure. A file is the kinds of secret it holds and whether it parses.
`DaemonAnswers` says that `docker inspect` fails only for a container that is gone;
what the code does without it is in §3.

`AgentImage` is the entrypoint inside one such container: plan, apply (which may fail
after any of its writes), CLI, and the log and the transcripts on every way out; a
transcript that cannot be copied is named on stderr, and the exit stays what it was. The
Stop hook is taken apart: it reads the round counter, decides (with the gate, or without
one for a placebo), stores the counter, logs the round, and answers; it may fail at any
point, and then allows the stop. The model edits the workspace between two stops and
leaves `$HOME` and the hook's log alone. `MAX_ROUNDS` is the code's own 3.

### `Operations`
`PlanLock`, `Corpus`, `Import`, `Sidecars`, `Gateway`, `Author`, `AgentImage`,
`HarborTrial`, `Anchor` and `ControlReuse` share no state: an interleaving of two of them
shows nothing that one alone does not. `Operations` instantiates all ten, with their
constants as its own, and lets `moving` say which one starts and moves; the variables of
the others are `AtRest`. Its reachable states are the disjoint union of those of the ten,
and each of its properties speaks of one. A constant or a variable that two machines have
carries the name of its machine (`plan_pc`, `author_files`).

### `Evidence`, `Decisions` and the modules of operators
What keeps no state is written as operators over one input, with the inputs to check
beside them (`...Cases`) and one predicate that says what an answer owes (`...Sound`).
`Evidence` puts the questions of `Blind`, `GradeFence`, `Forensics` and `Contamination`, and
those of any other subjects it is given as `OtherCases`; `Decisions` extends it, and its run
gives it the questions of the other modules. The two are apart because what `Evidence` says
of its own four is proved (§4), beside whatever else is asked:

| Module | Of what input | What the answer owes |
|---|---|---|
| `Trial` | an attempt's environment | the most specific failure; under-reporting buys nothing; a timeout survives |
| `Settings` | spec, run config, environment | the locked egress, keys and flags reach the arms that declare them |
| `Telemetry` | a span export, a stream, a log | the order of arrival does not matter; a tool's result is its own; a violated format never becomes an absence |
| `GradeFence` | what is printed before, around and after a grader's block, whether it decodes, and how its container ends; what runners without docker find; a plugin's ground; baselines; quarantine events | the score is the grader's and not the tested code's; retried only what never ran; an event for each attempt but those that end the pass |
| `Process` | replies of several sessions | each dimension scored once; coverage and agreement of the same trials |
| `Forensics` | a trial's bytes, steps, a reviewer's reply | tampered bytes are silent; coverage adds up; null is never an estimate; a review that fails adds nothing |
| `Contamination` | texts, probes, dates, the whole command over a directory of replies | a copied window is found; a probe is complete or silent; a date is conservative |
| `Blind` | a text, a pair | no arm's name leaves, even one that a removal uncovers |
| `Statistics` | agreements, samples, effects | kappa and its gate, exact power, intervals that are order statistics, dominance pair by pair |
| `Findings` | a ledger of trials, grades, verdicts | nothing of a quarantined trial, nothing imputed, decisions earned under Holm's step-down |
| `Documents` | a findings document | its two renders, dossier and card say the same |
| `Observe` | a ledger | the counts are the work each stage would find, the compare screen shows the pairs that the judge compares, and a tampered ledger is withheld |

Fractions are pairs, texts are sequences of symbols, and what a seed would draw is part
of the input.

## 3. What is checked

| Run | Instance | What it shows |
|---|---|---|
| `ledger` | two writers, one poller, three lines, two faults | the chain is intact, acknowledged events are durable, the tail is exact, appends finish, and the log is implemented |
| `schedule` | three cells (one not admitted), ceiling 2, one rerun, two runs, a crash or interrupt | cells, ceiling, order and sidecar over a resume |
| `judge` | two native pairs and a reused one, one leaking, ceiling 3, a transient, a death | conclusions, ceiling, stops, position bias, and that all is concluded |
| `grade` | a trial of a known and one of an unknown task, two processes, three passes, overrides of either trial | second outcomes are explained, overrides are earned, nobody is left unanswered |
| `read_then_append` | two handlers in parallel, two comparisons, a judge that fails once, a build that may die; or three planners, a stage, a passing and a failing spec, an edit, a fault | capture, then reveal, then score, within the handlers there are; queues can be finished; planners finish and nothing waits for ever |
| `official` | an analysis, a selfcheck, seven kinds of other events, a crash | official renders are earned, and were shown ready; no orphan artifacts |
| `operations` | the ten machines of `Operations` | one lock, of checked bytes, run by every stage; curation and imports launder nothing; sidecars stay reachable and leave nothing; metered egress and spans; saves against the lock; the Stop hook; evidence is final; anchors; reused controls |
| `decisions` | about 205,000 questions | what each answer owes, in the table above |
| `run_resume`, `reuse_import`, `status_spend`, `one_verdict` | as `schedule`, the `ControlReuse` of `operations`, and `read_then_append` | four sentences of the source that the code does not keep |

Deadlock is not an error in these runs, save `read_then_append`, which never stops because
a stage, a planner or a build may always start; the others end when a bound is used up or a
question is answered.

### The bounds, and why they are enough
- `ledger`: a race needs two writers; a torn tail, its repair and an append after it
  need three lines; a crash and a power loss together need two faults.
- the lock in `read_then_append` and `operations`: the guard is dangerous only for three planners: one that locks and
  unlinks, one that waits on the old inode, one that opens the new name.
- `schedule`: two runs are a resume; one retry makes an attempt after an infra failure;
  ceiling 2 with cost 1 can be reached between cells, between attempts and not at all.
- `judge`: two calls of one token make the ceiling of 3 fall inside, between and after
  comparisons and on either side of the pass boundary; two stops make a session that
  follows one.
- `grade`: a stale skip set needs two passes that overlap, and an override between them
  a third; one trial of each kind meets both ways through the loop.
- the review in `read_then_append`: one comparison that changes from transient to judged,
  and one that agrees, are enough for two different selections. Two handlers are the
  smallest number that can race. Three requests that are not refused are two verdicts of
  one comparison in a race and a reveal, a verdict and two reveals in a race, or a verdict, a
  reveal and a score; 179,000 states in all.
- `official`: five ledger positions hold a trial, a verdict, a calibration, a selfcheck
  and one event that undoes any of them.

- `operations`:
  - corpus: one candidate of one content, two people of whom one may sign, two command
    processes, three commands and three events. An admission takes an approval and a
    baseline before it; two processes overlap, and the third command is the re-run.
  - import: two tasks, two contents, two versions, three imports: one to start from, one
    that dies, one that resumes.
  - sidecars: two runs, each with either or both sidecars.
  - gateway: two connections, two trials, a name of no trial beside "-", two hosts of which
    one is allowed.
  - author: three requests (a save, a preview, a lock) and four half-writes.
  - agent image: `MAX_ROUNDS` and four edits by the model, one more than the rounds, so
    an edit may follow the last of them.
  - trial: one write of the container, at any moment of its life; task variables of none or
    all of the names that matter; a daemon that answers `docker inspect` (see below for
    one that does not).
  - anchors: two records of one height are the smallest case in which two checks can
    disagree about history; three lines leave room below, at and above an anchor.
  - reuse: one trial imported and one not is a half import; two runs are a resume; two
    exports let a second bundle meet the cells of the first.
- `decisions`: each module's cases take every branch of its operators; a sequence has up
  to three or four elements, enough for a first, a last and one in between.

### Where the code and its documentation part
Four runs end in a violation. Each states a sentence of the source that the code does
not keep.

- `run_resume`: infra failures are charged to the guard of their run but ledgered
  without a cost, so a resumed run starts without it (`run/interleave.py`).
- `reuse_import`: an import killed between a cell's `reused_trial` and its
  `reused_grade` takes the cell as done when it is resumed, and `control_reused`
  attests the whole without that grade (`run/reuse.py`).
- `status_spend`: `_spend` sums the costs of trial events; the guard of the next run
  also counts what a `trial_infra_failed` event says was metered
  (`status/aggregate.py`: "status and the guard cannot disagree").
- `one_verdict`: two submissions of one comparison on two threads of the server both pass
  the duplicate check before either appends (`review/record.py`: "exactly one human verdict
  per comparison"). What is left of the promise with several handlers is
  `CaptureThenReveal`, which `read_then_append` checks.

Other divergences met while modelling, which the models have as the code does and no
run is kept for:

- A result appended while the selfcheck simulates lies before its event and counts as
  validated by it (`analyze/selfcheck.py` calls position "a pure ordering test").
- A verdict that passed its checks before a reveal may be appended after it, and is then
  not blind, though `review/record.py` refuses "a post-reveal verdict".
- A later build lets a reveal through while an earlier queue that holds the comparison
  is not captured (`ledger/events.py` refuses "any reveal in a batch until EVERY batched
  comparison has a human verdict"; the gate looks at the latest batch only).
- Docker that stops after the probe of a grading pass makes `docker run` exit 1, and the
  trials left get a terminal `container_failure`, although `grade/isolation.py` says a
  docker outage stays retryable. A grader that always takes longer than its 1800 s is transient, so it is
  tried in every pass (`GradeFence`).
- Some attempts end the pass with no event for the trial, although
  `grade/deterministic.py` calls "a grade attempt without an event [...] unrepresentable"
  and says "Exactly one event appended". Container output is decoded strictly
  (`hermetic/docker.py`) and only OS and subprocess errors are caught, so tested code that
  prints bytes which are no UTF-8 raises `UnicodeDecodeError` (of a plugin's container,
  and of plugins in process, the handler around the plugins makes it `plugin_error`).
  `local` catches only a JSON error of the results file, not one of reading or decoding
  it; `local-exec` decodes what a holdout prints, and a `holdout.json` that does not
  validate or a missing command binary escapes as well. And the hash of the workspace may
  meet a file that cannot be read, as the source says ("a crash beats an unverifiable
  commitment"), or a name that cannot be encoded. The flake baseline counts what does not
  decode or validate, a `ValueError`, as a run that failed. (`GradeFence`; a pass that
  ends so is a step `Dies` of `Grade`.)
- A workspace is hashed into the grade after a copy of it was graded
  (`grade/deterministic.py`); nothing keeps it still in between.
- An import killed before its marker drops no arm: a run without `--reuse-control` then
  runs the control beside the reused trials (`run/reuse.py`, `reused_arms`).
- A second bundle leaves a cell of the first its grade, while the target attests the
  second and the judge names the latest bundle as the origin (`judge/reuse.py`).
- A bundle cites the ledger head read after its grades (`run/reuse.py`).
- `SpendTracker` replaces the proxy's figure by the agent's claim once there is one
  (`run/seam.py`), where the guard takes the larger (`run/budget.py`).
- An exception after the engine ran that is not a `PostEngineFailure` carries no spend,
  although `run/interleave.py` says failures do.
- A timeout with a missing proxy log is recorded as a trial; `run/engines/base.py`
  ranks the missing log as a failure only of a completed attempt.
- A killed run leaves no `executed_order`, and the next run's order lacks its trials:
  `OrderIsComplete` is of runs that were not killed.
- `bench corpus subset` without `--ledger` saves a draw that no event records
  (`corpus/api.py`; the option has no default), although CO-9 says that "an interrupted run
  cannot leave the manifest showing a draw the chain never recorded". `ManifestFollowsChain`
  is of draws under a ledger.
- The proxy forwards `/t/-/...` and logs the line as an allow under "-", the name of an
  unattributed request; a tunnel that names "-" is refused. Any other name is taken as it
  is given. `hermetic/_proxy_container.py` answers a path without a trial 403 "so egress is
  attributable": an allow line says which name the client gave, not which trial it was.
- The heartbeat says `finished` after a run that a dead proxy aborted.
- Nothing keeps two `bench run` apart on one experiment.
- The head a render cites is read after the data it was computed from.
- A retried transient verdict gives one comparison two judge verdicts, so duplicates
  are not only legacy, and the review sample keeps the transient one.
- A pair is judged, finally, whether or not its trials are graded yet.
- The usage of a judge call whose reply does not parse is on no verdict.

And in what this directory states as a predicate, or has in its operators, without
asking TLC for a counterexample:

- `Corpus!OneAdmission` (PRA-M11): the manifest is asked and not the ledger, so a re-run
  after a failed save ledgers the admission again. Dropping a quarantined task from a
  dataset and adding it back admits it afresh (`Import`).
- An import that dies leaves the new blobs under the old manifest, and `materialize`
  does not compare a blob with its sha; a semver may go backwards (`Import`).
- `HarborTrial!SpansVerify`: a pattern that only the seam has may rewrite the kept
  spans, whose sha then no longer matches; and a `docker inspect` that goes unanswered
  counts as a dead container, which then writes on.
- `Settings!FlatKeysReachEveryArm`: once keys are also named by arm, a flat name reaches
  only the arms that list it (`run/settings.py` says every arm, `run/seam.py`
  intersects). Declared hosts with a proxy that has no url end in `--network none`, and
  a task's extra host is flagged as undeclared.
- `Contamination!OutageErasesNothing`: a probe that fails takes the scan's asymmetry
  with it (`contamination/summary.py`: "a provider outage must not erase evidence").
- `Documents!DossierDecides`: the dossier words a verdict for a pair that does not
  decide, and leaves out the disclosure about several arms.
- `Observe`: the cells of an arm that is reused stay planned although no run will execute
  them, and the pairs with a reused control are in no count; `compute_status` reads the
  ledger several times with no snapshot.
- `Statistics`: the exact power curve is not monotone in the sample; a constant sample
  keeps the label of the BCa interval it does not have; `cohens_kappa`,
  `pairs_from_ledger` and `comparison_closed` have no caller.
- `Blind`: an arm named "red" is found in "[REDACTED]", so its packets are refused.
- `Process`: a human score asks that the named comparison be revealed, not each one that
  shows the trial.
- `Forensics`: the latency of error recovery passes over exit codes nobody measured. A
  workspace file that cannot be read ends the whole scan with an `OSError`
  (`forensics/assembler.py` calls it "loud"); the answers checked are those of scans that end.
- `Findings`: a trial graded twice counts twice among the holdout values; and
  `judge/calibrate.py` keeps the comparisons of quarantined trials (`Statistics`).

### Fairness
`Spec` of most modules has none: their properties are safety properties, which hold
of systems that stop anywhere.
- `Ledger!FairSpec`: a process inside `append_event` keeps running (weak fairness of
  its steps), flock does not starve a waiter (strong fairness of `Lock`), a poller
  polls. No process must begin, no fault must happen, nobody must repair.
- `ReadThenAppend!EitherFairSpec`: the same for a planner that has begun, and nothing of the
  review.
- `Judge!Spec`: weak fairness of `Progress`: the loop runs on, and the operator runs
  `bench judge` again. `EventuallyConcluded` says nothing of an operator who does not.

## 4. What is proved

`LedgerProofs`, for every set of writers and pollers and every bound:
- `TypeCorrect`, `MutualExclusion`, `ChainStaysIntact`, `AckedStaysDurable`,
  `PollersSeeEachLineOnce`, and `LedgerImplementsLog`: initial states map to initial
  states and every step to an extension of the log or a stutter.
- The argument: `LockInv` says that whoever is past the flock is its holder, so there
  is one such writer. `FileInv` says what that writer knows: past the torn-tail check
  the file is not torn, the head in its hand is the head of the present lines, its
  line is the last one once written, and everything is on disk once synced. Neither
  `ChainIntact` nor `AckedIsDurable` is inductive alone: a write keeps the chain only
  because no other write comes between `ReadHead` and it, and `Return` may acknowledge
  only because the line is still the last one and synced.

`RunScheduleProofs`, for every plan, ceiling above zero and number of reruns, runs and
faults: all five invariants of the run `schedule`, and one theorem about `Trial`.
- A run reads the ledger once, when it starts; the invariant says why what it keeps in
  memory from then on agrees with the ledger but for the one event it has not yet
  accounted for. `CellInv` (for `NoCellRunsTwice`): a cell with a trial is one the run knew
  of, one it has passed, or the one just recorded. `SpendInv` (`SpendStaysBounded`): the
  guard knows at least what the next run would start from, and no attempt begins at the
  ceiling. `OrderInv` (`OrderStaysComplete`): while nobody died, the order in memory is
  complete but for that event. `CountInv`, `TriedInv` and `TerminalInv`
  (`HeartbeatStaysHonest`): the sidecar counts the trials there are, and a run that ends of
  its own accord has tried every cell. `StopEndsAttempts`: a stop is recorded at the
  ceiling only, and whatever follows it is of a run that saw it.
- Spend is a sum over a sequence, and rank and count are cardinalities. The sums are
  folds; see `SequenceLemmas` for how one is reasoned about without induction over data.
- `AttemptsAreSound`: what `Trial` owes, for every environment and not only for the ones
  that `decisions` asks about.

`GradeProofs`, for any trials, processes and passes that overlap and die:
- `SecondOutcomesAreExplained`, `OverridesAreOfRefusals`, `TrialsAreAnswered`. `Knows`
  says what a pass may rely on while others append: a trial settled before it began is
  one that it skips or one whose override it holds, an override it holds is the last
  refusal before it began, and a trial is answered, skipped or still to do.
  `AppendKnows` says that this survives any append, `AnswerInv` that an answer given
  with it is `Explained`.

`GradeProofs` also proves what `Evidence` says, whatever other subjects are asked about:
`BlindedAnswersAreSound`, `EvidenceIsSound` and `GradingIsSound` are the invariants
`BlindingSound`, `EvidenceSound` and `GradingSound` of the run `decisions`. They follow from
theorems about the operators, most of which hold of more inputs than the questions are:
- `TextsAreBlind`: a scrub goes over a text pattern by pattern. Whatever the order, a
  symbol is the mark at the end exactly if some pattern has it, and is kept otherwise
  (`ScrubIs`, by the fold), so no name of an arm is left; only the pattern of an arm named
  "red" reads the mark itself (`OnlyRedReadsTheMark`), and such packets are refused.
  `PairsAreBlind`: a packet that is sent passed both scans as
  it is sent, and its two orders are the same blocks under one hash.
- `TamperingIsSilent`, `CoverageOfAll`, `NullIsNoEstimate`: evidence that lost its
  commitment is the evidence of a trial without it (`EvidenceWithoutThem`); every trial is
  measured or has one of the gaps, so tallies by arm are sums over a partition; a metric
  looks at a measurement through one of a few operators, and each of them is as it was or
  null once the measurement is hidden (`MetricOperators`, `HideTakesAway`).
- `CopiesAreFound`, `DatesAreConservative`: for any window and any reference, the windows
  of a copy are windows of the text that holds it (`WindowsOfACopy`).
- `FencesHold`: whatever is printed around the block of a grader, if none of it has the
  nonce of this run, adds no marker, so the markers are those of the block, moved by the
  length of what came before (`PartsArePlaced`, `MarkersStay`); one pair is read as it was
  printed, none and two are noticed. `HoldoutsAreGenuine`, `PluginsAreGenuine` and
  `DockerGradesAreGenuine` carry that to the trial, for any documents, any output and any
  end of its containers; `DockerRetries` says which refusals are transient, and which
  attempts end the pass with no event. The trials that are graded without docker are `ReviewsAreTrusted` and two lemmas; `BaselinesAreSound` and
  `QuarantinesAreLatest` are of any number of runs and of events.
- That the nonce is in nothing the tested code prints is the model's: it is minted per run
  and kept out of the environment of what is run (`grade/fence.py`, `grade/run_holdouts.py`).

`JudgeProofs`, for any pairs, answers, usage, ceilings and deaths:
- `OneConclusionEach`, `WinnersAreUnbiased`, `TokensStayBounded` and `StopEndsJudging`.
  `Unjudged` says that whatever is in the
  queue or in the hands of the session has no conclusive verdict of its kind, because
  the session computed its queue from the ledger, takes a comparison out before it
  judges it, and nobody else appends verdicts. `CombineUnbiased` is the table of
  `_map_call` and the combination for both orders.
- `SpendInv` ties the running total to the tokens of the verdicts of both kinds and the
  calls in hand, across the passes and over deaths; with `Usage` finite there is a most
  that one comparison costs, and no comparison begins at the ceiling. `StopInv` says that
  after a stop the ledger's total is at the ceiling, so no later session judges.

`OfficialProofs`, for any corpus, manifests, methods, other events, and any number of
analyses:
- `OfficialRendersAreEarned` and `ArtifactsHaveEvents`. `FenceEarns` says that the eight
  checks, evaluated on one ledger, are what a render must earn; `PrefixStays` that a
  check of the ledger up to the head is the same later. `Safe` says what an analysis
  between two checks knows: if the head is still the one it read, all its checks so far
  were of that ledger. The second validation is what makes it enough: it begins by
  comparing the head, and the checks of the first then hold of the cited ledger.
  `Announced` says that past its event an analysis writes only what the event names.

`ReviewProofs`, for any comparisons, judge, floor, builds and deaths:
- `QueuesStayFinishable`, whoever serves the reviewer. `QueueInv` says why a comparison
  is in a queue: a build selects what was judged, and drops it from its list only once
  its packet event is there, so a batch names comparisons that have both (`Judgeable`);
  that an unblinding always follows a verdict, already when it is only asked for; and,
  nothing being taken back, that all this survives any append (`QueueGrows`).
- `HandlersKeepCaptureThenReveal`: with any finite number of handlers `Review` implements
  `BlindReview`. A gate that found no verdict of a comparison may be out of date when its
  event is appended, but what stands against it since are the events of the other handlers
  that had passed the same gate. So `BlindInv` counts: the verdicts of a comparison and the
  handlers about to append one are together no more than the handlers, and the same of
  reveals; what a gate found to be there stays there. For one handler that is the sentence of
  `review/record.py` (`OneHandlerOneVerdict`), which the run `one_verdict` violates with two.

`OperationsProofs`, for every value of the constants of the ten machines: everything the
run `operations` checks, as a theorem of its `Spec`. A machine's part is its inductive
invariant, `...Begins` (its `Init` establishes it), `...Keeps` (its `Next` keeps it) and
`...Holds` (it implies what the machine promises); `...Stays` carries it to `Spec`, where
the invariant is `moving = m => ...Inv`, because no other machine touches its variables.
- `OneLock`, `LockIsOfCheckedBytes`, `StagesRunTheLock` (`PlanLock`). `FlockInv`: no two
  planners hold an flock on the same inode. `GuardInv`: until there is a lock event the
  guard's name leads to one inode, shared by all who are past its opening, because only a
  planner that has recorded a lock unlinks it; so two planners cannot both be about to
  append. `GatesInv`: what a planner carries past the gates passed them. `StageInv`: what
  a stage found is the lock there is, and what it asserted equals it.
- `AdmissionsAreEarned` (`Corpus`). `Claims` says that whatever a manifest states, the one
  on disk or an old one in a command's hand, is on the chain, a draw saved without a ledger
  apart; `CommandKnows` what a
  command has checked by its place in the code, and that none of it is taken back by
  what other commands append meanwhile.
- `ImportsLaunderNothing` (`Import`), an action property. An import inherits from the
  manifest it was compared with from the moment it is computed, and that manifest stays
  until its own is saved; the save comes when every blob it names is in the cache.
- `SidecarsStayReachable` (`Sidecars`). `Stands` says from which step to which a run's
  sidecar exists, `Owns` what is therefore the run's own to remove, and `Obliged` that a
  network is there only because some run will still remove it.
- `EgressIsMetered` (`Gateway`), whatever name a client gives for its trial. `InPlace` is
  what a connection holds by its step; `Metered` that a dialled one has its allow line and
  no other; `Acknowledged` that a batch answered
  with 200 is in the log under its trial once, though number and line are taken under
  different locks.
- `RunnableDraftsAreLocked` (`Author`). Requests read file after file while others write.
  Every write of a file counts, so what a request read earlier is still there if the
  count has not moved (`Watched`), and a preview found green means a green draft until
  the next write (`Previews`, `Green`).
- `ExitsAreEarned` (`AgentImage`). `Rounds` relates the counter under `$HOME`, the number
  the hook holds and the lines of its log at every step of the hook; `Cleared` says that
  nothing is edited after the gate looked; `Armed` and `Ended` which places have an armed
  `$HOME`, a log and transcripts.
- `EvidenceStaysFinal` (`HarborTrial`). `Scrubbed`: a file not yet reached by the scrub is
  still to do, all others hold no secret; `Spans`: only a pattern that the engine's door
  lacks rewrites the kept spans; `Captures`: each artifact is what its sha says from its
  step on. All of it under `DaemonAnswers`, as the property is; the environment's half
  (`EnvironmentHolds`) is proved without it.
- `AnchorsHold` (`Anchor`). `OneHistory`: a hash closes one history, since the hash of a
  line is made of the line before it. `Vouched` is what two cross-checks under one record
  saw; `Unedited` and `Undisturbed` what the anchorer's two reads, and the store, have in
  common with the ledger as long as nobody rewrote it.
- `ReuseIsAttested` (`ControlReuse`). `Importing`: every cell of the bundle is still to
  take, in hand, or on the target's ledger once with its snapshot; and only an exported
  bundle is ever marked as reused.

`SequenceLemmas` has what they share: what appending and cutting do to a sequence whose
elements have no type of their own (`Own`); that a set of naturals bounded above has a
largest element; and sums over finite sets of positions. `UpTo` is induction over an
interval, stated of a set of numbers instead of a predicate, which the provers can use;
with it `SumsExist`, `SumsAgree` and `SumsAnyOrder` show by the size of the set that the
library's fold is a sum in which the order does not matter, and `SumAdds` says what one
more position adds. `FoldsExist` does the same for a step that is no sum (a scrub by one
pattern after another): over an interval there is a function from its subsets that takes the
greatest position last.

Assumptions are those of the modules (`LedgerAssumption`, `RunAssumption`,
`GradeAssumption`, `JudgeAssumption`, `OfficialAssumption`, `ReviewAssumption`,
`OperationsAssumption`, which is the ten machines' own, and `EvidenceAssumption`), and TLC evaluates them in the
runs. They bound nothing that the code does not: `Ceiling` is positive as the schema
requires, `Usage` is a finite set because a call's tokens are, `Absent` and `Null` are none of the
values they are told from, and a window of overlap has at least one token.

Only model-checked:
- liveness (`AppendsFinish`, `PlannersFinish`, `EventuallyConcluded`), because the provers
  here do not handle fairness with ENABLED;
- `AttemptsSound`: its part about attempts is proved (`AttemptsAreSound`); the rest is what
  `Telemetry` and `Settings` compute by folds and filters over streams and specs, whose
  results for every input are inductions over data;
- `ClaimsSound`: resamples, ranks and counts of `Statistics`, sessions of `Process` that are
  folded over replies, and the documents built of them, for the same reason.

## 5. What is left

1. Proofs of `AttemptsSound` and `ClaimsSound` (§4 says what stands in the way). The
   likeliest are that nothing of a quarantined trial is claimed (`Findings`) and that the
   locked egress is the one an attempt gets (`Settings`).
2. An import in one step, which `ControlReuse` would implement but for grades, and
   `Grade` composed with `Judge`, to say what a verdict was given upon.
3. Two `bench run` on one experiment, which nothing keeps apart.

The abstract specifications are `AppendOnlyLog`, which `Ledger` implements (proved), and
`BlindReview`, which `Review` implements for any number of handlers (proved).
Modules with proofs use folds and sets of positions, no recursive operators.

## 6. Not modelled

- Text: packet pages, HTML, tables, log wording; redaction and scrubbing are modelled on
  symbols, not on regular expressions.
- Parsing below the field: YAML, JSON, OTLP wire formats, providers' HTTP.
- Floating point and simulation: bootstrap draws, the power simulation, the null
  simulation and seeded shuffles are inputs of the operators that use them.
- Docker, sockets and threads below the point where the harness sees an outcome.
- `serve`, `webkit`, the sdk and the command line, image builds: they keep no state
  between two calls, or only pass arguments on. An event constructor is the record and
  the append of the component that calls it; its field checks are left out.
- Outside the harness: scripts, corpora, deployment, documents, tests, and the agent
  images other than the groundwork one.
