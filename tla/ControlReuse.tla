---------------------------- MODULE ControlReuse ----------------------------
(***************************************************************************)
(* A control arm that was run and graded in one experiment (the source) is *)
(* reused in another (the target): `bench export-control` snapshots it     *)
(* into a bundle, and `bench run --reuse-control` imports the bundle, an   *)
(* event at a time, before it schedules what is left (src/harness/run/     *)
(* reuse.py, run/api.py). A run of the target may die anywhere and be      *)
(* repeated, with the flag, without it, or with the bundle of a later      *)
(* export; the source goes on being run and graded (RunSchedule, Grade).   *)
(***************************************************************************)
EXTENDS Naturals, Sequences, FiniteSetsExt

CONSTANTS Trials,      \* the trials of the control arm, one a cell
          Ephemeral,   \* those whose workspace may be reclaimed
          MaxGrades,   \* bound: grades of one trial
          MaxExports,  \* bound: exports
          MaxRuns      \* bound: runs of the target

ReuseAssumption ==
  Ephemeral \subseteq Trials /\ {MaxGrades, MaxExports, MaxRuns} \subseteq Nat

VARIABLES
  ledger,    \* the source's trials and grades, in order
  gone,      \* trials of the source whose workspace was reclaimed
  snapshot,  \* what a running export has read
  bundles,   \* the bundles exported
  target,    \* the target's ledger, of the control arm
  diffs,     \* the snapshots beside it, per trial
  drifted,   \* does the target's control fingerprint differ from the bundles'?
  at,        \* where a run of the target is
  bundle,    \* what it was told to reuse
  cells,     \* the cells it has still to import
  cell,      \* the cell it is importing
  runs

run == <<at, bundle, cells, cell>>
source == <<ledger, gone, snapshot, bundles>>
vars == <<source, target, diffs, drifted, run, runs>>

NoExport == [read |-> "nothing", of |-> <<>>]
NoBundle == [head |-> 0, cells |-> {}]
NoCell == [grade |-> 0]

Init ==
  /\ ledger = <<>> /\ gone = {} /\ snapshot = NoExport /\ bundles = {}
  /\ target = <<>> /\ drifted = FALSE
  /\ diffs = [t \in Trials |-> "none"]
  /\ at = "idle" /\ bundle = NoBundle /\ cells = {} /\ cell = NoCell /\ runs = 0

-----------------------------------------------------------------------------
(* The source: trials end and are graded, at any time and maybe twice;     *)
(* their workspaces are ephemeral.                                         *)

TrialEvent(t) == [kind |-> "trial", trial |-> t]
GradeEvent(t) == [kind |-> "grade", trial |-> t]
GradesOf(t) == {i \in DOMAIN ledger : ledger[i] = GradeEvent(t)}

TrialEnds(t) ==
  /\ TrialEvent(t) \notin Range(ledger)
  /\ ledger' = Append(ledger, TrialEvent(t))
  /\ UNCHANGED <<gone, snapshot, bundles, target, diffs, drifted, run, runs>>

IsGraded(t) ==
  /\ TrialEvent(t) \in Range(ledger)
  /\ Cardinality(GradesOf(t)) < MaxGrades
  /\ ledger' = Append(ledger, GradeEvent(t))
  /\ UNCHANGED <<gone, snapshot, bundles, target, diffs, drifted, run, runs>>

Reclaim(t) ==
  /\ t \in Ephemeral \ gone
  /\ TrialEvent(t) \in Range(ledger)
  /\ gone' = gone \cup {t}
  /\ UNCHANGED <<ledger, snapshot, bundles, target, diffs, drifted, run, runs>>

-----------------------------------------------------------------------------
(* Export: the trials, then their grades, then the workspaces and the head.*)
(* A bundle's sha is over all that it holds, so a bundle stands for it.    *)

TrialsNow == {t \in Trials : TrialEvent(t) \in Range(ledger)}

(* A grade is told by its line in the source, none is zero.                *)
LatestGrade(t) == Max({0} \cup GradesOf(t))

ReadTrials ==
  /\ snapshot.read = "nothing" /\ TrialsNow # {} /\ Cardinality(bundles) < MaxExports
  /\ snapshot' = [read |-> "trials", of |-> [t \in TrialsNow |-> 0]]
  /\ UNCHANGED <<ledger, gone, bundles, target, diffs, drifted, run, runs>>

ReadGrades ==
  /\ snapshot.read = "trials"
  /\ snapshot' = [read |-> "grades", of |-> [t \in DOMAIN snapshot.of |-> LatestGrade(t)]]
  /\ UNCHANGED <<ledger, gone, bundles, target, diffs, drifted, run, runs>>

Diff(t) == IF t \in gone THEN "empty" ELSE "solution"

Seal ==
  /\ snapshot.read = "grades"
  /\ bundles' = bundles \cup
       {[head  |-> Len(ledger),
         cells |-> {[trial |-> t, grade |-> snapshot.of[t], diff |-> Diff(t)] :
                      t \in DOMAIN snapshot.of}]}
  /\ snapshot' = NoExport
  /\ UNCHANGED <<ledger, gone, target, diffs, drifted, run, runs>>

-----------------------------------------------------------------------------
(* The target's ledger.                                                    *)

ReusedTrial(c) == [kind |-> "reused_trial", trial |-> c.trial, diff |-> c.diff]
ReusedGrade(c) == [kind |-> "reused_grade", trial |-> c.trial, grade |-> c.grade]
ControlReused(b) == [kind |-> "control_reused", of |-> b]

AlreadyImported(b) == ControlReused(b) \in Range(target)
AlreadyCells == {ev.trial : ev \in {ev \in Range(target) : ev.kind = "reused_trial"}}

ReusedArms_ByFlag == IF bundle = NoBundle THEN {} ELSE {"control"}
ReusedArms == {"control" : ev \in {ev \in Range(target) : ev.kind = "control_reused"}}

HasGrade(c) == c.grade # 0

-----------------------------------------------------------------------------
(* `bench run` on the target.                                              *)

Go(there) == at' = there /\ UNCHANGED bundle
Ends == at' = "idle" /\ bundle' = NoBundle /\ cells' = {} /\ cell' = NoCell

Start ==
  /\ at = "idle" /\ runs < MaxRuns
  /\ runs' = runs + 1
  /\ bundle' \in bundles \cup {NoBundle}
  /\ at' = IF bundle' = NoBundle THEN "arms" ELSE "gate"
  /\ UNCHANGED <<source, target, diffs, drifted, cells, cell>>

(* The marker is looked at before the gate: what was imported in full is   *)
(* not gated again.                                                        *)
SkipImported ==
  /\ at = "gate" /\ AlreadyImported(bundle)
  /\ Go("arms")
  /\ UNCHANGED <<source, target, diffs, drifted, cells, cell, runs>>

Refuse ==
  /\ at = "gate" /\ ~AlreadyImported(bundle) /\ drifted
  /\ Ends
  /\ UNCHANGED <<source, target, diffs, drifted, runs>>

Gate ==
  /\ at = "gate" /\ ~AlreadyImported(bundle) /\ ~drifted
  /\ cells' = {c \in bundle.cells : c.trial \notin AlreadyCells}
  /\ Go("diff")
  /\ UNCHANGED <<source, target, diffs, drifted, cell, runs>>

(* The cells are taken in the order of the bundle, of which nothing else   *)
(* depends: here in any.                                                   *)
StashDiff(c) ==
  /\ at = "diff" /\ c \in cells
  /\ cells' = cells \ {c} /\ cell' = c
  /\ diffs' = [diffs EXCEPT ![c.trial] = c.diff]
  /\ Go("trial")
  /\ UNCHANGED <<source, target, drifted, runs>>

RecordReusedTrial ==
  /\ at = "trial"
  /\ target' = Append(target, ReusedTrial(cell))
  /\ IF HasGrade(cell) THEN Go("grade") /\ UNCHANGED cell
                       ELSE Go("diff") /\ cell' = NoCell
  /\ UNCHANGED <<source, diffs, drifted, cells, runs>>

RecordReusedGrade ==
  /\ at = "grade"
  /\ target' = Append(target, ReusedGrade(cell))
  /\ Go("diff") /\ cell' = NoCell
  /\ UNCHANGED <<source, diffs, drifted, cells, runs>>

RecordControlReused ==
  /\ at = "diff" /\ cells = {}
  /\ target' = Append(target, ControlReused(bundle))
  /\ Go("arms")
  /\ UNCHANGED <<source, diffs, drifted, cells, cell, runs>>

(* The schedule drops an arm that was imported; of the other arm nothing   *)
(* is modelled, so a run that drops this one ends.                         *)
DropReusedArms ==
  /\ at = "arms"
  /\ IF "control" \in ReusedArms THEN Ends ELSE Go("fresh") /\ UNCHANGED <<cells, cell>>
  /\ UNCHANGED <<source, target, diffs, drifted, runs>>

RunFresh(t) ==
  /\ at = "fresh" /\ TrialEvent(t) \notin Range(target)
  /\ target' = Append(target, TrialEvent(t))
  /\ UNCHANGED <<source, diffs, drifted, run, runs>>

(* A run comes to its end, stops at the ceiling, or is killed.             *)
EndRun ==
  /\ at # "idle"
  /\ Ends
  /\ UNCHANGED <<source, target, diffs, drifted, runs>>

(* A task, the environment or the instrument changes under the target.     *)
Drift ==
  /\ ~drifted /\ drifted' = TRUE
  /\ UNCHANGED <<source, target, diffs, run, runs>>

Next ==
  \/ ReadTrials \/ ReadGrades \/ Seal \/ Drift
  \/ Start \/ SkipImported \/ Refuse \/ Gate
  \/ \E c \in cells : StashDiff(c)
  \/ RecordReusedTrial \/ RecordReusedGrade \/ RecordControlReused
  \/ DropReusedArms \/ EndRun
  \/ \E t \in Trials : TrialEnds(t) \/ IsGraded(t) \/ Reclaim(t) \/ RunFresh(t)

Spec == Init /\ [][Next]_vars

-----------------------------------------------------------------------------
(* The marker vouches for the cells: of every bundle the target says it    *)
(* reused, each cell is there exactly once, and the snapshot beside the    *)
(* ledger is the one that its event names. Over kills between any two      *)
(* writes of the import, resumes, and bundles of several exports.          *)
ReusedAt(t) == {i \in DOMAIN target : target[i].kind = "reused_trial" /\ target[i].trial = t}
AttestedImport ==
  \A b \in bundles : AlreadyImported(b) =>
    \A c \in b.cells :
      \E i \in ReusedAt(c.trial) : ReusedAt(c.trial) = {i} /\ target[i].diff = diffs[c.trial]

(* Once the control is reused it is never run: no later run, with the flag *)
(* or without it, schedules the arm again (reused_arms).                   *)
NoFreshControl ==
  \A i, j \in DOMAIN target :
    i < j /\ target[i].kind = "control_reused" => target[j].kind # "trial"

(* "already_imported() is true iff the whole import finished" (reuse.py):  *)
(* a bundle said to be reused has the grades it holds on the ledger. The   *)
(* code does not keep it.                                                  *)
ImportComplete ==
  \A b \in bundles : AlreadyImported(b) =>
    \A c \in b.cells : HasGrade(c) => ReusedGrade(c) \in Range(target)
=============================================================================
