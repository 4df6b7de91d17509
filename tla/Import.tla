------------------------------- MODULE Import -------------------------------
(***************************************************************************)
(* `bench corpus import` and `materialize`: a public dataset is mapped to  *)
(* tasks, compared with the manifest of the import before it, written to   *)
(* the cache blob by blob and named by a manifest saved last. The operator *)
(* imports again after a kill, a semver bump or an edit of a task's        *)
(* status; a task keeps its id while its content changes.                  *)
(***************************************************************************)
EXTENDS Naturals, FiniteSets

CONSTANTS
  Tasks,     \* task ids
  Shas,      \* content shas
  Semvers,   \* versions an operator may ask for
  MaxRuns,   \* bound: imports started
  Absent

ImportAssumption == MaxRuns \in Nat

VARIABLES
  manifest,  \* manifest.json of the cache, or Absent
  cache,     \* tasks/<id>.json: the content cached per id, or Absent
  import,    \* the import that is writing, or Absent
  runs       \* counts imports, for the bound

vars == <<manifest, cache, import, runs>>

(***************************************************************************)
(* benchmarks.py: an exported record becomes a task or refuses the export. *)
(* A field is "absent", "empty", a usable value, or "bad" (neither a list  *)
(* of strings nor the JSON of one).                                        *)
(***************************************************************************)
Require(field) == field \notin {"absent", "empty"}
AsTestList(field) == field # "bad"
TaskContent(r) ==
  /\ Require(r.id)
  /\ Require(r.problem)
  /\ Require(r.fail_to_pass) /\ AsTestList(r.fail_to_pass)
  /\ AsTestList(r.pass_to_pass)
Fields == {"absent", "empty", "value", "bad"}
Records == [id : {"absent", "empty", "value"}, problem : {"absent", "empty", "value"},
            fail_to_pass : Fields, pass_to_pass : Fields]
(* The grading image's answer: a named test that did not run has failed,   *)
(* and a holdout that names none is refused.                               *)
HoldoutResults(named, outcomes) ==
  [t \in named |-> IF t \in DOMAIN outcomes /\ outcomes[t] THEN "pass" ELSE "fail"]
Resolved(named, outcomes) ==
  named # {} /\ \A t \in named : HoldoutResults(named, outcomes)[t] = "pass"

(***************************************************************************)
(* public.py: fresh entries are admitted; what an earlier manifest         *)
(* recorded of the same content is carried.                                *)
(***************************************************************************)
Entries(m) == {t \in Tasks : m.tasks[t] # Absent}
TaskShas(m) == [t \in Entries(m) |-> m.tasks[t].sha]
Fresh(source, semver) ==
  [semver |-> semver, calibration |-> "none",
   tasks |-> [t \in Tasks |-> IF source[t] = Absent THEN Absent
                              ELSE [sha |-> source[t], status |-> "admitted",
                                    baseline |-> FALSE]]]
ValidSuccessor(m, prior) == m.semver = prior.semver => TaskShas(m) = TaskShas(prior)
CarryEntry_AlwaysFresh(e, prior) == e
CarryEntry(e, prior) ==
  IF e # Absent /\ prior # Absent /\ prior.sha = e.sha THEN prior ELSE e
Carry(m, prior) ==
  [m EXCEPT !.tasks = [t \in Tasks |-> CarryEntry(m.tasks[t], prior.tasks[t])],
            !.calibration = IF m.semver = prior.semver THEN prior.calibration ELSE @]
IsSchedulable(m, t) == m.tasks[t] # Absent /\ m.tasks[t].status = "admitted"

Init ==
  /\ manifest = Absent /\ import = Absent /\ runs = 0
  /\ cache = [t \in Tasks |-> Absent]

(* Everything is computed, and a mutation refused, before the first write. *)
Import(source, semver, wellFormed) ==
  /\ import = Absent /\ runs < MaxRuns /\ runs' = runs + 1
  /\ LET m == Fresh(source, semver) IN
     import' = IF ~wellFormed THEN Absent
               ELSE IF manifest = Absent THEN m
               ELSE IF ValidSuccessor(m, manifest) THEN Carry(m, manifest)
               ELSE Absent
  /\ UNCHANGED <<manifest, cache>>
Stale(t) == import.tasks[t] # Absent /\ cache[t] # import.tasks[t].sha
WriteBlob(t) ==
  /\ import # Absent /\ Stale(t)
  /\ cache' = [cache EXCEPT ![t] = import.tasks[t].sha]
  /\ UNCHANGED <<manifest, import, runs>>
Prune(t) ==
  /\ import # Absent /\ \A u \in Tasks : ~Stale(u)
  /\ import.tasks[t] = Absent /\ cache[t] # Absent
  /\ cache' = [cache EXCEPT ![t] = Absent]
  /\ UNCHANGED <<manifest, import, runs>>
SaveManifest ==
  /\ import # Absent
  /\ \A t \in Tasks : ~Stale(t) /\ (import.tasks[t] = Absent => cache[t] = Absent)
  /\ manifest' = import /\ import' = Absent
  /\ UNCHANGED <<cache, runs>>
Die == import # Absent /\ import' = Absent /\ UNCHANGED <<manifest, cache, runs>>

(* The operator's edits between imports: a task is quarantined, a baseline *)
(* or a full calibration is recorded.                                      *)
Quarantine(t) ==
  /\ manifest # Absent /\ import = Absent /\ IsSchedulable(manifest, t)
  /\ manifest' = [manifest EXCEPT !.tasks[t].status = "quarantined"]
  /\ UNCHANGED <<cache, import, runs>>
Validate(t) ==
  /\ manifest # Absent /\ import = Absent /\ manifest.tasks[t] # Absent
  /\ manifest' = [manifest EXCEPT !.calibration = "full-run-validated",
                                  !.tasks[t].baseline = TRUE]
  /\ UNCHANGED <<cache, import, runs>>

Next ==
  \/ \E source \in [Tasks -> Shas \cup {Absent}], v \in Semvers,
        wellFormed \in {TaskContent(r) : r \in Records} : Import(source, v, wellFormed)
  \/ \E t \in Tasks : WriteBlob(t) \/ Prune(t) \/ Quarantine(t) \/ Validate(t)
  \/ SaveManifest \/ Die
Spec == Init /\ [][Next]_vars

(***************************************************************************)
(* materialize_experiment: the tasks laid down for a run, or the refusal   *)
(* of a manifest whose blobs are missing. A task shows the agent its id    *)
(* and prompt; the holdout goes to the read-only directory.                *)
(***************************************************************************)
Selected(m, all) == {t \in Entries(m) : all \/ m.tasks[t].status = "admitted"}
Materialize(m, all) ==
  IF \E t \in Selected(m, all) : cache[t] = Absent THEN "MaterializeError"
  ELSE [t \in Selected(m, all) |-> [visible |-> {"id", "prompt"}, content |-> cache[t]]]

(***************************************************************************)
(* An import never launders: whatever imports, bumps and edits came        *)
(* between and wherever one died, a task that the import before knew in    *)
(* this content keeps its status and baseline, and a corpus version keeps  *)
(* its content and, only with it, its calibration (public.py, PRA-M12,     *)
(* F-M-O6, CO-3). When nothing is left half-written, what materialises is  *)
(* what the manifest names.                                                *)
(***************************************************************************)
Inherits(m, prior) ==
  /\ \A t \in Entries(m) \cap Entries(prior) :
       m.tasks[t].sha = prior.tasks[t].sha => m.tasks[t] = prior.tasks[t]
  /\ IF m.semver = prior.semver
     THEN TaskShas(m) = TaskShas(prior) /\ m.calibration = prior.calibration
     ELSE m.calibration = "none"
CarriesState ==
  import # Absent /\ import' = Absent /\ manifest' # manifest =>
    /\ manifest # Absent => Inherits(manifest', manifest)
    /\ DOMAIN Materialize(manifest, TRUE)' = {t \in Tasks : cache'[t] # Absent}
    /\ \A t \in Selected(manifest', TRUE) :
         Materialize(manifest, TRUE)'[t].content = TaskShas(manifest')[t]
ImportsCarryState == [][CarriesState]_vars
=============================================================================
