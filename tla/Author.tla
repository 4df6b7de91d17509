------------------------------- MODULE Author -------------------------------
(***************************************************************************)
(* The authoring surface of `bench author`: one draft directory and a      *)
(* threaded HTTP server whose requests save files, preview the lock and    *)
(* lock. A saved file is truncated and then written, a request reads each  *)
(* file by itself, and nothing serialises two requests but the guard       *)
(* around the append of the lock (modelled in PlanLock, one step here).    *)
(***************************************************************************)
EXTENDS Naturals, Sequences, FiniteSets

CONSTANTS
  Requests,   \* request threads
  MaxWrites,  \* bound: changes of files over all requests
  Absent

AuthorAssumption == MaxWrites \in Nat

VARIABLES
  files,      \* experiment.yaml, tasks.yaml and the rubric, as last written
  locks,      \* the experiment_locked events of the ledger
  request,    \* per thread: what it does, what it read, how it was answered
  writes,     \* counts the changes of files: each truncation, each write
  previewed   \* history: the values of `writes` at which a preview was green

vars == <<files, locks, request, writes, previewed>>

Files == {"spec", "tasks", "rubric"}
(* What a file can hold. "torn" is the empty file between open and write.  *)
Specs == {"unparsable", "unknown_platform", "underpowered", "powered"}
Tasks == {"duplicate_id", "A", "B"}
Saves ==
  {<<[file |-> f, text |-> t]>> : f \in {"spec"}, t \in Specs}
  \cup {<<[file |-> "tasks", text |-> t]>> : t \in Tasks}
  \cup {<<[file |-> "rubric", text |-> "R"], [file |-> "spec", text |-> "powered"]>>,
        <<[file |-> "tasks", text |-> "A"], [file |-> "not_authorable", text |-> "B"]>>}

Idle == [op |-> "idle"]
At(q, op, at) == request[q].op = op /\ request[q].at = at
Goto(q, r) == request' = [request EXCEPT ![q] = r]
Answer(q, how) == Goto(q, [op |-> "answered", how |-> how])
Refuse(q, since) == Goto(q, [op |-> "refused", since |-> since, until |-> writes])

Init ==
  /\ files = [f \in Files |-> Absent]
  /\ locks = <<>> /\ writes = 0 /\ previewed = {}
  /\ request = [q \in Requests |-> Idle]

IsLocked == locks # <<>>

(***************************************************************************)
(* POST /api/draft: one check that the draft is not locked, then the files *)
(* of the body in turn; a name that is not authorable refuses the rest.    *)
(***************************************************************************)
WriteDraft(q, body) ==
  /\ request[q] = Idle /\ writes + 2 * Len(body) <= MaxWrites
  /\ IF IsLocked THEN Answer(q, 409) ELSE Goto(q, [op |-> "save", at |-> "open", body |-> body])
  /\ UNCHANGED <<files, locks, writes, previewed>>
Open(q) ==
  /\ At(q, "save", "open")
  /\ LET item == Head(request[q].body) IN
     IF item.file \notin Files
     THEN Answer(q, 409) /\ UNCHANGED <<files, writes>>
     ELSE /\ files' = [files EXCEPT ![item.file] = "torn"]
          /\ Goto(q, [request[q] EXCEPT !.at = "write"])
          /\ writes' = writes + 1
  /\ UNCHANGED <<locks, previewed>>
Write(q) ==
  /\ At(q, "save", "write")
  /\ LET item == Head(request[q].body)
         rest == Tail(request[q].body)
     IN  /\ files' = [files EXCEPT ![item.file] = item.text]
         /\ IF rest = <<>> THEN Answer(q, 200)
            ELSE Goto(q, [request[q] EXCEPT !.at = "open", !.body = rest])
  /\ writes' = writes + 1
  /\ UNCHANGED <<locks, previewed>>

(***************************************************************************)
(* The preflight steps, shared by the lock and the preview. An empty       *)
(* tasks.yaml, like an absent one, loads as no tasks.                      *)
(***************************************************************************)
ParsesAndHashes(spec) == spec \notin {Absent, "torn", "unparsable"}
ArmPlatformsKnown(spec) == spec # "unknown_platform"
RubricCommits(rubric) == rubric # Absent
LoadTaskDicts(tasks) == IF tasks = "duplicate_id" THEN "TaskCommitmentError"
                        ELSE IF tasks \in {Absent, "torn"} THEN Absent ELSE tasks
PowerGate(spec, acknowledged) == spec = "powered" \/ acknowledged
CommitTasks(tasks) == LoadTaskDicts(tasks)

(* GET /api/validate: the spec, the rubric and the tasks, read in turn.    *)
Validate(q) ==
  /\ request[q] = Idle /\ files["spec"] # Absent
  /\ Goto(q, [op |-> "validate", at |-> "tasks", since |-> writes,
              green |-> /\ ParsesAndHashes(files["spec"])
                        /\ ArmPlatformsKnown(files["spec"])
                        /\ RubricCommits(files["rubric"])])
  /\ UNCHANGED <<files, locks, writes, previewed>>
ValidateTasks(q) ==
  /\ At(q, "validate", "tasks")
  /\ LET green == /\ request[q].green
                  /\ LoadTaskDicts(files["tasks"]) # "TaskCommitmentError"
     IN  /\ Answer(q, 200)
         /\ previewed' = IF green /\ request[q].since = writes
                         THEN previewed \cup {writes} ELSE previewed
  /\ UNCHANGED <<files, locks, writes>>

(***************************************************************************)
(* POST /api/lock: the tasks first, then lock_experiment's steps in order, *)
(* and the append under the guard, where the single lock is checked again. *)
(***************************************************************************)
Lock(q, acknowledged) ==
  /\ request[q] = Idle /\ files["spec"] # Absent
  /\ IF LoadTaskDicts(files["tasks"]) = "TaskCommitmentError"
     THEN Refuse(q, writes)
     ELSE Goto(q, [op |-> "lock", at |-> "spec", tasks |-> CommitTasks(files["tasks"]),
                   ack |-> acknowledged, since |-> writes])
  /\ UNCHANGED <<files, locks, writes, previewed>>
LockSpec(q) ==
  /\ At(q, "lock", "spec")
  /\ LET spec == files["spec"] IN
     IF ~ParsesAndHashes(spec) \/ ~ArmPlatformsKnown(spec)
     THEN Refuse(q, request[q].since)
     ELSE IF IsLocked \/ ~PowerGate(spec, request[q].ack) THEN Answer(q, 409)
     ELSE Goto(q, [op |-> "lock", at |-> "rubric", spec |-> spec,
                   tasks |-> request[q].tasks, since |-> request[q].since])
  /\ UNCHANGED <<files, locks, writes, previewed>>
LockRubric(q) ==
  /\ At(q, "lock", "rubric")
  /\ IF RubricCommits(files["rubric"])
     THEN Goto(q, [op |-> "lock", at |-> "record", spec |-> request[q].spec,
                   tasks |-> request[q].tasks, rubric |-> files["rubric"]])
     ELSE Refuse(q, request[q].since)
  /\ UNCHANGED <<files, locks, writes, previewed>>
LockRecord(q) ==
  /\ At(q, "lock", "record")
  /\ IF IsLocked THEN Answer(q, 409) /\ UNCHANGED locks
     ELSE /\ locks' = Append(locks, [spec |-> request[q].spec, tasks |-> request[q].tasks,
                                     rubric |-> request[q].rubric])
          /\ Answer(q, 200)
  /\ UNCHANGED <<files, writes, previewed>>

Next == \E q \in Requests :
  \/ \E body \in Saves : WriteDraft(q, body)
  \/ \E ack \in BOOLEAN : Lock(q, ack)
  \/ Open(q) \/ Write(q) \/ Validate(q) \/ ValidateTasks(q)
  \/ LockSpec(q) \/ LockRubric(q) \/ LockRecord(q)
Spec == Init /\ [][Next]_vars

(***************************************************************************)
(* What a later stage accepts: assert_lock on the spec's bytes, and the    *)
(* task commitment, whose absence is itself a refusal.                     *)
(***************************************************************************)
AssertLock == Len(locks) = 1 /\ locks[1].spec = files["spec"]
AssertTaskCommitment_AbsentIsFine ==
  /\ LoadTaskDicts(files["tasks"]) # "TaskCommitmentError"
  /\ locks[1].tasks = CommitTasks(files["tasks"])
AssertTaskCommitment ==
  /\ LoadTaskDicts(files["tasks"]) # "TaskCommitmentError"
  /\ locks[1].tasks # Absent /\ locks[1].tasks = CommitTasks(files["tasks"])
StageStarts == AssertLock /\ AssertTaskCommitment

(***************************************************************************)
(* A save that passed the locked check before the lock still lands after   *)
(* it, and the lock may have read a file half-written or between two       *)
(* saves. Whatever the order, a stage starts only on files that were read  *)
(* whole, passed the lock's checks and are what the lock recorded.         *)
(***************************************************************************)
RunnableIsLocked ==
  StageStarts =>
    /\ locks[1].spec \in {"underpowered", "powered"} /\ files["spec"] = locks[1].spec
    /\ files["tasks"] \in {"A", "B"} /\ files["tasks"] = locks[1].tasks

(***************************************************************************)
(* server.py, _validate: "a green preview cannot then refuse at lock". If  *)
(* the files are the same from before the preview until the lock answers,  *)
(* what the lock refuses for is its power gate or an existing lock.        *)
(***************************************************************************)
GreenPreviewLocks ==
  \A q \in Requests :
    request[q].op = "refused" /\ request[q].since = request[q].until
      => request[q].since \notin previewed
=============================================================================
