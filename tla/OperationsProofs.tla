-------------------------- MODULE OperationsProofs --------------------------
(***************************************************************************)
(* Proofs about the machines of Operations, each for every value of its    *)
(* constants. A machine's section gives its inductive invariant, the       *)
(* lemmas about one step, and three facts: its Init establishes the        *)
(* invariant (...Begins), its steps keep it (...Keeps), and it implies     *)
(* what the machine promises (...Holds). The theorem at the end of the     *)
(* section carries them over to Spec: only the machine that moves changes. *)
(***************************************************************************)
EXTENDS Operations, SequenceLemmas

-----------------------------------------------------------------------------
(* The lock of the plan.                                                   *)

Inside == {"flocked", "rechecked", "recorded", "unlinked"}

(* Who holds a flock, and that no two hold one on the same inode.          *)
FlockInv ==
  /\ \A p \in Planners : p \in flocked <=> plan_pc[p] \in Inside
  /\ \A p, q \in flocked : gfd[p] = gfd[q] => p = q

(* What the ledger holds, seen from a planner's place in the code.         *)
GuardInv ==
  /\ plan_locks = <<>> => \A p \in Planners :
     plan_pc[p] \in Inside \cup {"opened"} => guard # 0 /\ gfd[p] = guard
  /\ \A p \in Planners : plan_pc[p] = "rechecked" => plan_locks = <<>>
  /\ \A p \in Planners : plan_pc[p] \in {"recorded", "unlinked"} => plan_locks # <<>>
  /\ Len(plan_locks) <= 1

(* A planner past the gates works on a spec that passed them.              *)
GatesInv ==
  /\ \A p \in Planners : plan_pc[p] \in Inside \cup {"cleared", "opened"} => parsed[p] \in Passing
  /\ \A i \in 1..Len(plan_locks) : plan_locks[i] \in Passing

(* A stage past its first read of the ledger knows the one lock there is.  *)
StageInv ==
  \A s \in Stages :
    /\ stage[s] # "idle" => found[s] = plan_locks /\ Len(plan_locks) = 1
    /\ stage[s] \in {"asserted", "running"} => view[s] = found[s][1]

(* The inductive invariant: what is locked follows from who may be past    *)
(* the guard (FlockInv, GuardInv), on which bytes (GatesInv), and from     *)
(* what a stage has seen of the ledger (StageInv).                         *)
PlanLockInv == PlanLock!TypeOK /\ FlockInv /\ GuardInv /\ GatesInv /\ StageInv

LEMMA PlanAssumed ==
  /\ Passing \subseteq plan_Specs /\ plan_Specs # {}
  /\ plan_MaxEdits \in Nat /\ plan_MaxFaults \in Nat
BY OperationsAssumption DEF PlanLock!PlanLockAssumption

LEMMA PlanLockBegins ==
  ASSUME PlanLock!Init PROVE PlanLockInv
<1>. USE PlanAssumed DEF PlanLock!Init
<1>1. PlanLock!TypeOK
  BY DEF PlanLock!TypeOK, PlanLock!Steps
<1>2. FlockInv /\ GuardInv /\ GatesInv /\ StageInv
  BY DEF FlockInv, GuardInv, GatesInv, StageInv, Inside
<1>. QED
  BY <1>1, <1>2 DEF PlanLockInv

(* Every variable of lock_experiment and assert_lock keeps its type.       *)
LEMMA PlanTypesKept ==
  ASSUME PlanLock!TypeOK, [PlanLock!Next]_(PlanLock!vars)
  PROVE  PlanLock!TypeOK'
<1>. USE PlanAssumed DEF PlanLock!TypeOK, PlanLock!Steps, PlanLock!planning, PlanLock!staging, PlanLock!Goto, PlanLock!Close
<1>1. ASSUME NEW p \in Planners, PlanLock!ParseSpec(p)
      PROVE  PlanLock!TypeOK'
  BY <1>1 DEF PlanLock!ParseSpec
<1>2. ASSUME NEW p \in Planners, PlanLock!Preflight(p)
      PROVE  PlanLock!TypeOK'
  BY <1>2 DEF PlanLock!Preflight
<1>3. ASSUME NEW p \in Planners, PlanLock!OpenGuard(p)
      PROVE  PlanLock!TypeOK'
  BY <1>3 DEF PlanLock!OpenGuard
<1>4. ASSUME NEW p \in Planners, PlanLock!Flock(p)
      PROVE  PlanLock!TypeOK'
  BY <1>4 DEF PlanLock!Flock
<1>5. ASSUME NEW p \in Planners, PlanLock!Recheck(p)
      PROVE  PlanLock!TypeOK'
  BY <1>5 DEF PlanLock!Recheck
<1>6. ASSUME NEW p \in Planners, PlanLock!RecordLock(p)
      PROVE  PlanLock!TypeOK'
  BY <1>6 DEF PlanLock!RecordLock, PlanLock!LockedSha
<1>7. ASSUME NEW p \in Planners, PlanLock!RecordFails(p)
      PROVE  PlanLock!TypeOK'
  BY <1>7 DEF PlanLock!RecordFails
<1>8. ASSUME NEW p \in Planners, PlanLock!Unlink(p)
      PROVE  PlanLock!TypeOK'
  BY <1>8 DEF PlanLock!Unlink
<1>9. ASSUME NEW p \in Planners, PlanLock!Finish(p)
      PROVE  PlanLock!TypeOK'
  BY <1>9 DEF PlanLock!Finish
<1>10. ASSUME NEW p \in Planners, PlanLock!Crash(p)
       PROVE  PlanLock!TypeOK'
  BY <1>10 DEF PlanLock!Crash
<1>11. ASSUME NEW s \in Stages, PlanLock!FindLocks(s)
       PROVE  PlanLock!TypeOK'
  BY <1>11 DEF PlanLock!FindLocks
<1>12. ASSUME NEW s \in Stages, PlanLock!ReadSpec(s)
       PROVE  PlanLock!TypeOK'
  BY <1>12 DEF PlanLock!ReadSpec
<1>13. ASSUME NEW s \in Stages, PlanLock!RunStage(s)
       PROVE  PlanLock!TypeOK'
  BY <1>13 DEF PlanLock!RunStage, PlanLock!RunSpec
<1>14. ASSUME NEW s \in Stages, PlanLock!EndStage(s)
       PROVE  PlanLock!TypeOK'
  BY <1>14 DEF PlanLock!EndStage
<1>15. CASE PlanLock!EditSpec
  BY <1>15 DEF PlanLock!EditSpec
<1>16. CASE UNCHANGED PlanLock!vars
  BY <1>16 DEF PlanLock!vars
<1>. QED
  BY <1>1, <1>2, <1>3, <1>4, <1>5, <1>6, <1>7, <1>8, <1>9, <1>10, <1>11, <1>12,
     <1>13, <1>14, <1>15, <1>16 DEF PlanLock!Next, PlanLock!Advance, PlanLock!Assert

(* A planner holds its flock exactly between Flock and Close, and no two   *)
(* planners hold the flock of one inode.                                   *)
LEMMA FlocksKept ==
  ASSUME PlanLock!TypeOK, FlockInv, [PlanLock!Next]_(PlanLock!vars)
  PROVE  FlockInv'
<1>. USE DEF PlanLock!TypeOK, FlockInv, Inside, PlanLock!Goto, PlanLock!Close, PlanLock!planning
<1>1. ASSUME NEW p \in Planners, PlanLock!ParseSpec(p)
      PROVE  FlockInv'
  BY <1>1 DEF PlanLock!ParseSpec
<1>2. ASSUME NEW p \in Planners, PlanLock!Preflight(p)
      PROVE  FlockInv'
  BY <1>2 DEF PlanLock!Preflight
<1>3. ASSUME NEW p \in Planners, PlanLock!OpenGuard(p)
      PROVE  FlockInv'
  BY <1>3 DEF PlanLock!OpenGuard
<1>4. ASSUME NEW p \in Planners, PlanLock!Flock(p)
      PROVE  FlockInv'
  BY <1>4 DEF PlanLock!Flock, PlanLock!FlockFree
<1>5. ASSUME NEW p \in Planners, PlanLock!Recheck(p)
      PROVE  FlockInv'
  BY <1>5 DEF PlanLock!Recheck
<1>6. ASSUME NEW p \in Planners, PlanLock!RecordLock(p)
      PROVE  FlockInv'
  BY <1>6 DEF PlanLock!RecordLock
<1>7. ASSUME NEW p \in Planners, PlanLock!RecordFails(p)
      PROVE  FlockInv'
  BY <1>7 DEF PlanLock!RecordFails
<1>8. ASSUME NEW p \in Planners, PlanLock!Unlink(p)
      PROVE  FlockInv'
  BY <1>8 DEF PlanLock!Unlink, PlanLock!MayUnlink
<1>9. ASSUME NEW p \in Planners, PlanLock!Finish(p)
      PROVE  FlockInv'
  BY <1>9 DEF PlanLock!Finish
<1>10. ASSUME NEW p \in Planners, PlanLock!Crash(p)
       PROVE  FlockInv'
  BY <1>10 DEF PlanLock!Crash
<1>11. ASSUME NEW s \in Stages, PlanLock!Assert(s)
       PROVE  FlockInv'
  BY <1>11 DEF PlanLock!Assert, PlanLock!FindLocks, PlanLock!ReadSpec, PlanLock!RunStage,
     PlanLock!EndStage
<1>12. CASE PlanLock!EditSpec \/ UNCHANGED PlanLock!vars
  BY <1>12 DEF PlanLock!EditSpec, PlanLock!vars
<1>. QED
  BY <1>1, <1>2, <1>3, <1>4, <1>5, <1>6, <1>7, <1>8, <1>9, <1>10, <1>11, <1>12 DEF
     PlanLock!Next, PlanLock!Advance

(* While there is no lock, all planners past the open share the inode that *)
(* the name still leads to; so only one of them is between the second      *)
(* check and the append, and the lock it appends is the first.             *)
LEMMA GuardKept ==
  ASSUME PlanLock!TypeOK, FlockInv, GuardInv, [PlanLock!Next]_(PlanLock!vars)
  PROVE  GuardInv'
<1>. USE DEF PlanLock!TypeOK, FlockInv, GuardInv, Inside, PlanLock!Goto, PlanLock!Close, PlanLock!planning
<1>1. ASSUME NEW p \in Planners, PlanLock!ParseSpec(p)
      PROVE  GuardInv'
  BY <1>1 DEF PlanLock!ParseSpec
<1>2. ASSUME NEW p \in Planners, PlanLock!Preflight(p)
      PROVE  GuardInv'
  BY <1>2 DEF PlanLock!Preflight
<1>3. ASSUME NEW p \in Planners, PlanLock!OpenGuard(p)
      PROVE  GuardInv'
  BY <1>3 DEF PlanLock!OpenGuard
<1>4. ASSUME NEW p \in Planners, PlanLock!Flock(p)
      PROVE  GuardInv'
  BY <1>4 DEF PlanLock!Flock
<1>5. ASSUME NEW p \in Planners, PlanLock!Recheck(p)
      PROVE  GuardInv'
  BY <1>5 DEF PlanLock!Recheck
<1>6. ASSUME NEW p \in Planners, PlanLock!RecordLock(p)
      PROVE  GuardInv'
  BY <1>6 DEF PlanLock!RecordLock, PlanLock!LockedSha
<1>7. ASSUME NEW p \in Planners, PlanLock!RecordFails(p)
      PROVE  GuardInv'
  BY <1>7 DEF PlanLock!RecordFails
<1>8. ASSUME NEW p \in Planners, PlanLock!Unlink(p)
      PROVE  GuardInv'
  BY <1>8 DEF PlanLock!Unlink, PlanLock!MayUnlink
<1>9. ASSUME NEW p \in Planners, PlanLock!Finish(p)
      PROVE  GuardInv'
  BY <1>9 DEF PlanLock!Finish
<1>10. ASSUME NEW p \in Planners, PlanLock!Crash(p)
      PROVE  GuardInv'
  BY <1>10 DEF PlanLock!Crash
<1>11. ASSUME NEW s \in Stages, PlanLock!Assert(s)
       PROVE  GuardInv'
  BY <1>11 DEF PlanLock!Assert, PlanLock!FindLocks, PlanLock!ReadSpec, PlanLock!RunStage,
     PlanLock!EndStage
<1>12. CASE PlanLock!EditSpec \/ UNCHANGED PlanLock!vars
  BY <1>12 DEF PlanLock!EditSpec, PlanLock!vars
<1>. QED
  BY <1>1, <1>2, <1>3, <1>4, <1>5, <1>6, <1>7, <1>8, <1>9, <1>10, <1>11, <1>12 DEF
     PlanLock!Next, PlanLock!Advance

(* From the gates on, a planner works on the bytes it parsed, which passed *)
(* them, whatever happens to the file.                                     *)
LEMMA GatesKept ==
  ASSUME PlanLock!TypeOK, FlockInv, GatesInv, [PlanLock!Next]_(PlanLock!vars)
  PROVE  GatesInv'
<1>. USE DEF PlanLock!TypeOK, FlockInv, GatesInv, Inside, PlanLock!Goto, PlanLock!Close, PlanLock!planning
<1>1. ASSUME NEW p \in Planners, PlanLock!ParseSpec(p)
      PROVE  GatesInv'
  BY <1>1 DEF PlanLock!ParseSpec
<1>2. ASSUME NEW p \in Planners, PlanLock!Preflight(p)
      PROVE  GatesInv'
  BY <1>2 DEF PlanLock!Preflight
<1>3. ASSUME NEW p \in Planners, PlanLock!OpenGuard(p)
      PROVE  GatesInv'
  BY <1>3 DEF PlanLock!OpenGuard
<1>4. ASSUME NEW p \in Planners, PlanLock!Flock(p)
      PROVE  GatesInv'
  BY <1>4 DEF PlanLock!Flock
<1>5. ASSUME NEW p \in Planners, PlanLock!Recheck(p)
      PROVE  GatesInv'
  BY <1>5 DEF PlanLock!Recheck
<1>6. ASSUME NEW p \in Planners, PlanLock!RecordLock(p)
      PROVE  GatesInv'
  BY <1>6 DEF PlanLock!RecordLock, PlanLock!LockedSha
<1>7. ASSUME NEW p \in Planners, PlanLock!RecordFails(p)
      PROVE  GatesInv'
  BY <1>7 DEF PlanLock!RecordFails
<1>8. ASSUME NEW p \in Planners, PlanLock!Unlink(p)
      PROVE  GatesInv'
  BY <1>8 DEF PlanLock!Unlink, PlanLock!MayUnlink
<1>9. ASSUME NEW p \in Planners, PlanLock!Finish(p)
      PROVE  GatesInv'
  BY <1>9 DEF PlanLock!Finish
<1>10. ASSUME NEW p \in Planners, PlanLock!Crash(p)
      PROVE  GatesInv'
  BY <1>10 DEF PlanLock!Crash
<1>11. ASSUME NEW s \in Stages, PlanLock!Assert(s)
       PROVE  GatesInv'
  BY <1>11 DEF PlanLock!Assert, PlanLock!FindLocks, PlanLock!ReadSpec, PlanLock!RunStage,
     PlanLock!EndStage
<1>12. CASE PlanLock!EditSpec \/ UNCHANGED PlanLock!vars
  BY <1>12 DEF PlanLock!EditSpec, PlanLock!vars
<1>. QED
  BY <1>1, <1>2, <1>3, <1>4, <1>5, <1>6, <1>7, <1>8, <1>9, <1>10, <1>11, <1>12 DEF
     PlanLock!Next, PlanLock!Advance

(* The lock event a stage found stays the only one, so the spec that the   *)
(* stage compared with it and then kept is the locked one.                 *)
LEMMA StagesKept ==
  ASSUME PlanLock!TypeOK, GuardInv, StageInv, [PlanLock!Next]_(PlanLock!vars)
  PROVE  StageInv'
<1>. USE DEF PlanLock!TypeOK, StageInv, PlanLock!planning, PlanLock!staging
<1>1. ASSUME NEW p \in Planners, PlanLock!RecordLock(p)
      PROVE  StageInv'
  <2>1. plan_locks = <<>>
    BY <1>1 DEF PlanLock!RecordLock, GuardInv
  <2>2. \A s \in Stages : stage[s] = "idle"
    BY <2>1
  <2>. QED  BY <1>1, <2>2 DEF PlanLock!RecordLock
<1>2. ASSUME NEW s \in Stages, PlanLock!FindLocks(s)
      PROVE  StageInv'
  BY <1>2 DEF PlanLock!FindLocks
<1>3. ASSUME NEW s \in Stages, PlanLock!ReadSpec(s)
      PROVE  StageInv'
  BY <1>3 DEF PlanLock!ReadSpec
<1>4. ASSUME NEW s \in Stages, PlanLock!RunStage(s)
      PROVE  StageInv'
  BY <1>4 DEF PlanLock!RunStage, PlanLock!RunSpec
<1>5. ASSUME NEW s \in Stages, PlanLock!EndStage(s)
      PROVE  StageInv'
  BY <1>5 DEF PlanLock!EndStage
<1>6. CASE UNCHANGED <<plan_locks, stage, found, view>>
  BY <1>6
<1>7. (\E p \in Planners : \/ PlanLock!ParseSpec(p) \/ PlanLock!Preflight(p) \/ PlanLock!OpenGuard(p) \/ PlanLock!Flock(p)
                           \/ PlanLock!Recheck(p) \/ PlanLock!RecordFails(p) \/ PlanLock!Unlink(p) \/ PlanLock!Finish(p)
                           \/ PlanLock!Crash(p))
      \/ PlanLock!EditSpec \/ UNCHANGED PlanLock!vars => UNCHANGED <<plan_locks, stage, found, view>>
  BY DEF PlanLock!ParseSpec, PlanLock!Preflight, PlanLock!OpenGuard, PlanLock!Flock,
     PlanLock!Recheck, PlanLock!RecordFails, PlanLock!Unlink, PlanLock!Finish,
     PlanLock!Crash, PlanLock!EditSpec, PlanLock!vars
<1>. QED  BY <1>1, <1>2, <1>3, <1>4, <1>5, <1>6, <1>7 DEF PlanLock!Next, PlanLock!Advance, PlanLock!Assert

LEMMA PlanLockKeeps ==
  ASSUME PlanLockInv, [PlanLock!Next]_(PlanLock!vars) PROVE PlanLockInv'
BY PlanTypesKept, FlocksKept, GuardKept, GatesKept, StagesKept DEF PlanLockInv

LEMMA PlanLockHolds ==
  PlanLockInv => PlanLock!AtMostOneLock /\ PlanLock!LockPassedGates /\ PlanLock!RunsLockedSpec
<1>. SUFFICES ASSUME PlanLockInv
              PROVE  PlanLock!AtMostOneLock /\ PlanLock!LockPassedGates /\ PlanLock!RunsLockedSpec
  OBVIOUS
<1>1. PlanLock!AtMostOneLock /\ PlanLock!LockPassedGates
  BY DEF PlanLockInv, GuardInv, GatesInv, PlanLock!AtMostOneLock, PlanLock!LockPassedGates
<1>2. ASSUME NEW s \in Stages, stage[s] = "running"
      PROVE  plan_locks = <<view[s]>>
  <2>1. plan_locks \in Seq(plan_Specs) /\ Len(plan_locks) = 1 /\ view[s] = plan_locks[1]
    BY <1>2 DEF PlanLockInv, PlanLock!TypeOK, StageInv
  <2>. QED
    BY ONLY <2>1
<1>. QED
  BY <1>1, <1>2 DEF PlanLock!RunsLockedSpec

LEMMA PlanLockStays == Spec => [](moving = "plan" => PlanLockInv)
<1>. DEFINE Inv == moving = "plan" => PlanLockInv
<1>1. Init => Inv
  BY PlanLockBegins DEF Init
<1>2. Inv /\ [Next]_vars => Inv'
  <2>. SUFFICES ASSUME Inv, [Next]_vars, moving' = "plan"
                PROVE  PlanLockInv'
    OBVIOUS
  <2>1. moving = "plan" /\ PlanLockInv
    BY DEF Next, vars
  <2>2. PlanLock!Next \/ UNCHANGED PlanLock!vars
    BY <2>1 DEF Next, vars, planVars, PlanLock!vars
  <2>. QED
    BY <2>1, <2>2, PlanLockKeeps
<1>. QED
  BY <1>1, <1>2, PTL DEF Spec

(* lock.py PL-3: "exactly one lock per ledger", for any number of planners *)
(* racing through the guard file, its unlinking and its re-creation.       *)
THEOREM OneLock == Spec => []AtMostOneLock
<1>1. (moving = "plan" => PlanLockInv) => AtMostOneLock
  BY PlanLockHolds DEF AtMostOneLock
<1>. QED
  BY <1>1, PlanLockStays, PTL

(* PL-2: the sha on the ledger is of bytes that passed the gates, however  *)
(* often the file is edited in between.                                    *)
THEOREM LockIsOfCheckedBytes == Spec => []LockPassedGates
<1>1. (moving = "plan" => PlanLockInv) => LockPassedGates
  BY PlanLockHolds DEF LockPassedGates
<1>. QED
  BY <1>1, PlanLockStays, PTL

(* PRA-M1: a stage that runs, runs the spec the one lock event names.      *)
THEOREM StagesRunTheLock == Spec => []RunsLockedSpec
<1>1. (moving = "plan" => PlanLockInv) => RunsLockedSpec
  BY PlanLockHolds DEF RunsLockedSpec
<1>. QED
  BY <1>1, PlanLockStays, PTL

-----------------------------------------------------------------------------
(* The curation of a corpus.                                               *)

Entries ==
  [sha : corpus_Shas, status : {"pending-curation", "admitted"}, miner : People, canary : corpus_Shas \cup {Absent}]
Manifests ==
  [tasks : [Cands -> Entries \cup {Absent}],
   status : {"none", "subset-validated", "full-run-validated"},
   subset : {"none", "ledgered", "unledgered"}]
Commands ==
  [verb : {"mine"}, step : {"save"}, man : Manifests]
  \cup [verb : {"admit"}, step : {"check", "record", "persist"}, man : Manifests,
        cand : Cands, sha : corpus_Shas, content : corpus_Shas \cup {Absent}]
  \cup [verb : {"calibrate", "subset"}, step : {"record", "save"},
        kind : {"subset", "full", Absent}, man : Manifests]

CorpusTypes ==
  /\ corpus_manifest \in Manifests
  /\ corpus_ledger \in Seq({corpus_ledger[i] : i \in DOMAIN corpus_ledger})
  /\ corpus_files \in [Cands -> [reviewed : corpus_Shas \cup {Absent}, embedded : corpus_Shas \cup {Absent}]]
  /\ cmd \in [Procs -> {Corpus!Idle} \cup Commands]

(* The event a command is about to record.                                 *)
Pending(x) ==
  IF x.step # "record" THEN {}
  ELSE IF x.verb = "admit" THEN {Corpus!TaskAdmitted(x)}
  ELSE IF x.verb = "calibrate" THEN {Corpus!CalibrationRun(x)}
  ELSE {Corpus!SubsetDraw}

(* What a manifest claims, of a set of events, and whom it names as miner.  *)
Claims(m, events) ==
  /\ \A c \in Cands : m.tasks[c] # Absent /\ m.tasks[c].status = "admitted" =>
       \E e \in events : e.type = "task_admitted" /\ e.cand = c /\ e.sha = m.tasks[c].sha
  /\ m.status = "full-run-validated" =>
       \E e \in events : e.type = "calibration_run" /\ e.kind = "full"
  /\ m.status # "none" => \E e \in events : e.type = "calibration_run"
  /\ m.subset = "ledgered" => \E e \in events : e.type = "subset_draw"
NamesMiners(m) ==
  \A c \in Cands : m.tasks[c] # Absent => <<c, m.tasks[c].sha, m.tasks[c].miner>> \in staged

(* What an admission of a version needs among the first n events.          *)
Earned(c, s, n) ==
  /\ \E j \in 1..n :
       /\ corpus_ledger[j].type = "curation_approval"
       /\ corpus_ledger[j].cand = c /\ corpus_ledger[j].sha = s
       /\ corpus_ledger[j].sig.approver \in Curators
       /\ corpus_ledger[j].sig.key = corpus_ledger[j].sig.approver
       /\ \E who \in People \ {corpus_ledger[j].sig.approver} : <<c, s, who>> \in staged
  /\ \E j \in 1..n :
       corpus_ledger[j].type = "flake_baseline" /\ corpus_ledger[j].sha = s /\ corpus_ledger[j].verdict = "clean"

Happened == {corpus_ledger[i] : i \in DOMAIN corpus_ledger}
CommandKnows(x) ==
  /\ NamesMiners(x.man) /\ Claims(x.man, Happened \cup Pending(x))
  /\ x.verb = "admit" /\ x.step = "record" =>
       Earned(x.cand, x.sha, Len(corpus_ledger))
  /\ x.verb = "admit" /\ x.step = "persist" => Corpus!TaskAdmitted(x) \in Happened

CorpusInv ==
  /\ CorpusTypes
  /\ NamesMiners(corpus_manifest) /\ Claims(corpus_manifest, Happened)
  /\ \A c \in Cands : corpus_files[c].embedded # Absent => <<c, corpus_files[c].embedded>> \in Corpus!Admissions
  /\ \A p \in Procs : cmd[p] # Corpus!Idle => CommandKnows(cmd[p])
  /\ Corpus!AdmissionEarned

-----------------------------------------------------------------------------
(* Appends are what happens to a ledger, and nobody is unstaged.           *)
Grows(l, m) ==
  /\ m \in Seq({m[i] : i \in DOMAIN m}) /\ Len(l) <= Len(m)
  /\ Len(l) \in Nat /\ Len(m) \in Nat
  /\ \A i \in 1..Len(l) : m[i] = l[i]

(* An append keeps what has happened and adds its event.                   *)
LEMMA LedgerGrows ==
  ASSUME CorpusTypes, NEW e, corpus_ledger' = Append(corpus_ledger, e)
  PROVE  /\ Grows(corpus_ledger, corpus_ledger') /\ Len(corpus_ledger') = Len(corpus_ledger) + 1 /\ corpus_ledger'[Len(corpus_ledger')] = e
         /\ e \in Happened' /\ Happened \subseteq Happened'
         /\ Happened' = Happened \cup {e}
<1>1. corpus_ledger \in Seq({corpus_ledger[i] : i \in DOMAIN corpus_ledger}) /\ Len(corpus_ledger) \in Nat
      /\ DOMAIN corpus_ledger = 1..Len(corpus_ledger)
  BY DEF CorpusTypes
<1>. DEFINE t == Append(corpus_ledger, e)
<1>2. /\ t \in Seq({t[i] : i \in DOMAIN t}) /\ Len(t) = Len(corpus_ledger) + 1
      /\ \A i \in 1..Len(corpus_ledger) : t[i] = corpus_ledger[i]
      /\ t[Len(t)] = e
  BY <1>1, AppendOwn
<1>3. t = corpus_ledger' /\ DOMAIN t = 1..(Len(corpus_ledger) + 1)
  BY <1>1
<1>. HIDE DEF t
<1>4. Grows(corpus_ledger, corpus_ledger') /\ Len(corpus_ledger') = Len(corpus_ledger) + 1 /\ corpus_ledger'[Len(corpus_ledger')] = e
  BY <1>1, <1>2, <1>3 DEF Grows
<1>5. Happened' = Happened \cup {e}
  BY <1>1, <1>2, <1>3 DEF Happened
<1>. QED
  BY <1>4, <1>5

(* Nothing happens when the ledger stays.                                  *)
LEMMA LedgerStays ==
  ASSUME CorpusTypes, UNCHANGED corpus_ledger
  PROVE  Grows(corpus_ledger, corpus_ledger') /\ Happened' = Happened
<1>1. corpus_ledger \in Seq({corpus_ledger[i] : i \in DOMAIN corpus_ledger}) /\ Len(corpus_ledger) \in Nat
  BY DEF CorpusTypes
<1>. QED
  BY <1>1 DEF Grows, Happened

(* What is claimed of some events is claimed of more.                      *)
LEMMA ClaimsGrow ==
  ASSUME NEW m, NEW E, NEW F, E \subseteq F, Claims(m, E)
  PROVE  Claims(m, F)
  BY DEF Claims

(* What is earned stays earned as the ledger grows.                        *)
LEMMA EarnedGrows ==
  ASSUME NEW c, NEW s, NEW n \in 0..Len(corpus_ledger), NEW k \in Nat, n <= k,
         Grows(corpus_ledger, corpus_ledger'), staged \subseteq staged', Earned(c, s, n)
  PROVE  Earned(c, s, k)'
<1>1. \A j \in 1..n : j \in 1..k /\ corpus_ledger'[j] = corpus_ledger[j]
  BY DEF Grows
<1>2. PICK j \in 1..n :
       /\ corpus_ledger[j].type = "curation_approval"
       /\ corpus_ledger[j].cand = c /\ corpus_ledger[j].sha = s
       /\ corpus_ledger[j].sig.approver \in Curators
       /\ corpus_ledger[j].sig.key = corpus_ledger[j].sig.approver
       /\ \E who \in People \ {corpus_ledger[j].sig.approver} : <<c, s, who>> \in staged
  BY DEF Earned
<1>3. PICK b \in 1..n :
       corpus_ledger[b].type = "flake_baseline" /\ corpus_ledger[b].sha = s /\ corpus_ledger[b].verdict = "clean"
  BY DEF Earned
<1>. QED
  BY <1>1, <1>2, <1>3 DEF Earned

(* What a command knows stays so whatever the others append or stage.      *)
LEMMA KnowledgeStays ==
  ASSUME NEW x, CommandKnows(x), CorpusTypes,
         Grows(corpus_ledger, corpus_ledger'), Happened \subseteq Happened', staged \subseteq staged'
  PROVE  CommandKnows(x)'
<1>1. NamesMiners(x.man)'
  BY DEF CommandKnows, NamesMiners
<1>2. Claims(x.man, Happened' \cup Pending(x))
  BY ClaimsGrow DEF CommandKnows
<1>3. ASSUME x.verb = "admit" /\ x.step = "record"
      PROVE  Earned(x.cand, x.sha, Len(corpus_ledger))'
  BY <1>3, EarnedGrows DEF CommandKnows, Grows
<1>4. x.verb = "admit" /\ x.step = "persist" => Corpus!TaskAdmitted(x) \in Happened'
  BY DEF CommandKnows
<1>. QED
  BY <1>1, <1>2, <1>3, <1>4 DEF CommandKnows

(* An admission, as an event that has happened.                            *)
LEMMA AdmissionsHappened ==
  ASSUME NEW c, NEW s
  PROVE  (<<c, s>> \in Corpus!Admissions) <=>
           \E e \in Happened : e.type = "task_admitted" /\ e.cand = c /\ e.sha = s
  BY DEF Corpus!Admissions, Corpus!Recorded, Happened

(* AdmissionEarned, said with Earned.                                      *)
LEMMA PromiseIsEarned ==
  Corpus!AdmissionEarned <=>
  \A i \in DOMAIN corpus_ledger : corpus_ledger[i].type = "task_admitted" =>
    Earned(corpus_ledger[i].cand, corpus_ledger[i].sha, i - 1)
  BY DEF Corpus!AdmissionEarned, Earned

(* An event that is no admission, or one that is earned, keeps the promise. *)
LEMMA PromiseStays ==
  ASSUME CorpusTypes, Corpus!AdmissionEarned, staged \subseteq staged', NEW e, corpus_ledger' = Append(corpus_ledger, e),
         e.type = "task_admitted" => Earned(e.cand, e.sha, Len(corpus_ledger))
  PROVE  Corpus!AdmissionEarned'
<1>1. /\ Grows(corpus_ledger, corpus_ledger') /\ Len(corpus_ledger') = Len(corpus_ledger) + 1 /\ corpus_ledger'[Len(corpus_ledger')] = e
      /\ Len(corpus_ledger) \in Nat /\ DOMAIN corpus_ledger' = 1..(Len(corpus_ledger) + 1) /\ DOMAIN corpus_ledger = 1..Len(corpus_ledger)
  <2>1. Grows(corpus_ledger, corpus_ledger') /\ Len(corpus_ledger') = Len(corpus_ledger) + 1 /\ corpus_ledger'[Len(corpus_ledger')] = e
    BY LedgerGrows
  <2>2. corpus_ledger \in Seq({corpus_ledger[i] : i \in DOMAIN corpus_ledger})
    BY DEF CorpusTypes
  <2>3. Len(corpus_ledger) \in Nat /\ DOMAIN corpus_ledger = 1..Len(corpus_ledger)
    BY <2>2
  <2>4. DOMAIN corpus_ledger' = 1..(Len(corpus_ledger) + 1)
    BY <2>2
  <2>. QED
    BY <2>1, <2>3, <2>4
<1>2. ASSUME NEW i \in 1..(Len(corpus_ledger) + 1), corpus_ledger'[i].type = "task_admitted",
             NEW c, NEW s, c = corpus_ledger'[i].cand, s = corpus_ledger'[i].sha
      PROVE  Earned(c, s, i - 1)'
  <2>1. CASE i \in 1..Len(corpus_ledger)
    <3>1. corpus_ledger'[i] = corpus_ledger[i]
      BY <1>1, <2>1 DEF Grows
    <3>2. Earned(c, s, i - 1)
      BY <1>1, <1>2, <2>1, <3>1, PromiseIsEarned
    <3>. QED
      BY <1>1, <2>1, <3>2, EarnedGrows
  <2>2. CASE i = Len(corpus_ledger) + 1
    <3>1. Earned(c, s, i - 1)
      BY <1>1, <1>2, <2>2
    <3>. QED
      BY <1>1, <2>2, <3>1, EarnedGrows
  <2>. QED
    BY <1>1, <2>1, <2>2
<1>3. ASSUME NEW i \in DOMAIN corpus_ledger', corpus_ledger'[i].type = "task_admitted"
      PROVE  Earned(corpus_ledger[i].cand, corpus_ledger[i].sha, i - 1)'
  <2>1. PICK c, s : c = corpus_ledger'[i].cand /\ s = corpus_ledger'[i].sha
    OBVIOUS
  <2>2. Earned(c, s, i - 1)'
    BY <1>1, <1>2, <1>3, <2>1
  <2>. QED
    BY <2>1, <2>2 DEF Earned
<1>. QED
  BY <1>3 DEF Corpus!AdmissionEarned, Earned

(* What a step of one command has to show.                                 *)
LEMMA CommandMoves ==
  ASSUME CorpusInv, NEW p \in Procs, NEW x, x \in {Corpus!Idle} \cup Commands,
         cmd' = [cmd EXCEPT ![p] = x], x # Corpus!Idle => CommandKnows(x)',
         Grows(corpus_ledger, corpus_ledger'), Happened \subseteq Happened', staged \subseteq staged'
  PROVE  /\ cmd' \in [Procs -> {Corpus!Idle} \cup Commands]
         /\ \A q \in Procs : cmd'[q] # Corpus!Idle => CommandKnows(cmd[q])'
<1>1. cmd' \in [Procs -> {Corpus!Idle} \cup Commands] /\ cmd'[p] = x
      /\ \A q \in Procs \ {p} : cmd'[q] = cmd[q]
  BY DEF CorpusInv, CorpusTypes
<1>2. ASSUME NEW q \in Procs, cmd'[q] # Corpus!Idle
      PROVE  CommandKnows(cmd[q])'
  <2>1. PICK y : y = cmd'[q]
    OBVIOUS
  <2>2. CASE q = p
    BY <1>1, <1>2, <2>1, <2>2
  <2>3. CASE q # p
    <3>1. CommandKnows(y)
      BY <1>1, <1>2, <2>1, <2>3 DEF CorpusInv
    <3>2. CommandKnows(y)'
      BY <3>1, KnowledgeStays DEF CorpusInv
    <3>. QED
      BY <2>1, <3>2
  <2>. QED
    BY <2>2, <2>3
<1>. QED
  BY <1>1, <1>2

(* The same for all commands while none moves.                             *)
LEMMA CommandsKnowStill ==
  ASSUME CorpusInv, UNCHANGED cmd,
         Grows(corpus_ledger, corpus_ledger'), Happened \subseteq Happened', staged \subseteq staged'
  PROVE  \A q \in Procs : cmd'[q] # Corpus!Idle => CommandKnows(cmd[q])'
<1>1. ASSUME NEW q \in Procs, cmd'[q] # Corpus!Idle
      PROVE  CommandKnows(cmd[q])'
  <2>1. PICK y : y = cmd[q]
    OBVIOUS
  <2>2. CommandKnows(y)
    BY <1>1, <2>1 DEF CorpusInv
  <2>3. CommandKnows(y)'
    BY <2>2, KnowledgeStays DEF CorpusInv
  <2>. QED
    BY <2>1, <2>3
<1>. QED
  BY <1>1

(* What was so of the files stays so while nobody touches them.            *)
LEMMA FilesStay ==
  ASSUME CorpusInv, Grows(corpus_ledger, corpus_ledger'), Happened \subseteq Happened',
         staged \subseteq staged'
  PROVE  /\ UNCHANGED corpus_manifest => NamesMiners(corpus_manifest)' /\ Claims(corpus_manifest, Happened)'
         /\ (\A c \in Cands : corpus_files'[c].embedded = corpus_files[c].embedded) =>
              \A c \in Cands : corpus_files'[c].embedded # Absent => <<c, corpus_files'[c].embedded>> \in Corpus!Admissions'
<1>1. ASSUME UNCHANGED corpus_manifest
      PROVE  NamesMiners(corpus_manifest)' /\ Claims(corpus_manifest, Happened)'
  <2>1. NamesMiners(corpus_manifest)'
    BY <1>1 DEF CorpusInv, NamesMiners
  <2>2. Claims(corpus_manifest, Happened')
    BY ClaimsGrow DEF CorpusInv
  <2>. QED
    BY <1>1, <2>1, <2>2 DEF Claims
<1>2. ASSUME NEW c, NEW t, <<c, t>> \in Corpus!Admissions
      PROVE  <<c, t>> \in Corpus!Admissions'
  BY <1>2, AdmissionsHappened DEF Corpus!Admissions, Corpus!Recorded, Happened
<1>. QED
  BY <1>1, <1>2 DEF CorpusInv

(* A step that appends nothing keeps the promise.                          *)
LEMMA LedgerSame ==
  ASSUME CorpusInv, UNCHANGED corpus_ledger, staged \subseteq staged'
  PROVE  /\ Grows(corpus_ledger, corpus_ledger') /\ Happened' = Happened /\ Corpus!AdmissionEarned'
         /\ corpus_ledger' \in Seq({corpus_ledger'[i] : i \in DOMAIN corpus_ledger'})
<1>1. Grows(corpus_ledger, corpus_ledger') /\ Happened' = Happened
  BY LedgerStays DEF CorpusInv
<1>2. corpus_ledger' \in Seq({corpus_ledger'[i] : i \in DOMAIN corpus_ledger'})
  BY DEF CorpusInv, CorpusTypes
<1>3. Corpus!AdmissionEarned'
  <2>1. ASSUME NEW i \in DOMAIN corpus_ledger, corpus_ledger[i].type = "task_admitted", NEW c, NEW s,
               c = corpus_ledger[i].cand, s = corpus_ledger[i].sha
        PROVE  Earned(c, s, i - 1)'
    <3>1. Earned(c, s, i - 1) /\ i - 1 \in 0..Len(corpus_ledger)
      BY <1>2, <2>1, PromiseIsEarned DEF CorpusInv
    <3>. QED
      BY <1>1, <3>1, EarnedGrows
  <2>2. ASSUME NEW i \in DOMAIN corpus_ledger', corpus_ledger'[i].type = "task_admitted"
        PROVE  Earned(corpus_ledger[i].cand, corpus_ledger[i].sha, i - 1)'
    <3>1. PICK c, s : c = corpus_ledger[i].cand /\ s = corpus_ledger[i].sha
      OBVIOUS
    <3>2. Earned(c, s, i - 1)'
      BY <2>1, <2>2, <3>1
    <3>. QED
      BY <3>1, <3>2 DEF Earned
  <2>. QED
    BY <2>2 DEF Corpus!AdmissionEarned, Earned
<1>. QED
  BY <1>1, <1>2, <1>3

(* approve and baseline.                                                   *)
LEMMA AppendsKeep ==
  ASSUME CorpusInv, NEW e, e.type # "task_admitted", Corpus!Record(e),
         UNCHANGED <<corpus_manifest, corpus_files, staged, cmd, starts>>
  PROVE  CorpusInv'
<1>1. /\ Grows(corpus_ledger, corpus_ledger') /\ Happened \subseteq Happened' /\ staged \subseteq staged'
      /\ corpus_ledger' = Append(corpus_ledger, e)
  BY LedgerGrows DEF Corpus!Record, CorpusInv
<1>2. CorpusTypes'
  BY <1>1 DEF CorpusInv, CorpusTypes, Grows
<1>3. Corpus!AdmissionEarned'
  BY <1>1, PromiseStays DEF CorpusInv
<1>4. \A q \in Procs : cmd'[q] # Corpus!Idle => CommandKnows(cmd[q])'
  BY <1>1, CommandsKnowStill
<1>. QED
  BY <1>1, <1>2, <1>3, <1>4, FilesStay DEF CorpusInv

(* A step that only moves one command on, and perhaps stages or writes a   *)
(* candidate's file.                                                       *)
LEMMA QuietCommands ==
  ASSUME CorpusInv, NEW p \in Procs, NEW x, x \in {Corpus!Idle} \cup Commands,
         cmd' = [cmd EXCEPT ![p] = x],
         x # Corpus!Idle => /\ NamesMiners(x.man)' /\ Claims(x.man, Happened \cup Pending(x))
                            /\ x.verb = "admit" /\ x.step = "record" => Earned(x.cand, x.sha, Len(corpus_ledger))
                            /\ x.verb = "admit" /\ x.step = "persist" => Corpus!TaskAdmitted(x) \in Happened,
         UNCHANGED <<corpus_manifest, corpus_ledger>>, staged \subseteq staged',
         corpus_files' \in [Cands -> [reviewed : corpus_Shas \cup {Absent}, embedded : corpus_Shas \cup {Absent}]],
         \A c \in Cands : corpus_files'[c].embedded = corpus_files[c].embedded
  PROVE  CorpusInv'
<1>1. /\ Grows(corpus_ledger, corpus_ledger') /\ Happened' = Happened /\ Corpus!AdmissionEarned'
      /\ corpus_ledger' \in Seq({corpus_ledger'[i] : i \in DOMAIN corpus_ledger'})
  BY LedgerSame
<1>2. x # Corpus!Idle => CommandKnows(x)'
  <2>. SUFFICES ASSUME x # Corpus!Idle
                PROVE  CommandKnows(x)'
    OBVIOUS
  <2>1. Claims(x.man, Happened' \cup Pending(x))
    BY <1>1
  <2>2. ASSUME x.verb = "admit" /\ x.step = "record"
        PROVE  Earned(x.cand, x.sha, Len(corpus_ledger))'
    <3>1. PICK c, s : c = x.cand /\ s = x.sha
      OBVIOUS
    <3>2. Len(corpus_ledger) \in 0..Len(corpus_ledger) /\ Len(corpus_ledger) \in Nat /\ Len(corpus_ledger) <= Len(corpus_ledger)
      BY <1>1 DEF Grows
    <3>3. Len(corpus_ledger') = Len(corpus_ledger) /\ Earned(c, s, Len(corpus_ledger))
      BY <2>2, <3>1
    <3>4. \A k \in Nat : k = Len(corpus_ledger) => Earned(c, s, k)'
      BY <1>1, <3>2, <3>3, EarnedGrows
    <3>. QED
      BY <3>1, <3>2, <3>3, <3>4
  <2>. QED
    BY <1>1, <2>1, <2>2 DEF CommandKnows
<1>3. /\ cmd' \in [Procs -> {Corpus!Idle} \cup Commands]
      /\ \A q \in Procs : cmd'[q] # Corpus!Idle => CommandKnows(cmd[q])'
  BY <1>1, <1>2, CommandMoves
<1>4. CorpusTypes'
  BY <1>1, <1>3 DEF CorpusInv, CorpusTypes
<1>5. /\ NamesMiners(corpus_manifest)' /\ Claims(corpus_manifest, Happened)'
      /\ \A c \in Cands : corpus_files'[c].embedded # Absent => <<c, corpus_files'[c].embedded>> \in Corpus!Admissions'
  BY <1>1, FilesStay
<1>. QED
  BY <1>1, <1>3, <1>4, <1>5 DEF CorpusInv

(* mine, before its save.                                                  *)
LEMMA MineKeeps ==
  ASSUME CorpusInv, NEW p \in Procs, NEW c \in Cands, NEW s \in corpus_Shas, NEW who \in People,
         Corpus!Mine(p, c, s, who)
  PROVE  CorpusInv'
<1>1. /\ corpus_files' = [corpus_files EXCEPT ![c].reviewed = s] /\ UNCHANGED <<corpus_manifest, corpus_ledger>>
      /\ staged \subseteq staged'
  BY DEF Corpus!Mine
<1>2. /\ corpus_files' \in [Cands -> [reviewed : corpus_Shas \cup {Absent}, embedded : corpus_Shas \cup {Absent}]]
      /\ \A d \in Cands : corpus_files'[d].embedded = corpus_files[d].embedded
  BY <1>1 DEF CorpusInv, CorpusTypes
<1>3. CASE corpus_manifest.tasks[c] # Absent
  <2>1. cmd[p] = Corpus!Idle /\ cmd' = [cmd EXCEPT ![p] = Corpus!Idle]
    BY <1>3 DEF Corpus!Mine, CorpusInv, CorpusTypes
  <2>. QED
    BY <1>1, <1>2, <2>1, QuietCommands
<1>4. CASE corpus_manifest.tasks[c] = Absent
  <2>1. PICK m : m = Corpus!StageCandidate(corpus_manifest, c, s, who)
    OBVIOUS
  <2>2. /\ m \in Manifests /\ m.tasks[c] = Corpus!Entry(s, who)
        /\ \A d \in Cands \ {c} : m.tasks[d] = corpus_manifest.tasks[d]
        /\ m.status = corpus_manifest.status /\ m.subset = corpus_manifest.subset
    BY <2>1 DEF Corpus!StageCandidate, Manifests, Entries, Corpus!Entry, CorpusInv,
       CorpusTypes
  <2>3. PICK x : x = [verb |-> "mine", step |-> "save", man |-> m]
    OBVIOUS
  <2>4. x \in Commands /\ x.man = m /\ x.verb = "mine" /\ Pending(x) = {}
    BY <2>2, <2>3 DEF Commands, Pending
  <2>5. /\ cmd' = [cmd EXCEPT ![p] = x]
        /\ staged' = staged \cup {<<c, s, who>>}
    BY <1>4, <2>1, <2>3 DEF Corpus!Mine, Corpus!Start
  <2>6. NamesMiners(m)'
    BY <2>2, <2>5 DEF NamesMiners, Corpus!Entry, CorpusInv
  <2>7. Claims(m, Happened \cup Pending(x))
    BY <2>2, <2>4 DEF Claims, Corpus!Entry, CorpusInv
  <2>. QED
    BY <1>1, <1>2, <2>4, <2>5, <2>6, <2>7, QuietCommands
<1>. QED
  BY <1>3, <1>4

(* A save writes what the command knows, however old it is by then.        *)
LEMMA SaveKeeps ==
  ASSUME CorpusInv, NEW p \in Procs, cmd[p] # Corpus!Idle, cmd[p].step # "record",
         Corpus!Save(p, cmd[p].man), UNCHANGED <<corpus_ledger, corpus_files, staged>>
  PROVE  CorpusInv'
<1>1. /\ Grows(corpus_ledger, corpus_ledger') /\ Happened' = Happened /\ Corpus!AdmissionEarned'
      /\ corpus_ledger' \in Seq({corpus_ledger'[i] : i \in DOMAIN corpus_ledger'})
  BY LedgerSame
<1>2. cmd' = [cmd EXCEPT ![p] = Corpus!Idle] /\ corpus_manifest' = cmd[p].man
  BY DEF Corpus!Save, Corpus!Finish, Corpus!Goto
<1>3. cmd[p] \in Commands /\ CommandKnows(cmd[p])
  BY DEF CorpusInv, CorpusTypes
<1>4. NamesMiners(corpus_manifest)' /\ Claims(corpus_manifest', Happened')
  BY <1>1, <1>2, <1>3 DEF CommandKnows, NamesMiners, Pending
<1>5. corpus_manifest' \in Manifests
  BY <1>2, <1>3 DEF Commands
<1>6. /\ cmd' \in [Procs -> {Corpus!Idle} \cup Commands]
      /\ \A q \in Procs : cmd'[q] # Corpus!Idle => CommandKnows(cmd[q])'
  BY <1>1, <1>2, CommandMoves
<1>7. \A c \in Cands : corpus_files'[c].embedded # Absent => <<c, corpus_files'[c].embedded>> \in Corpus!Admissions'
  BY <1>1, FilesStay
<1>. QED
  BY <1>1, <1>4, <1>5, <1>6, <1>7 DEF CorpusInv, CorpusTypes, Claims

(* What is approved and passed its baseline, is earned.                    *)
LEMMA AdmissibleIsEarned ==
  ASSUME CorpusInv, NEW x \in Commands, x.verb = "admit", CommandKnows(x), Corpus!Admissible(x)
  PROVE  /\ Earned(x.cand, x.sha, Len(corpus_ledger))
         /\ x.man.tasks[x.cand] \in Entries /\ x.man.tasks[x.cand] # Absent
         /\ x.man.tasks[x.cand].sha = x.sha /\ x.cand \in Cands /\ x.man \in Manifests
<1>1. /\ x.cand \in Cands /\ x.man \in Manifests
      /\ x.man.tasks[x.cand] \in Entries \cup {Absent}
  BY DEF Commands, Manifests
<1>2. /\ x.man.tasks[x.cand] # Absent /\ x.man.tasks[x.cand].sha = x.sha
      /\ Corpus!CuratedBy(Corpus!ApprovalFor(x.cand, x.sha), x.cand, x.sha, x.man.tasks[x.cand].miner)
      /\ Corpus!HasCleanBaseline(x.sha)
  BY DEF Corpus!Admissible
<1>3. Len(corpus_ledger) \in Nat /\ DOMAIN corpus_ledger = 1..Len(corpus_ledger)
  BY DEF CorpusInv, CorpusTypes
<1>4. ASSUME NEW S \in SUBSET (1..Len(corpus_ledger)), S # {}
      PROVE  Corpus!Max(S) \in S
  BY <1>3, <1>4, LastPosition DEF Corpus!Max
<1>5. PICK j \in 1..Len(corpus_ledger) :
        /\ corpus_ledger[j].type = "curation_approval" /\ corpus_ledger[j].cand = x.cand /\ corpus_ledger[j].sha = x.sha
        /\ corpus_ledger[j].sig = Corpus!ApprovalFor(x.cand, x.sha)
  <2>1. Corpus!Approvals(x.cand, x.sha) # {}
    BY <1>2 DEF Corpus!CuratedBy, Corpus!ApprovalFor
  <2>2. Corpus!Approvals(x.cand, x.sha) \in SUBSET (1..Len(corpus_ledger))
    BY <1>3 DEF Corpus!Approvals
  <2>3. Corpus!Max(Corpus!Approvals(x.cand, x.sha)) \in Corpus!Approvals(x.cand, x.sha)
    BY <1>4, <2>1, <2>2
  <2>. QED
    BY <1>3, <2>1, <2>3 DEF Corpus!Approvals, Corpus!ApprovalFor
<1>6. PICK b \in 1..Len(corpus_ledger) :
        corpus_ledger[b].type = "flake_baseline" /\ corpus_ledger[b].sha = x.sha /\ corpus_ledger[b].verdict = "clean"
  <2>1. Corpus!Baselines(x.sha) # {} /\ Corpus!Baselines(x.sha) \in SUBSET (1..Len(corpus_ledger))
    BY <1>2, <1>3 DEF Corpus!HasCleanBaseline, Corpus!Baselines
  <2>2. Corpus!Max(Corpus!Baselines(x.sha)) \in Corpus!Baselines(x.sha)
    BY <1>4, <2>1
  <2>. QED
    BY <1>2, <1>3, <2>2 DEF Corpus!Baselines, Corpus!HasCleanBaseline
<1>7. <<x.cand, x.sha, x.man.tasks[x.cand].miner>> \in staged
  BY <1>1, <1>2 DEF CommandKnows, NamesMiners
<1>8. x.man.tasks[x.cand].miner \in People
  BY <1>1, <1>2 DEF Entries
<1>9. /\ corpus_ledger[j].sig.approver \in Curators /\ corpus_ledger[j].sig.key = corpus_ledger[j].sig.approver
      /\ corpus_ledger[j].sig.approver # x.man.tasks[x.cand].miner
  BY <1>2, <1>5 DEF Corpus!CuratedBy, Corpus!VerifyApproval
<1>. QED
  BY <1>1, <1>2, <1>5, <1>6, <1>7, <1>8, <1>9 DEF Earned

(* admit loads the manifest and the reviewed file.                         *)
LEMMA AdmitLoadKeeps ==
  ASSUME CorpusInv, NEW p \in Procs, NEW c \in Cands, NEW s \in corpus_Shas, NEW withFile \in BOOLEAN,
         Corpus!AdmitLoad(p, c, s, withFile)
  PROVE  CorpusInv'
<1>1. PICK x : x = [verb |-> "admit", step |-> "check", man |-> corpus_manifest, cand |-> c,
                    sha |-> s, content |-> IF withFile THEN corpus_files[c].reviewed ELSE Absent]
  OBVIOUS
<1>2. /\ x.verb = "admit" /\ x.step = "check" /\ x.man = corpus_manifest
      /\ x \in Commands /\ Pending(x) = {}
  BY <1>1 DEF CorpusInv, CorpusTypes, Commands, Pending
<1>3. /\ cmd' = [cmd EXCEPT ![p] = x] /\ UNCHANGED <<corpus_manifest, corpus_ledger, corpus_files, staged>>
  BY <1>1 DEF Corpus!AdmitLoad, Corpus!Start
<1>4. NamesMiners(x.man)'
  BY <1>1, <1>2, <1>3 DEF NamesMiners, CorpusInv
<1>. QED
  BY <1>2, <1>3, <1>4, QuietCommands DEF CorpusInv, CorpusTypes

(* A command that ends, or is killed, takes nothing back.                  *)
LEMMA DieKeeps ==
  ASSUME CorpusInv, NEW p \in Procs, Corpus!Finish(p), UNCHANGED <<corpus_manifest, corpus_ledger, corpus_files, staged>>
  PROVE  CorpusInv'
<1>1. cmd' = [cmd EXCEPT ![p] = Corpus!Idle]
  BY DEF Corpus!Finish, Corpus!Goto
<1>. QED
  BY <1>1, QuietCommands DEF CorpusInv, CorpusTypes

(* admit's checks, and the entry it then claims as admitted.               *)
LEMMA AdmitCheckKeeps ==
  ASSUME CorpusInv, NEW p \in Procs, Corpus!AdmitCheck(p)
  PROVE  CorpusInv'
<1>1. PICK x : x = cmd[p]
  OBVIOUS
<1>2. /\ x \in Commands /\ CommandKnows(x) /\ x.verb = "admit" /\ x.step = "check"
      /\ UNCHANGED <<corpus_manifest, corpus_ledger, corpus_files, staged>>
  BY <1>1 DEF Corpus!AdmitCheck, Corpus!At, CorpusInv, CorpusTypes, Corpus!Idle
<1>3. CASE Corpus!Admissible(x)
  <2>1. PICK y : y = [x EXCEPT !.step = "record", !.man = Corpus!Admit(@, x.cand, x.content)]
    OBVIOUS
  <2>2. cmd' = [cmd EXCEPT ![p] = y]
    BY <1>1, <1>3, <2>1 DEF Corpus!AdmitCheck, Corpus!Goto
  <2>3. /\ Earned(x.cand, x.sha, Len(corpus_ledger))
        /\ x.man.tasks[x.cand] \in Entries /\ x.man.tasks[x.cand] # Absent
        /\ x.man.tasks[x.cand].sha = x.sha /\ x.cand \in Cands /\ x.man \in Manifests
    BY <1>2, <1>3, AdmissibleIsEarned
  <2>4. /\ x \in [verb : {"admit"}, step : {"check", "record", "persist"}, man : Manifests,
                  cand : Cands, sha : corpus_Shas, content : corpus_Shas \cup {Absent}]
    BY <1>2 DEF Commands
  <2>5. /\ y.verb = "admit" /\ y.step = "record" /\ y.cand = x.cand /\ y.sha = x.sha
        /\ y.content = x.content
        /\ y.man = Corpus!Admit(x.man, x.cand, x.content)
    BY <2>1, <2>4
  <2>6. /\ y.man \in Manifests /\ y.man.status = x.man.status /\ y.man.subset = x.man.subset
        /\ \A d \in Cands \ {x.cand} : y.man.tasks[d] = x.man.tasks[d]
        /\ y.man.tasks[x.cand].sha = x.sha /\ y.man.tasks[x.cand].miner = x.man.tasks[x.cand].miner
    <3>1. PICK t : t = [x.man.tasks[x.cand] EXCEPT !.status = "admitted", !.canary = x.content]
      OBVIOUS
    <3>2. /\ t \in Entries /\ t.sha = x.sha /\ t.miner = x.man.tasks[x.cand].miner
      BY <2>3, <2>4, <3>1 DEF Entries
    <3>3. PICK n : n = [x.man.tasks EXCEPT ![x.cand] = t]
      OBVIOUS
    <3>4. /\ n \in [Cands -> Entries \cup {Absent}] /\ n[x.cand] = t
          /\ \A d \in Cands \ {x.cand} : n[d] = x.man.tasks[d]
      BY <2>3, <3>2, <3>3 DEF Manifests
    <3>5. y.man = [x.man EXCEPT !.tasks = n]
      BY <2>5, <3>1, <3>3 DEF Corpus!Admit
    <3>6. y.man \in Manifests /\ y.man.status = x.man.status /\ y.man.subset = x.man.subset
          /\ y.man.tasks = n
      BY <2>3, <3>4, <3>5 DEF Manifests
    <3>. QED
      BY <3>2, <3>4, <3>6
  <2>7. y \in Commands
    <3>1. y \in [verb : {"admit"}, step : {"check", "record", "persist"}, man : Manifests,
                 cand : Cands, sha : corpus_Shas, content : corpus_Shas \cup {Absent}]
      BY <2>1, <2>4, <2>5, <2>6
    <3>. QED
      BY <3>1 DEF Commands
  <2>8. NamesMiners(y.man)'
    BY <1>2, <2>3, <2>6 DEF NamesMiners, CommandKnows
  <2>9. Corpus!TaskAdmitted(y) \in Pending(y) /\ Corpus!TaskAdmitted(y).type = "task_admitted"
        /\ Corpus!TaskAdmitted(y).cand = x.cand /\ Corpus!TaskAdmitted(y).sha = x.sha
    BY <2>5 DEF Pending, Corpus!TaskAdmitted
  <2>10. Claims(y.man, Happened \cup Pending(y))
    <3>1. Claims(x.man, Happened)
      BY <1>2 DEF CommandKnows, Pending
    <3>. QED
      BY <2>6, <2>9, <3>1 DEF Claims
  <2>. QED
    BY <1>2, <2>2, <2>3, <2>5, <2>7, <2>8, <2>10, QuietCommands DEF CorpusInv, CorpusTypes
<1>4. CASE ~Corpus!Admissible(x)
  <2>1. Corpus!Finish(p)
    BY <1>1, <1>4 DEF Corpus!AdmitCheck
  <2>. QED
    BY <1>2, <2>1, DieKeeps
<1>. QED
  BY <1>3, <1>4

(* The admission is recorded: what was pending has happened.               *)
LEMMA AdmitRecordKeeps ==
  ASSUME CorpusInv, NEW p \in Procs, Corpus!AdmitRecord(p)
  PROVE  CorpusInv'
<1>1. PICK x : x = cmd[p]
  OBVIOUS
<1>2. /\ x \in Commands /\ CommandKnows(x) /\ x.verb = "admit" /\ x.step = "record"
      /\ UNCHANGED <<corpus_manifest, corpus_files, staged>>
  BY <1>1 DEF Corpus!AdmitRecord, Corpus!At, CorpusInv, CorpusTypes, Corpus!Idle
<1>3. PICK e : e = Corpus!TaskAdmitted(x)
  OBVIOUS
<1>4. /\ Grows(corpus_ledger, corpus_ledger') /\ Happened' = Happened \cup {e} /\ corpus_ledger' = Append(corpus_ledger, e)
  BY <1>1, <1>3, LedgerGrows DEF Corpus!AdmitRecord, Corpus!Record, CorpusInv
<1>5. PICK y : y = [x EXCEPT !.step = "persist"]
  OBVIOUS
<1>6. cmd' = [cmd EXCEPT ![p] = y]
  BY <1>1, <1>5 DEF Corpus!AdmitRecord, Corpus!Goto
<1>7. x \in [verb : {"admit"}, step : {"check", "record", "persist"}, man : Manifests,
            cand : Cands, sha : corpus_Shas, content : corpus_Shas \cup {Absent}]
  BY <1>2 DEF Commands
<1>8. /\ y \in Commands /\ y.verb = "admit" /\ y.step = "persist" /\ y.man = x.man
      /\ y.cand = x.cand /\ y.sha = x.sha
  BY <1>5, <1>7 DEF Commands
<1>9. Pending(y) = {} /\ Pending(x) = {e} /\ Corpus!TaskAdmitted(y) = e
  BY <1>2, <1>3, <1>8 DEF Pending, Corpus!TaskAdmitted
<1>10. CommandKnows(y)'
  <2>1. NamesMiners(y.man)'
    BY <1>2, <1>8 DEF CommandKnows, NamesMiners
  <2>2. Claims(y.man, Happened' \cup Pending(y))
    BY <1>2, <1>4, <1>8, <1>9 DEF CommandKnows
  <2>. QED
    BY <1>4, <1>8, <1>9, <2>1, <2>2 DEF CommandKnows
<1>11. /\ cmd' \in [Procs -> {Corpus!Idle} \cup Commands]
       /\ \A q \in Procs : cmd'[q] # Corpus!Idle => CommandKnows(cmd[q])'
  BY <1>2, <1>4, <1>6, <1>8, <1>10, CommandMoves
<1>12. CorpusTypes'
  BY <1>2, <1>4, <1>11 DEF CorpusInv, CorpusTypes, Grows
<1>13. Corpus!AdmissionEarned'
  BY <1>2, <1>3, <1>4, PromiseStays DEF CorpusInv, CommandKnows, Corpus!TaskAdmitted
<1>. QED
  BY <1>2, <1>4, <1>11, <1>12, <1>13, FilesStay DEF CorpusInv

(* The embedded copy is written after the event.                           *)
LEMMA AdmitEmbedKeeps ==
  ASSUME CorpusInv, NEW p \in Procs, Corpus!AdmitEmbed(p)
  PROVE  CorpusInv'
<1>1. PICK x : x = cmd[p]
  OBVIOUS
<1>2. /\ x \in Commands /\ CommandKnows(x) /\ x.verb = "admit" /\ x.step = "persist"
      /\ UNCHANGED <<corpus_manifest, corpus_ledger, staged>>
  BY <1>1 DEF Corpus!AdmitEmbed, Corpus!At, CorpusInv, CorpusTypes, Corpus!Idle
<1>3. PICK y : y = [x EXCEPT !.content = Absent]
  OBVIOUS
<1>4. cmd' = [cmd EXCEPT ![p] = y] /\ corpus_files' = [corpus_files EXCEPT ![x.cand].embedded = x.sha]
  BY <1>1, <1>3 DEF Corpus!AdmitEmbed, Corpus!Goto
<1>5. x \in [verb : {"admit"}, step : {"check", "record", "persist"}, man : Manifests,
            cand : Cands, sha : corpus_Shas, content : corpus_Shas \cup {Absent}]
  BY <1>2 DEF Commands
<1>6. /\ y \in Commands /\ y.verb = "admit" /\ y.step = "persist" /\ y.man = x.man
      /\ y.cand = x.cand /\ y.sha = x.sha
  <2>1. /\ y \in [verb : {"admit"}, step : {"check", "record", "persist"}, man : Manifests,
                  cand : Cands, sha : corpus_Shas, content : corpus_Shas \cup {Absent}]
        /\ y.verb = x.verb /\ y.step = x.step /\ y.man = x.man /\ y.cand = x.cand /\ y.sha = x.sha
    BY <1>3, <1>5
  <2>. QED
    BY <1>2, <2>1 DEF Commands
<1>7. CommandKnows(y)
  BY <1>2, <1>6 DEF CommandKnows, Pending, Corpus!TaskAdmitted
<1>8. /\ Grows(corpus_ledger, corpus_ledger') /\ Happened' = Happened /\ Corpus!AdmissionEarned'
      /\ corpus_ledger' \in Seq({corpus_ledger'[i] : i \in DOMAIN corpus_ledger'})
  BY <1>2, LedgerSame
<1>9. CommandKnows(y)'
  BY <1>2, <1>7, <1>8, KnowledgeStays DEF CorpusInv
<1>10. /\ cmd' \in [Procs -> {Corpus!Idle} \cup Commands]
       /\ \A q \in Procs : cmd'[q] # Corpus!Idle => CommandKnows(cmd[q])'
  BY <1>2, <1>4, <1>6, <1>8, <1>9, CommandMoves
<1>11. /\ corpus_files' \in [Cands -> [reviewed : corpus_Shas \cup {Absent}, embedded : corpus_Shas \cup {Absent}]]
       /\ corpus_files'[x.cand].embedded = x.sha
       /\ \A d \in Cands \ {x.cand} : corpus_files'[d].embedded = corpus_files[d].embedded
  BY <1>4, <1>5 DEF CorpusInv, CorpusTypes
<1>12. <<x.cand, x.sha>> \in Corpus!Admissions
  BY <1>2, AdmissionsHappened DEF CommandKnows, Corpus!TaskAdmitted
<1>13. Corpus!Admissions' = Corpus!Admissions
  BY <1>2 DEF Corpus!Admissions, Corpus!Recorded
<1>14. \A c \in Cands : corpus_files'[c].embedded # Absent => <<c, corpus_files'[c].embedded>> \in Corpus!Admissions'
  BY <1>11, <1>12, <1>13 DEF CorpusInv
<1>15. NamesMiners(corpus_manifest)' /\ Claims(corpus_manifest, Happened)'
  BY <1>2, <1>8, FilesStay
<1>. QED
  BY <1>2, <1>8, <1>10, <1>11, <1>14, <1>15 DEF CorpusInv, CorpusTypes

(* subset and calibrate change the manifest they loaded.                   *)
LEMMA LifecycleStarts ==
  ASSUME CorpusInv, NEW p \in Procs,
         Corpus!Subset(p) \/ \E kind \in {"subset", "full"} : Corpus!Calibrate(p, kind)
  PROVE  CorpusInv'
<1>1. ASSUME Corpus!Subset(p)
      PROVE  CorpusInv'
  <2>1. PICK draw \in {"ledgered", "unledgered"} :
          Corpus!Start(p, [verb |-> "subset", kind |-> Absent,
                           step |-> IF draw = "ledgered" THEN "record" ELSE "save",
                           man |-> [corpus_manifest EXCEPT !.subset = draw]])
    BY <1>1 DEF Corpus!Subset
  <2>2. PICK x : x = [verb |-> "subset", kind |-> Absent,
                      step |-> IF draw = "ledgered" THEN "record" ELSE "save",
                      man |-> [corpus_manifest EXCEPT !.subset = draw]]
    OBVIOUS
  <2>3. /\ cmd' = [cmd EXCEPT ![p] = x] /\ UNCHANGED <<corpus_manifest, corpus_ledger, corpus_files, staged>>
    BY <1>1, <2>1, <2>2 DEF Corpus!Subset, Corpus!Start
  <2>4. /\ x \in Commands /\ x.verb = "subset" /\ (draw = "ledgered" => x.step = "record")
        /\ x.man.tasks = corpus_manifest.tasks /\ x.man.status = corpus_manifest.status /\ x.man.subset = draw
    BY <2>2 DEF CorpusInv, CorpusTypes, Commands, Manifests
  <2>5. draw = "ledgered" => Corpus!SubsetDraw \in Pending(x) /\ Corpus!SubsetDraw.type = "subset_draw"
    BY <2>4 DEF Pending, Corpus!SubsetDraw
  <2>6. Claims(x.man, Happened \cup Pending(x)) /\ NamesMiners(x.man)'
    BY <2>3, <2>4, <2>5 DEF CorpusInv, Claims, NamesMiners
  <2>. QED
    BY <2>3, <2>4, <2>6, QuietCommands DEF CorpusInv, CorpusTypes
<1>2. ASSUME NEW kind \in {"subset", "full"}, Corpus!Calibrate(p, kind)
      PROVE  CorpusInv'
  <2>1. PICK x : x = [verb |-> "calibrate", step |-> "record", kind |-> kind,
                      man |-> Corpus!Advance(corpus_manifest, kind)]
    OBVIOUS
  <2>2. /\ cmd' = [cmd EXCEPT ![p] = x] /\ UNCHANGED <<corpus_manifest, corpus_ledger, corpus_files, staged>>
    BY <1>2, <2>1 DEF Corpus!Calibrate, Corpus!Start
  <2>3. /\ x \in Commands /\ x.verb = "calibrate" /\ x.step = "record" /\ x.kind = kind
        /\ x.man.tasks = corpus_manifest.tasks /\ x.man.subset = corpus_manifest.subset
        /\ x.man.status = "full-run-validated" => kind = "full" \/ corpus_manifest.status = "full-run-validated"
    BY <2>1 DEF CorpusInv, CorpusTypes, Commands, Manifests, Corpus!Advance
  <2>4. /\ Corpus!CalibrationRun(x) \in Pending(x) /\ Corpus!CalibrationRun(x).type = "calibration_run"
        /\ Corpus!CalibrationRun(x).kind = kind
    BY <2>3 DEF Pending, Corpus!CalibrationRun
  <2>5. Claims(x.man, Happened \cup Pending(x)) /\ NamesMiners(x.man)'
    BY <2>2, <2>3, <2>4 DEF CorpusInv, Claims, NamesMiners
  <2>. QED
    BY <2>2, <2>3, <2>5, QuietCommands DEF CorpusInv, CorpusTypes
<1>. QED
  BY <1>1, <1>2

(* Their event is recorded before they save.                               *)
LEMMA LifecycleRecordKeeps ==
  ASSUME CorpusInv, NEW p \in Procs, Corpus!LifecycleRecord(p)
  PROVE  CorpusInv'
<1>1. PICK x : x = cmd[p]
  OBVIOUS
<1>2. /\ x \in Commands /\ CommandKnows(x) /\ x.verb \in {"calibrate", "subset"}
      /\ x.step = "record" /\ UNCHANGED <<corpus_manifest, corpus_files, staged>>
  BY <1>1 DEF Corpus!LifecycleRecord, Corpus!At, CorpusInv, CorpusTypes, Corpus!Idle
<1>3. PICK e : Pending(x) = {e} /\ Corpus!Record(e) /\ e.type # "task_admitted"
  BY <1>1 DEF Corpus!LifecycleRecord, Corpus!At, Pending, Corpus!CalibrationRun,
     Corpus!SubsetDraw
<1>4. /\ Grows(corpus_ledger, corpus_ledger') /\ Happened' = Happened \cup {e} /\ corpus_ledger' = Append(corpus_ledger, e)
  BY <1>3, LedgerGrows DEF Corpus!Record, CorpusInv
<1>5. PICK y : y = [x EXCEPT !.step = "save"]
  OBVIOUS
<1>6. cmd' = [cmd EXCEPT ![p] = y]
  BY <1>1, <1>5 DEF Corpus!LifecycleRecord, Corpus!Goto
<1>7. /\ y \in Commands /\ y.verb \in {"calibrate", "subset"} /\ y.step = "save" /\ y.man = x.man
  BY <1>2, <1>5 DEF Commands
<1>8. CommandKnows(y)'
  <2>1. NamesMiners(y.man)'
    BY <1>2, <1>7 DEF CommandKnows, NamesMiners
  <2>2. Claims(y.man, Happened' \cup Pending(y))
    BY <1>2, <1>3, <1>4, <1>7 DEF CommandKnows, Pending
  <2>. QED
    BY <1>7, <2>1, <2>2 DEF CommandKnows
<1>9. /\ cmd' \in [Procs -> {Corpus!Idle} \cup Commands]
      /\ \A q \in Procs : cmd'[q] # Corpus!Idle => CommandKnows(cmd[q])'
  BY <1>2, <1>4, <1>6, <1>7, <1>8, CommandMoves
<1>10. CorpusTypes'
  BY <1>2, <1>4, <1>9 DEF CorpusInv, CorpusTypes, Grows
<1>11. Corpus!AdmissionEarned'
  BY <1>2, <1>3, <1>4, PromiseStays DEF CorpusInv
<1>. QED
  BY <1>2, <1>4, <1>9, <1>10, <1>11, FilesStay DEF CorpusInv

(* The steps that are left, and all of them together.                      *)
LEMMA CorpusSteps ==
  ASSUME CorpusInv, Corpus!Next
  PROVE  CorpusInv'
<1>1. ASSUME NEW c \in Cands, NEW a \in People, NEW h \in People,
             Corpus!Approve(c, corpus_files[c].reviewed, a, h)
      PROVE  CorpusInv'
  BY <1>1, AppendsKeep DEF Corpus!Approve, Corpus!CurationApproval
<1>2. ASSUME NEW c \in Cands, NEW v \in {"clean", "quarantined"}, Corpus!Baseline(corpus_files[c].reviewed, v)
      PROVE  CorpusInv'
  BY <1>2, AppendsKeep DEF Corpus!Baseline, Corpus!FlakeBaseline
<1>3. ASSUME NEW p \in Procs, Corpus!MineSave(p)
      PROVE  CorpusInv'
  BY <1>3, SaveKeeps DEF Corpus!MineSave, Corpus!At, Corpus!Idle
<1>4. ASSUME NEW p \in Procs, Corpus!AdmitSave(p)
      PROVE  CorpusInv'
  BY <1>4, SaveKeeps DEF Corpus!AdmitSave, Corpus!At, Corpus!Idle
<1>5. ASSUME NEW p \in Procs, Corpus!LifecycleSave(p)
      PROVE  CorpusInv'
  BY <1>5, SaveKeeps DEF Corpus!LifecycleSave, Corpus!At, Corpus!Idle
<1>6. ASSUME NEW p \in Procs, Corpus!Die(p)
      PROVE  CorpusInv'
  BY <1>6, DieKeeps DEF Corpus!Die
<1>. QED
  BY <1>1, <1>2, <1>3, <1>4, <1>5, <1>6, MineKeeps, AdmitLoadKeeps, AdmitCheckKeeps,
     AdmitRecordKeeps, AdmitEmbedKeeps, LifecycleStarts, LifecycleRecordKeeps DEF
     Corpus!Next

(* There is no manifest and no event.                                      *)
LEMMA CorpusBegins ==
  Corpus!Init => CorpusInv
<1>. SUFFICES ASSUME Corpus!Init
              PROVE  CorpusInv
  OBVIOUS
<1>1. CorpusTypes
  BY EmptyOwn DEF Corpus!Init, CorpusTypes, Manifests, Corpus!NoManifest
<1>2. Happened = {} /\ DOMAIN corpus_ledger = {}
  BY DEF Corpus!Init, Happened
<1>. QED
  BY <1>1, <1>2 DEF Corpus!Init, CorpusInv, Corpus!NoManifest, NamesMiners, Claims,
     Corpus!AdmissionEarned

(* Every step of every command keeps it.                                   *)
LEMMA CorpusKeeps ==
  CorpusInv /\ [Corpus!Next]_(Corpus!vars) => CorpusInv'
<1>. SUFFICES ASSUME CorpusInv, [Corpus!Next]_(Corpus!vars)
              PROVE  CorpusInv'
  OBVIOUS
<1>1. ASSUME UNCHANGED Corpus!vars
      PROVE  CorpusInv'
  <2>. USE <1>1 DEF Corpus!vars
  <2>1. /\ Grows(corpus_ledger, corpus_ledger') /\ Happened' = Happened /\ Corpus!AdmissionEarned'
    BY LedgerSame
  <2>2. CorpusTypes'
    BY DEF CorpusInv, CorpusTypes
  <2>3. \A q \in Procs : cmd'[q] # Corpus!Idle => CommandKnows(cmd[q])'
    BY <2>1, CommandsKnowStill
  <2>. QED
    BY <2>1, <2>2, <2>3, FilesStay DEF CorpusInv
<1>. QED
  BY <1>1, CorpusSteps

(* What the manifest on disk claims has happened.                          *)
LEMMA CorpusHolds ==
  CorpusInv => Corpus!AdmissionEarned /\ Corpus!ManifestFollowsChain
<1>. SUFFICES ASSUME CorpusInv
              PROVE  Corpus!ManifestFollowsChain
  BY DEF CorpusInv
<1>1. /\ \A c \in Cands : corpus_manifest.tasks[c] # Absent /\ corpus_manifest.tasks[c].status = "admitted" =>
            <<c, corpus_manifest.tasks[c].sha>> \in Corpus!Admissions
  BY AdmissionsHappened DEF CorpusInv, Claims
<1>. QED
  BY <1>1 DEF CorpusInv, Claims, Corpus!ManifestFollowsChain, Corpus!Recorded, Happened

LEMMA CorpusStays == Spec => [](moving = "corpus" => CorpusInv)
<1>. DEFINE Inv == moving = "corpus" => CorpusInv
<1>1. Init => Inv
  BY CorpusBegins DEF Init
<1>2. Inv /\ [Next]_vars => Inv'
  <2>. SUFFICES ASSUME Inv, [Next]_vars, moving' = "corpus"
                PROVE  CorpusInv'
    OBVIOUS
  <2>1. moving = "corpus" /\ CorpusInv
    BY DEF Next, vars
  <2>2. Corpus!Next \/ UNCHANGED Corpus!vars
    BY <2>1 DEF Next, vars, corpusVars, Corpus!vars
  <2>. QED
    BY <2>1, <2>2, CorpusKeeps
<1>. QED
  BY <1>1, <1>2, PTL DEF Spec

(* For any number of candidates, people and command processes, and a       *)
(* ledger of any length: every admission was earned, and the manifest and  *)
(* the embedded copies claim no admission, calibration or draw under a     *)
(* ledger that is not on the chain (D-P4-3, CO-9).                         *)
THEOREM AdmissionsAreEarned == Spec => []CorpusSound
<1>1. (moving = "corpus" => CorpusInv) => CorpusSound
  BY CorpusHolds DEF CorpusSound
<1>. QED
  BY <1>1, CorpusStays, PTL

-----------------------------------------------------------------------------
(* The import of a corpus.                                                 *)

EntryRecords ==
  [sha : import_Shas \ {Absent}, status : {"admitted", "quarantined"}, baseline : BOOLEAN]
CorpusVersions == [semver : Semvers, calibration : {"none", "full-run-validated"},
              tasks : [import_Tasks -> EntryRecords \cup {Absent}]]

(* An import carries from the moment that everything is computed, and the  *)
(* manifest it was compared with stays until its own is saved.             *)
ImportInv ==
  /\ import_manifest \in CorpusVersions \cup {Absent} /\ import \in CorpusVersions \cup {Absent}
  /\ import # Absent /\ import_manifest # Absent => Import!Inherits(import, import_manifest)

(* What Fresh and Carry return are manifests.                              *)
LEMMA FreshManifest ==
  ASSUME NEW source \in [import_Tasks -> import_Shas \cup {Absent}], NEW v \in Semvers
  PROVE  Import!Fresh(source, v) \in CorpusVersions
<1>. DEFINE entries == [t \in import_Tasks |-> IF source[t] = Absent THEN Absent
                          ELSE [sha |-> source[t], status |-> "admitted", baseline |-> FALSE]]
<1>1. \A t \in import_Tasks : entries[t] \in EntryRecords \cup {Absent}
  BY DEF EntryRecords
<1>2. entries \in [import_Tasks -> EntryRecords \cup {Absent}]
  BY <1>1
<1>3. Import!Fresh(source, v) = [semver |-> v, calibration |-> "none", tasks |-> entries]
  BY DEF Import!Fresh
<1>. HIDE DEF entries
<1>. QED
  BY <1>2, <1>3 DEF CorpusVersions

LEMMA CarryManifest ==
  ASSUME NEW m \in CorpusVersions, NEW prior \in CorpusVersions
  PROVE  /\ Import!Carry(m, prior) \in CorpusVersions /\ Import!Carry(m, prior).semver = m.semver
         /\ Import!Carry(m, prior).calibration =
            IF m.semver = prior.semver THEN prior.calibration ELSE m.calibration
         /\ \A t \in import_Tasks : Import!Carry(m, prior).tasks[t] = Import!CarryEntry(m.tasks[t], prior.tasks[t])
<1>. DEFINE carried == [t \in import_Tasks |-> Import!CarryEntry(m.tasks[t], prior.tasks[t])]
            kept == IF m.semver = prior.semver THEN prior.calibration ELSE m.calibration
<1>1. /\ m.tasks \in [import_Tasks -> EntryRecords \cup {Absent}]
      /\ prior.tasks \in [import_Tasks -> EntryRecords \cup {Absent}]
      /\ kept \in {"none", "full-run-validated"}
  BY DEF CorpusVersions
<1>2. \A t \in import_Tasks : carried[t] \in EntryRecords \cup {Absent}
  BY <1>1 DEF Import!CarryEntry
<1>3. carried \in [import_Tasks -> EntryRecords \cup {Absent}]
  BY <1>2
<1>4. Import!Carry(m, prior) = [m EXCEPT !.tasks = carried, !.calibration = kept]
  BY DEF Import!Carry, CorpusVersions
<1>5. \A t \in import_Tasks : carried[t] = Import!CarryEntry(m.tasks[t], prior.tasks[t])
  OBVIOUS
<1>. HIDE DEF carried, kept
<1>6. /\ Import!Carry(m, prior) \in CorpusVersions /\ Import!Carry(m, prior).semver = m.semver
      /\ Import!Carry(m, prior).calibration = kept /\ Import!Carry(m, prior).tasks = carried
  BY <1>1, <1>3, <1>4 DEF CorpusVersions
<1>. QED
  BY <1>5, <1>6 DEF kept

(* Whatever the operator asks for, what an accepted import will save       *)
(* inherits from the manifest it was compared with.                        *)
LEMMA CarryInherits ==
  ASSUME NEW m \in CorpusVersions, NEW prior \in CorpusVersions, m.calibration = "none",
         Import!ValidSuccessor(m, prior)
  PROVE  Import!Inherits(Import!Carry(m, prior), prior)
<1>. DEFINE c == Import!Carry(m, prior)
<1>1. /\ c \in CorpusVersions /\ c.semver = m.semver
      /\ c.calibration = IF m.semver = prior.semver THEN prior.calibration ELSE m.calibration
      /\ \A t \in import_Tasks : c.tasks[t] = Import!CarryEntry(m.tasks[t], prior.tasks[t])
  BY CarryManifest
<1>. HIDE DEF c
<1>2. \A t \in import_Tasks : /\ c.tasks[t] = Absent <=> m.tasks[t] = Absent
                              /\ m.tasks[t] # Absent => c.tasks[t].sha = m.tasks[t].sha
  BY <1>1 DEF Import!CarryEntry
<1>3. Import!Entries(c) = Import!Entries(m)
  BY <1>2 DEF Import!Entries
<1>4. Import!TaskShas(c) = Import!TaskShas(m)
  BY <1>2, <1>3 DEF Import!TaskShas, Import!Entries
<1>5. ASSUME NEW t \in Import!Entries(c) \cap Import!Entries(prior), c.tasks[t].sha = prior.tasks[t].sha
      PROVE  c.tasks[t] = prior.tasks[t]
  BY <1>1, <1>2, <1>5 DEF Import!Entries, Import!CarryEntry
<1>6. m.semver = prior.semver => Import!TaskShas(c) = Import!TaskShas(prior)
  BY <1>4 DEF Import!ValidSuccessor
<1>7. Import!Inherits(c, prior)
  BY <1>1, <1>5, <1>6 DEF Import!Inherits
<1>. QED
  BY <1>7 DEF c

LEMMA ImportBegins == Import!Init => ImportInv
  BY DEF Import!Init, ImportInv

(* A new import is computed from the export and compared with the manifest.*)
LEMMA ImportComputes ==
  ASSUME ImportInv, NEW source \in [import_Tasks -> import_Shas \cup {Absent}], NEW v \in Semvers,
         NEW wellFormed, Import!Import(source, v, wellFormed)
  PROVE  ImportInv'
<1>. DEFINE m == Import!Fresh(source, v)
<1>1. m \in CorpusVersions /\ m.calibration = "none"
  BY FreshManifest DEF Import!Fresh
<1>2. /\ import_manifest' = import_manifest /\ import_manifest \in CorpusVersions \cup {Absent}
      /\ \/ import' = Absent
         \/ import_manifest = Absent /\ import' = m
         \/ import_manifest # Absent /\ Import!ValidSuccessor(m, import_manifest) /\ import' = Import!Carry(m, import_manifest)
  BY DEF Import!Import, ImportInv
<1>. HIDE DEF m
<1>3. ASSUME import_manifest # Absent, Import!ValidSuccessor(m, import_manifest), import' = Import!Carry(m, import_manifest)
      PROVE  ImportInv'
  <2>1. import_manifest \in CorpusVersions
    BY <1>2, <1>3
  <2>2. Import!Carry(m, import_manifest) \in CorpusVersions /\ Import!Inherits(Import!Carry(m, import_manifest), import_manifest)
    BY <1>1, <1>3, <2>1, CarryManifest, CarryInherits
  <2>3. Import!Inherits(import, import_manifest)'
    BY <1>2, <1>3, <2>2 DEF Import!Inherits, Import!Entries, Import!TaskShas
  <2>. QED
    BY <1>2, <1>3, <2>2, <2>3 DEF ImportInv
<1>. QED
  BY <1>1, <1>2, <1>3 DEF ImportInv

LEMMA ImportKeeps ==
  ASSUME ImportInv, Import!Next \/ UNCHANGED Import!vars
  PROVE  ImportInv'
<1>1. ASSUME NEW source \in [import_Tasks -> import_Shas \cup {Absent}], NEW v \in Semvers,
             NEW wellFormed, Import!Import(source, v, wellFormed)
      PROVE  ImportInv'
  BY <1>1, ImportComputes
<1>2. ASSUME UNCHANGED <<import_manifest, import>>
      PROVE  ImportInv'
  BY <1>2 DEF ImportInv, Import!Inherits, Import!Entries, Import!TaskShas
<1>3. CASE \E t \in import_Tasks : Import!WriteBlob(t) \/ Import!Prune(t)
  BY <1>2, <1>3 DEF Import!WriteBlob, Import!Prune
<1>4. ASSUME NEW t \in import_Tasks, Import!Quarantine(t) \/ Import!Validate(t)
      PROVE  ImportInv'
  <2>1. import_manifest \in CorpusVersions /\ import_manifest.tasks[t] \in EntryRecords /\ import = Absent
        /\ import' = import
    BY <1>4 DEF Import!Quarantine, Import!Validate, Import!IsSchedulable, ImportInv,
       CorpusVersions
  <2>. DEFINE entry == IF Import!Quarantine(t) THEN [import_manifest.tasks[t] EXCEPT !.status = "quarantined"]
                       ELSE [import_manifest.tasks[t] EXCEPT !.baseline = TRUE]
              tasks == [import_manifest.tasks EXCEPT ![t] = entry]
  <2>2. entry \in EntryRecords
    BY <2>1 DEF EntryRecords
  <2>. HIDE DEF entry
  <2>3. tasks \in [import_Tasks -> EntryRecords \cup {Absent}]
    BY <2>1, <2>2 DEF CorpusVersions
  <2>4. \/ import_manifest' = [import_manifest EXCEPT !.tasks = tasks]
        \/ import_manifest' = [import_manifest EXCEPT !.calibration = "full-run-validated", !.tasks = tasks]
    BY <1>4, <2>1 DEF Import!Quarantine, Import!Validate, entry, CorpusVersions,
       EntryRecords
  <2>. HIDE DEF tasks
  <2>5. import_manifest' \in CorpusVersions
    BY <2>1, <2>3, <2>4 DEF CorpusVersions
  <2>. QED
    BY <2>1, <2>5 DEF ImportInv
<1>5. CASE Import!SaveManifest \/ Import!Die
  BY <1>5 DEF Import!SaveManifest, Import!Die, ImportInv
<1>6. CASE UNCHANGED Import!vars
  BY <1>2, <1>6 DEF Import!vars
<1>. QED
  BY <1>1, <1>3, <1>4, <1>5, <1>6 DEF Import!Next

(* The one step that replaces a manifest while an import writes saves what *)
(* that import computed, when every blob it names lies in the cache.       *)
LEMMA ImportHolds ==
  ASSUME ImportInv, Import!Next \/ UNCHANGED Import!vars
  PROVE  Import!CarriesState
<1>. SUFFICES ASSUME import # Absent, import' = Absent, import_manifest' # import_manifest
              PROVE  /\ import_manifest # Absent => Import!Inherits(import_manifest', import_manifest)
                     /\ DOMAIN Import!Materialize(import_manifest, TRUE)' = {t \in import_Tasks : cache'[t] # Absent}
                     /\ \A t \in Import!Selected(import_manifest', TRUE) :
                          Import!Materialize(import_manifest, TRUE)'[t].content = Import!TaskShas(import_manifest')[t]
  BY DEF Import!CarriesState
<1>1. Import!SaveManifest
  BY DEF Import!Next, Import!vars, Import!Import, Import!WriteBlob, Import!Prune,
     Import!Quarantine, Import!Validate, Import!Die
<1>2. import_manifest' = import /\ import \in CorpusVersions /\ cache' = cache
  BY <1>1 DEF Import!SaveManifest, ImportInv
<1>3. import_manifest # Absent => Import!Inherits(import_manifest', import_manifest)
  BY <1>2 DEF ImportInv
<1>4. \A t \in import_Tasks : IF import.tasks[t] = Absent THEN cache[t] = Absent
                              ELSE cache[t] = import.tasks[t].sha /\ cache[t] # Absent
  BY <1>1, <1>2 DEF Import!SaveManifest, Import!Stale, CorpusVersions, EntryRecords
<1>5. Import!Selected(import_manifest', TRUE) = {t \in import_Tasks : cache'[t] # Absent}
      /\ Import!Entries(import_manifest') = {t \in import_Tasks : cache'[t] # Absent}
  BY <1>2, <1>4 DEF Import!Selected, Import!Entries
<1>6. Import!Materialize(import_manifest, TRUE)' =
      [t \in Import!Selected(import_manifest', TRUE) |-> [visible |-> {"id", "prompt"}, content |-> cache'[t]]]
  BY <1>5 DEF Import!Materialize
<1>7. \A t \in Import!Selected(import_manifest', TRUE) :
        Import!Materialize(import_manifest, TRUE)'[t].content = Import!TaskShas(import_manifest')[t]
  <2>. TAKE t \in Import!Selected(import_manifest', TRUE)
  <2>1. t \in import_Tasks /\ t \in Import!Entries(import_manifest') /\ import.tasks[t] # Absent
    BY <1>2, <1>4, <1>5
  <2>2. Import!Materialize(import_manifest, TRUE)'[t] = [visible |-> {"id", "prompt"}, content |-> cache'[t]]
    BY <1>6
  <2>3. Import!TaskShas(import_manifest')[t] = import_manifest'.tasks[t].sha
    BY <2>1 DEF Import!TaskShas
  <2>4. cache'[t] = import.tasks[t].sha /\ import_manifest'.tasks[t] = import.tasks[t]
    BY <1>2, <1>4, <2>1
  <2>5. Import!Materialize(import_manifest, TRUE)'[t].content = cache'[t]
    <3>1. PICK v : v = [visible |-> {"id", "prompt"}, content |-> cache'[t]]
      OBVIOUS
    <3>2. v.content = cache'[t] /\ Import!Materialize(import_manifest, TRUE)'[t] = v
      BY <2>2, <3>1
    <3>. QED
      BY <3>2
  <2>. QED
    BY <2>3, <2>4, <2>5
<1>. QED
  BY <1>3, <1>5, <1>6, <1>7

LEMMA ImportStays == Spec => [](moving = "import" => ImportInv)
<1>. DEFINE Inv == moving = "import" => ImportInv
<1>1. Init => Inv
  BY ImportBegins DEF Init
<1>2. Inv /\ [Next]_vars => Inv'
  <2>. SUFFICES ASSUME Inv, [Next]_vars, moving' = "import"
                PROVE  ImportInv'
    OBVIOUS
  <2>1. moving = "import" /\ ImportInv
    BY DEF Next, vars
  <2>2. Import!Next \/ UNCHANGED Import!vars
    BY <2>1 DEF Next, vars, importVars, Import!vars
  <2>. QED
    BY <2>1, <2>2, ImportKeeps
<1>. QED
  BY <1>1, <1>2, PTL DEF Spec

(* For any tasks, contents, versions and deaths of imports: what is saved  *)
(* keeps the status and baseline of a task known in this content, and the  *)
(* content and calibration of a version, and what then materialises is     *)
(* what the manifest names (corpus/public.py).                             *)
THEOREM ImportsLaunderNothing == Spec => ImportSound
<1>1. ASSUME moving = "import" => ImportInv, [Next]_vars
      PROVE  [moving = "import" => Import!CarriesState]_vars
  <2>. SUFFICES ASSUME moving = "import"
                PROVE  Import!CarriesState
    OBVIOUS
  <2>1. Import!Next \/ UNCHANGED Import!vars
    BY <1>1 DEF Next, vars, importVars, Import!vars
  <2>. QED
    BY <1>1, <2>1, ImportHolds
<1>. QED
  BY <1>1, ImportStays, PTL DEF Spec, ImportSound

-----------------------------------------------------------------------------
(* Managed sidecars.                                                       *)

Starts == {"inspect", "create", "run", "connect", "ready", "config"}
Stops == {"remove", "networks", "log"}

Places ==
  [kind : Sidecars!Kinds \cup {"run"}, phase : Starts \cup Stops \cup {"idle", "up", "done"}, n : 0..2]
Placed(s, kinds) ==
  /\ s.kind = "run" <=> s.phase \in {"idle", "up", "done"}
  /\ s.kind # "run" => s.kind \in kinds
  /\ s.phase \in {"inspect", "create", "networks"} => s.n \in DOMAIN Sidecars!Nets(s.kind)

(* Where a run is, and the types of what the docker daemon holds.          *)
SidecarTypes ==
  /\ networks \subseteq {"metered", "egress"}
  /\ containers \subseteq [name : Sidecars!Kinds \X Runs, kind : Sidecars!Kinds, nets : SUBSET {"metered", "egress"}]
  /\ rawlog \subseteq Runs
  /\ managed \in [Runs -> SUBSET Sidecars!Kinds]
  /\ sidecars_pc \in [Runs -> Places]
  /\ \A r \in Runs : Placed(sidecars_pc[r], managed[r])

(* The run has stood up its sidecar of this kind and not begun to stop it. *)
Stands(r, kind) ==
  \/ sidecars_pc[r].kind = kind /\ sidecars_pc[r].phase \in {"ready", "config"}
  \/ kind \in managed[r] /\ Sidecars!At(r, "run", "up")
  \/ kind = "proxy" /\ kind \in managed[r] /\ sidecars_pc[r].kind = "collector"
(* It may have a container of this kind, which it will remove.             *)
Owns(r, kind) ==
  \/ Stands(r, kind)
  \/ sidecars_pc[r].kind = kind /\ sidecars_pc[r].phase \in {"connect", "remove"}
(* It will try to remove this network.                                     *)
Obliged(r, net) ==
  \/ sidecars_pc[r].phase \in Starts \cup {"remove"} /\ net \in Sidecars!Needs(sidecars_pc[r].kind)
  \/ sidecars_pc[r].phase = "networks" /\ \E i \in 1..sidecars_pc[r].n : Sidecars!Nets(sidecars_pc[r].kind)[i] = net
  \/ \E kind \in Sidecars!Kinds : Stands(r, kind) /\ net \in Sidecars!Needs(kind)

Attests(c, r, kind) ==
  /\ c.name = Sidecars!Name(r, kind) /\ c.kind = kind
  /\ c.nets \subseteq Sidecars!Needs(kind) /\ c.nets \subseteq networks
  /\ Owns(r, kind)
ContainersInv ==
  /\ \A c \in containers : \E r \in Runs, kind \in Sidecars!Kinds : Attests(c, r, kind)
  /\ \A c, d \in containers : c.name = d.name => c = d
StandsInv ==
  \A r \in Runs :
    /\ \A kind \in Sidecars!Kinds : Stands(r, kind) =>
         \E c \in containers : c.name = Sidecars!Name(r, kind) /\ c.nets = Sidecars!Needs(kind)
    /\ Sidecars!At(r, "proxy", "connect") =>
                  \E c \in containers : c.name = Sidecars!Name(r, "proxy") /\ c.nets = {"metered"}
NetworksInv == \A net \in networks : \E r \in Runs : Obliged(r, net)
LogInv == \A r \in rawlog : sidecars_pc[r].kind = "collector" \/ Stands(r, "collector")

SidecarInv == SidecarTypes /\ ContainersInv /\ StandsInv /\ NetworksInv /\ LogInv
SidecarsInv == ~spoiled => SidecarInv

-----------------------------------------------------------------------------
(* The networks of the two kinds.                                          *)
LEMMA SidecarNets ==
  /\ Sidecars!Needs("proxy") = {"metered", "egress"} /\ Sidecars!Needs("collector") = {"metered"}
  /\ Sidecars!Nets("proxy") = <<"metered", "egress">> /\ Sidecars!Nets("collector") = <<"metered">>
  /\ Len(Sidecars!Nets("proxy")) = 2 /\ Len(Sidecars!Nets("collector")) = 1
  /\ DOMAIN Sidecars!Nets("proxy") = {1, 2} /\ DOMAIN Sidecars!Nets("collector") = {1}
  /\ "proxy" \in Sidecars!Kinds /\ "collector" \in Sidecars!Kinds
  /\ \A kind \in Sidecars!Kinds : kind = "proxy" \/ kind = "collector"
<1>1. /\ Sidecars!Nets("proxy") = <<"metered", "egress">> /\ Sidecars!Nets("collector") = <<"metered">>
      /\ Len(Sidecars!Nets("proxy")) = 2 /\ Len(Sidecars!Nets("collector")) = 1
      /\ DOMAIN Sidecars!Nets("proxy") = {1, 2} /\ DOMAIN Sidecars!Nets("collector") = {1}
  BY DEF Sidecars!Nets
<1>2. Sidecars!Needs("proxy") = {"metered", "egress"} /\ Sidecars!Needs("collector") = {"metered"}
  BY <1>1 DEF Sidecars!Needs
<1>. QED
  BY <1>1, <1>2 DEF Sidecars!Kinds

(* A name is of one run's sidecar of one kind.                             *)
LEMMA SidecarNames ==
  /\ \A r, q : \A kind, other : Sidecars!Name(r, kind) = Sidecars!Name(q, other) => r = q /\ kind = other
  /\ \A r \in Runs, kind \in Sidecars!Kinds : Sidecars!Name(r, kind) \in Sidecars!Kinds \X Runs
  BY DEF Sidecars!Name

(* A step of one run leaves where the others are.                          *)
Moves(r) ==
  /\ \A q \in Runs \ {r} : sidecars_pc'[q] = sidecars_pc[q] /\ managed'[q] = managed[q]

(* Going to a place that fits what the run manages keeps all in place.     *)
LEMMA SidecarPlaces ==
  ASSUME NEW s \in Places, NEW kinds, Placed(s, kinds), NEW r \in Runs,
         SidecarTypes, managed' \in [Runs -> SUBSET Sidecars!Kinds], managed'[r] = kinds,
         \A q \in Runs \ {r} : managed'[q] = managed[q], Sidecars!Goto(r, s)
  PROVE  /\ sidecars_pc' \in [Runs -> Places] /\ \A q \in Runs : Placed(sidecars_pc'[q], managed'[q])
         /\ sidecars_pc'[r] = s /\ Moves(r)
  BY DEF SidecarTypes, Sidecars!Goto, Moves

(* The types are kept by every step that leaves the promise in force.      *)
LEMMA SidecarTypesStay ==
  ASSUME SidecarTypes, NEW r \in Runs, Sidecars!RunStep(r), ~spoiled'
  PROVE  SidecarTypes' /\ Moves(r)
<1>. USE SidecarNets, SidecarNames
<1>. DEFINE Fits(s) == s \in Places /\ Placed(s, managed'[r]) /\ Sidecars!Goto(r, s)
            Kept == managed' = managed
            Typed == /\ networks' \subseteq {"metered", "egress"}
                     /\ containers' \subseteq [name : Sidecars!Kinds \X Runs, kind : Sidecars!Kinds,
                                             nets : SUBSET {"metered", "egress"}]
                     /\ rawlog' \subseteq Runs
<1>a. ASSUME NEW s, Fits(s), Kept, Typed
      PROVE  SidecarTypes' /\ Moves(r)
  BY <1>a, SidecarPlaces DEF SidecarTypes
<1>p. sidecars_pc[r] \in Places /\ Placed(sidecars_pc[r], managed[r]) /\ managed[r] \in SUBSET Sidecars!Kinds
  BY DEF SidecarTypes
<1>1. ASSUME NEW realInfra \in BOOLEAN, NEW asked \in SUBSET Sidecars!Kinds, Sidecars!BeginRun(r, realInfra, asked)
      PROVE  SidecarTypes' /\ Moves(r)
  <2>1. managed' \in [Runs -> SUBSET Sidecars!Kinds] /\ \A q \in Runs \ {r} : managed'[q] = managed[q]
    BY <1>1 DEF Sidecars!BeginRun, SidecarTypes
  <2>2. Fits(Sidecars!Enter(r, "proxy"))
    BY <1>1, <2>1 DEF Sidecars!BeginRun, Sidecars!Enter, Places, Placed, Sidecars!State,
       Starts, Stops
  <2>. HIDE DEF Fits
  <2>3. Typed
    BY <1>1 DEF Sidecars!BeginRun, SidecarTypes
  <2>. QED
    BY <2>1, <2>2, <2>3, SidecarPlaces DEF SidecarTypes, Fits
<1>2. ASSUME Sidecars!FinishSchedule(r)
      PROVE  SidecarTypes' /\ Moves(r)
  <2>1. Fits(Sidecars!Exit(r, "collector"))
    BY <1>2 DEF Sidecars!FinishSchedule, Sidecars!Exit, Places, Placed, Sidecars!State,
       Starts, Stops
  <2>2. Kept /\ Typed
    BY <1>2 DEF Sidecars!FinishSchedule, SidecarTypes
  <2>. QED
    BY <1>a, <2>1, <2>2
<1>3. ASSUME Sidecars!ConnectEgress(r)
      PROVE  SidecarTypes' /\ Moves(r)
  <2>1. Fits([sidecars_pc[r] EXCEPT !.phase = "ready"]) /\ Kept
    BY <1>3, <1>p DEF Sidecars!ConnectEgress, Sidecars!Phase, Sidecars!At, Places, Placed,
       Starts, Stops
  <2>2. Typed
    BY <1>3 DEF Sidecars!ConnectEgress, SidecarTypes, Sidecars!Named
  <2>. QED
    BY <1>a, <2>1, <2>2
<1>4. ASSUME NEW kind \in Sidecars!Kinds, Sidecars!Inspect(r, kind)
      PROVE  SidecarTypes' /\ Moves(r)
  <2>1. Kept /\ Typed
    BY <1>4 DEF Sidecars!Inspect, SidecarTypes, Sidecars!Provision, Sidecars!Removed
  <2>2. CASE Sidecars!Nets(kind)[sidecars_pc[r].n] \in networks
    <3>1. Sidecars!Goto(r, Sidecars!NextNet(r, kind))
      BY <1>4, <2>2 DEF Sidecars!Inspect
    <3>2. Sidecars!NextNet(r, kind) \in Places /\ Placed(Sidecars!NextNet(r, kind), managed[r])
      BY <1>4, <1>p DEF Sidecars!Inspect, Sidecars!At, Sidecars!NextNet, Places, Placed,
         Sidecars!State, Starts, Stops
    <3>. QED
      BY <1>a, <2>1, <3>1, <3>2
  <2>3. CASE Sidecars!Nets(kind)[sidecars_pc[r].n] \notin networks
    <3>1. Sidecars!Goto(r, [sidecars_pc[r] EXCEPT !.phase = "create"])
      BY <1>4, <2>3 DEF Sidecars!Inspect, Sidecars!Phase
    <3>2. [sidecars_pc[r] EXCEPT !.phase = "create"] \in Places /\ Placed([sidecars_pc[r] EXCEPT !.phase = "create"], managed[r])
      BY <1>4, <1>p DEF Sidecars!Inspect, Sidecars!At, Places, Placed, Starts, Stops
    <3>. QED
      BY <1>a, <2>1, <3>1, <3>2
  <2>. QED
    BY <2>2, <2>3
<1>5. ASSUME NEW kind \in Sidecars!Kinds, Sidecars!CreateNetwork(r, kind)
      PROVE  SidecarTypes' /\ Moves(r)
  <2>1. Fits(Sidecars!NextNet(r, kind)) /\ Kept
    BY <1>5, <1>p DEF Sidecars!CreateNetwork, Sidecars!At, Sidecars!NextNet, Places, Placed,
       Sidecars!State, Starts, Stops
  <2>2. sidecars_pc[r].n \in DOMAIN Sidecars!Nets(kind)
    BY <1>5, <1>p DEF Sidecars!CreateNetwork, Sidecars!At, Placed
  <2>3. Sidecars!Nets(kind)[sidecars_pc[r].n] \in {"metered", "egress"}
    BY <2>2
  <2>4. Typed
    BY <1>5, <2>3 DEF Sidecars!CreateNetwork, SidecarTypes
  <2>. QED
    BY <1>a, <2>1, <2>4
<1>6. ASSUME NEW kind \in Sidecars!Kinds, Sidecars!RunContainer(r, kind)
      PROVE  SidecarTypes' /\ Moves(r)
  <2>1. Fits([sidecars_pc[r] EXCEPT !.phase = IF kind = "proxy" THEN "connect" ELSE "ready"]) /\ Kept
    BY <1>6, <1>p DEF Sidecars!RunContainer, Sidecars!At, Sidecars!Phase, Places, Placed,
       Starts, Stops
  <2>2. Typed
    BY <1>6 DEF Sidecars!RunContainer, SidecarTypes
  <2>. QED
    BY <1>a, <2>1, <2>2
<1>7. ASSUME NEW kind \in Sidecars!Kinds, Sidecars!AwaitReady(r, kind) \/ Sidecars!Config(r, kind) \/ Sidecars!StartFails(r, kind)
      PROVE  SidecarTypes' /\ Moves(r)
  <2>1. Kept /\ Typed
    BY <1>7 DEF Sidecars!AwaitReady, Sidecars!Config, Sidecars!StartFails, SidecarTypes
  <2>2. ASSUME Sidecars!AwaitReady(r, kind)
        PROVE  Fits([sidecars_pc[r] EXCEPT !.phase = "config"])
    BY <1>p, <2>1, <2>2 DEF Sidecars!AwaitReady, Sidecars!At, Sidecars!Phase, Places,
       Placed, Starts, Stops
  <2>3. ASSUME Sidecars!Config(r, kind)
        PROVE  \E s : Fits(s)
    BY <1>p, <2>1, <2>3 DEF Sidecars!Config, Sidecars!At, Places, Placed, Sidecars!State,
       Starts, Stops
  <2>4. ASSUME Sidecars!StartFails(r, kind)
        PROVE  Fits(Sidecars!State(kind, "remove", 0))
    BY <1>p, <2>1, <2>4 DEF Sidecars!StartFails, Sidecars!At, Places, Placed,
       Sidecars!State, Starts, Stops
  <2>. HIDE DEF Fits, Kept, Typed
  <2>. QED
    BY <1>7, <1>a, <2>1, <2>2, <2>3, <2>4
<1>8. ASSUME NEW kind \in Sidecars!Kinds, Sidecars!RemoveContainer(r, kind)
      PROVE  SidecarTypes' /\ Moves(r)
  <2>1. Fits(Sidecars!State(kind, "networks", Len(Sidecars!Nets(kind)))) /\ Kept
    <3>1. Len(Sidecars!Nets(kind)) \in DOMAIN Sidecars!Nets(kind) /\ Len(Sidecars!Nets(kind)) \in 0..2
      <4>1. CASE kind = "proxy"
        <5>1. Len(Sidecars!Nets(kind)) = 2 /\ DOMAIN Sidecars!Nets(kind) = {1, 2}
          BY <4>1, SidecarNets
        <5>. QED
          BY ONLY <5>1
      <4>2. CASE kind = "collector"
        <5>1. Len(Sidecars!Nets(kind)) = 1 /\ DOMAIN Sidecars!Nets(kind) = {1}
          BY <4>2, SidecarNets
        <5>. QED
          BY ONLY <5>1
      <4>. QED
        BY <4>1, <4>2, SidecarNets
    <3>2. kind \in managed[r] /\ managed' = managed
      BY <1>8, <1>p DEF Sidecars!RemoveContainer, Sidecars!At, Placed, Stops
    <3>3. Sidecars!State(kind, "networks", Len(Sidecars!Nets(kind))) \in Places
      BY <3>1 DEF Places, Sidecars!State, Stops
    <3>4. Placed(Sidecars!State(kind, "networks", Len(Sidecars!Nets(kind))), managed'[r])
      BY <3>1, <3>2 DEF Placed, Sidecars!State
    <3>. QED
      BY <1>8, <3>2, <3>3, <3>4 DEF Sidecars!RemoveContainer
  <2>2. Typed
    BY <1>8 DEF Sidecars!RemoveContainer, SidecarTypes, Sidecars!Removed
  <2>. QED
    BY <1>a, <2>1, <2>2
<1>9. ASSUME NEW kind \in Sidecars!Kinds, Sidecars!TeardownNetworks(r, kind)
      PROVE  SidecarTypes' /\ Moves(r)
  <2>1. Kept /\ Typed
    BY <1>9 DEF Sidecars!TeardownNetworks, SidecarTypes, Sidecars!RemoveNetwork
  <2>2. CASE sidecars_pc[r].n > 1
    <3>1. Fits(Sidecars!State(kind, "networks", sidecars_pc[r].n - 1))
      BY <1>9, <1>p, <2>1, <2>2 DEF Sidecars!TeardownNetworks, Sidecars!At, Places, Placed,
         Sidecars!State, Starts, Stops
    <3>. QED
      BY <1>a, <2>1, <3>1
  <2>3. CASE ~(sidecars_pc[r].n > 1)
    <3>1. Fits(Sidecars!State(kind, "log", 0))
      BY <1>9, <1>p, <2>1, <2>3 DEF Sidecars!TeardownNetworks, Sidecars!At, Places, Placed,
         Sidecars!State, Starts, Stops
    <3>. QED
      BY <1>a, <2>1, <3>1
  <2>. QED
    BY <2>2, <2>3
<1>10. ASSUME NEW kind \in Sidecars!Kinds, Sidecars!PreTeardown(r, kind)
       PROVE  SidecarTypes' /\ Moves(r)
  <2>1. Fits(Sidecars!Leave(r, kind)) /\ Kept
    BY <1>10, <1>p DEF Sidecars!PreTeardown, Sidecars!Leave, Sidecars!Exit, Sidecars!At,
       Places, Placed, Sidecars!State, Starts, Stops
  <2>2. Typed
    BY <1>10 DEF Sidecars!PreTeardown, SidecarTypes
  <2>. QED
    BY <1>a, <2>1, <2>2
<1>. QED
  BY <1>1, <1>2, <1>3, <1>4, <1>5, <1>6, <1>7, <1>8, <1>9, <1>10 DEF Sidecars!RunStep,
     Sidecars!TeardownFails, Sidecars!Kill

(* The run's own place decides what it stands, owns and is obliged to.     *)
LEMMA SidecarOthers ==
  ASSUME NEW r \in Runs, Moves(r), NEW q \in Runs \ {r}
  PROVE  /\ \A kind : Stands(q, kind)' = Stands(q, kind)
         /\ \A kind : Owns(q, kind)' = Owns(q, kind)
         /\ \A net : Obliged(q, net)' = Obliged(q, net)
         /\ \A kind, phase : Sidecars!At(q, kind, phase)' = Sidecars!At(q, kind, phase)
         /\ sidecars_pc'[q] = sidecars_pc[q]
  BY DEF Moves, Stands, Owns, Obliged, Sidecars!At

(* A step after which the run owns and is obliged to no less, stands no    *)
(* more, and which leaves containers and networks as they are.             *)
Quiet(r) ==
  /\ containers' = containers /\ networks' = networks /\ rawlog' \subseteq rawlog \cup {r}
  /\ \A kind \in Sidecars!Kinds : Stands(r, kind)' => Stands(r, kind)
  /\ \A kind \in Sidecars!Kinds : Owns(r, kind) => Owns(r, kind)'
  /\ \A net \in networks : Obliged(r, net) => Obliged(r, net)'
  /\ ~Sidecars!At(r, "proxy", "connect")'
  /\ r \in rawlog' => sidecars_pc'[r].kind = "collector" \/ Stands(r, "collector")'

(* A quiet step keeps the invariant.                                       *)
LEMMA QuietSteps ==
  ASSUME SidecarInv, NEW r \in Runs, Moves(r), SidecarTypes', Quiet(r)
  PROVE  SidecarInv'
<1>. USE SidecarOthers DEF Quiet
<1>1. ContainersInv'
  <2>1. ASSUME NEW c \in containers, NEW q \in Runs, NEW kind \in Sidecars!Kinds, Attests(c, q, kind)
        PROVE  Attests(c, q, kind)'
    BY <2>1 DEF Attests
  <2>. QED
    BY <2>1 DEF SidecarInv, ContainersInv
<1>2. StandsInv'
  BY DEF SidecarInv, StandsInv
<1>3. NetworksInv'
  BY DEF SidecarInv, NetworksInv
<1>4. LogInv'
  BY DEF SidecarInv, LogInv, SidecarTypes
<1>. QED
  BY <1>1, <1>2, <1>3, <1>4 DEF SidecarInv

(* Every step of a run keeps the invariant: the container is there from    *)
(* run to remove, and a network that a container of another run is on      *)
(* outlives its removal, because that run will still try to remove it.     *)
LEMMA SidecarStep ==
  ASSUME SidecarInv, NEW r \in Runs, Sidecars!RunStep(r), ~spoiled'
  PROVE  SidecarInv'
<1>. USE SidecarNets
<1>t. SidecarTypes' /\ Moves(r)
  BY SidecarTypesStay DEF SidecarInv
<1>p. /\ sidecars_pc[r] \in Places /\ Placed(sidecars_pc[r], managed[r]) /\ managed[r] \in SUBSET Sidecars!Kinds
      /\ r \in DOMAIN sidecars_pc /\ r \in DOMAIN managed
  BY DEF SidecarInv, SidecarTypes
<1>l. r \in rawlog => sidecars_pc[r].kind = "collector" \/ Stands(r, "collector")
  BY DEF SidecarInv, LogInv
<1>. USE DEF Stands, Owns, Obliged, Sidecars!At, Sidecars!State, Starts
<1>1. ASSUME NEW realInfra \in BOOLEAN, NEW asked \in SUBSET Sidecars!Kinds, Sidecars!BeginRun(r, realInfra, asked)
      PROVE  SidecarInv'
  <2>1. Quiet(r)
    BY <1>1, <1>p, <1>l DEF Sidecars!BeginRun, Sidecars!Enter, Sidecars!Goto, Quiet, Placed
  <2>. QED
    BY <1>t, <2>1, QuietSteps
<1>2. ASSUME Sidecars!FinishSchedule(r)
      PROVE  SidecarInv'
  <2>1. Quiet(r)
    BY <1>2, <1>p, <1>l DEF Sidecars!FinishSchedule, Sidecars!Exit, Sidecars!Goto, Quiet,
       Placed
  <2>. QED
    BY <1>t, <2>1, QuietSteps
<1>4. ASSUME NEW kind \in Sidecars!Kinds, Sidecars!Inspect(r, kind)
      PROVE  SidecarInv'
  <2>1. containers' = containers
    <3>1. ~Owns(r, kind)
      BY <1>4, <1>p DEF Sidecars!Inspect
    <3>. HIDE DEF Owns
    <3>2. Sidecars!Named(Sidecars!Name(r, kind)) = {}
      BY <3>1, SidecarNames DEF SidecarInv, ContainersInv, Attests, Sidecars!Named
    <3>. QED
      BY <1>4, <3>2 DEF Sidecars!Inspect, Sidecars!Provision, Sidecars!Removed
  <2>2. sidecars_pc'[r] = Sidecars!NextNet(r, kind) \/ sidecars_pc'[r] = [sidecars_pc[r] EXCEPT !.phase = "create"]
    BY <1>4, <1>p DEF Sidecars!Inspect, Sidecars!Goto, Sidecars!Phase
  <2>3. Quiet(r)
    <3>1. /\ sidecars_pc[r].kind = kind /\ sidecars_pc[r].phase = "inspect"
          /\ sidecars_pc'[r].kind = kind /\ sidecars_pc'[r].phase \in {"inspect", "run", "create"}
      BY <1>4, <1>p, <2>2 DEF Sidecars!Inspect, Sidecars!NextNet, Places
    <3>2. /\ managed' = managed /\ networks' = networks /\ rawlog' \subseteq rawlog \cup {r}
          /\ kind = "proxy" => rawlog' = rawlog
      BY <1>4 DEF Sidecars!Inspect, Sidecars!Provision
    <3>3. r \in rawlog' => sidecars_pc'[r].kind = "collector" \/ Stands(r, "collector")'
      BY <1>l, <3>1, <3>2
    <3>. QED
      BY <2>1, <3>1, <3>2, <3>3 DEF Quiet
  <2>. QED
    BY <1>t, <2>3, QuietSteps
<1>7. ASSUME NEW kind \in Sidecars!Kinds, Sidecars!AwaitReady(r, kind) \/ Sidecars!Config(r, kind) \/ Sidecars!StartFails(r, kind)
      PROVE  SidecarInv'
  <2>1. ASSUME Sidecars!AwaitReady(r, kind)
        PROVE  Quiet(r)
    BY <1>p, <1>l, <2>1 DEF Sidecars!AwaitReady, Sidecars!Phase, Sidecars!Goto, Quiet,
       Placed, Places
  <2>2. ASSUME Sidecars!Config(r, kind)
        PROVE  Quiet(r)
    BY <1>p, <1>l, <2>2 DEF Sidecars!Config, Sidecars!Goto, Quiet, Placed
  <2>3. ASSUME Sidecars!StartFails(r, kind)
        PROVE  Quiet(r)
    BY <1>p, <1>l, <2>3 DEF Sidecars!StartFails, Sidecars!Goto, Quiet, Placed
  <2>. QED
    BY <1>t, <1>7, <2>1, <2>2, <2>3, QuietSteps
<1>10. ASSUME NEW kind \in Sidecars!Kinds, Sidecars!PreTeardown(r, kind)
       PROVE  SidecarInv'
  <2>1. Quiet(r)
    BY <1>10, <1>p, <1>l DEF Sidecars!PreTeardown, Sidecars!Leave, Sidecars!Exit,
       Sidecars!Goto, Quiet, Placed
  <2>. QED
    BY <1>t, <2>1, QuietSteps
<1>5. ASSUME NEW kind \in Sidecars!Kinds, Sidecars!CreateNetwork(r, kind)
      PROVE  SidecarInv'
  <2>1. sidecars_pc'[r] = Sidecars!NextNet(r, kind) /\ containers' = containers /\ rawlog' = rawlog /\ managed' = managed
    BY <1>5, <1>p DEF Sidecars!CreateNetwork, Sidecars!Goto
  <2>2. /\ sidecars_pc[r].kind = kind /\ sidecars_pc[r].phase = "create" /\ sidecars_pc'[r].kind = kind
        /\ sidecars_pc'[r].phase \in {"inspect", "run"}
    BY <1>5, <2>1 DEF Sidecars!CreateNetwork, Sidecars!NextNet
  <2>3. /\ \A k \in Sidecars!Kinds : Stands(r, k)' <=> Stands(r, k)
        /\ \A k \in Sidecars!Kinds : Owns(r, k) => Owns(r, k)'
    BY <2>1, <2>2
  <2>4. \A net \in networks : Obliged(r, net) => Obliged(r, net)'
    BY <2>1, <2>2
  <2>5. ContainersInv'
    <3>1. ASSUME NEW c \in containers, NEW q \in Runs, NEW k \in Sidecars!Kinds, Attests(c, q, k)
          PROVE  Attests(c, q, k)'
      BY <1>t, <1>5, <2>3, <3>1, SidecarOthers DEF Attests, Sidecars!CreateNetwork
    <3>. QED
      BY <2>1, <3>1 DEF SidecarInv, ContainersInv
  <2>6. StandsInv'
    <3>. DEFINE Served(q) ==
           /\ \A k \in Sidecars!Kinds : Stands(q, k) =>
                \E c \in containers : c.name = Sidecars!Name(q, k) /\ c.nets = Sidecars!Needs(k)
           /\ Sidecars!At(q, "proxy", "connect") =>
                         \E c \in containers : c.name = Sidecars!Name(q, "proxy") /\ c.nets = {"metered"}
    <3>1. \A q \in Runs : Served(q)
      BY DEF SidecarInv, StandsInv
    <3>2. Served(r)'
      BY <2>1, <2>2, <2>3, <3>1
    <3>3. \A q \in Runs : q # r => Served(q)'
      BY <1>t, <2>1, <3>1, SidecarOthers
    <3>. QED
      BY <3>2, <3>3 DEF StandsInv
  <2>7. NetworksInv'
    <3>1. PICK new : new = Sidecars!Nets(kind)[sidecars_pc[r].n]
      OBVIOUS
    <3>2. Obliged(r, new)'
      BY <1>p, <2>2, <3>1 DEF Placed, Sidecars!Needs
    <3>3. networks' = networks \cup {new}
      BY <1>5, <3>1 DEF Sidecars!CreateNetwork
    <3>. QED
      BY <1>t, <2>4, <3>2, <3>3, SidecarOthers DEF SidecarInv, NetworksInv
  <2>8. LogInv'
    BY <1>t, <2>1, <2>2, <2>3, SidecarOthers DEF SidecarInv, SidecarTypes, LogInv
  <2>. QED
    BY <1>t, <2>5, <2>6, <2>7, <2>8 DEF SidecarInv
<1>6. ASSUME NEW kind \in Sidecars!Kinds, Sidecars!RunContainer(r, kind)
      PROVE  SidecarInv'
  <2>. DEFINE new == [name |-> Sidecars!Name(r, kind), kind |-> kind, nets |-> {"metered"}]
  <2>1. /\ containers' = containers \cup {new} /\ networks' = networks /\ rawlog' = rawlog
        /\ managed' = managed /\ "metered" \in networks
        /\ \A c \in containers : c.name # Sidecars!Name(r, kind)
    BY <1>6 DEF Sidecars!RunContainer, Sidecars!Named
  <2>2. /\ sidecars_pc[r].kind = kind /\ sidecars_pc[r].phase = "run" /\ sidecars_pc'[r].kind = kind
        /\ sidecars_pc'[r].phase = IF kind = "proxy" THEN "connect" ELSE "ready"
    BY <1>6, <1>p DEF Sidecars!RunContainer, Sidecars!Phase, Sidecars!Goto, Places
  <2>3. \A k \in Sidecars!Kinds : (Stands(r, k) => Stands(r, k)') /\ (Owns(r, k) => Owns(r, k)')
    BY <2>1, <2>2
  <2>4. \A net \in networks : Obliged(r, net) => Obliged(r, net)'
    BY <2>1, <2>2
  <2>5. ContainersInv'
    <3>1. ASSUME NEW c \in containers, NEW q \in Runs, NEW k \in Sidecars!Kinds, Attests(c, q, k)
          PROVE  Attests(c, q, k)'
      BY <1>t, <2>1, <2>3, <3>1, SidecarOthers DEF Attests
    <3>2. Attests(new, r, kind)'
      BY <2>1, <2>2 DEF Attests
    <3>3. new.name = Sidecars!Name(r, kind)
      OBVIOUS
    <3>. HIDE DEF new
    <3>. QED
      BY <2>1, <3>1, <3>2, <3>3 DEF SidecarInv, ContainersInv
  <2>6. StandsInv'
    <3>0. kind = "proxy" \/ kind = "collector"
      OBVIOUS
    <3>1. new \in containers' /\ new.name = Sidecars!Name(r, kind) /\ new.nets = {"metered"}
      BY <2>1
    <3>2. ASSUME NEW k \in Sidecars!Kinds, Stands(r, k)'
          PROVE  Stands(r, k) \/ (k = kind /\ k = "collector")
      <4>1. CASE sidecars_pc'[r].kind = k /\ sidecars_pc'[r].phase \in {"ready", "config"}
        BY <2>2, <3>0, <4>1
      <4>2. CASE ~(sidecars_pc'[r].kind = k /\ sidecars_pc'[r].phase \in {"ready", "config"})
        BY <2>1, <2>2, <3>0, <3>2, <4>2
      <4>. QED
        BY <4>1, <4>2
    <3>. HIDE DEF new, Stands
    <3>. QED
      <4>1. ASSUME NEW k \in Sidecars!Kinds, Stands(r, k)'
            PROVE  \E c \in containers' : c.name = Sidecars!Name(r, k) /\ c.nets = Sidecars!Needs(k)
        <5>1. CASE Stands(r, k)
          <6>1. PICK c \in containers : c.name = Sidecars!Name(r, k) /\ c.nets = Sidecars!Needs(k)
            BY <5>1 DEF SidecarInv, StandsInv
          <6>. QED
            BY <2>1, <6>1
        <5>2. CASE k = kind /\ k = "collector"
          BY <3>1, <5>2
        <5>. QED
          BY <3>2, <4>1, <5>1, <5>2
      <4>2. Sidecars!At(r, "proxy", "connect")' =>
                       \E c \in containers' : c.name = Sidecars!Name(r, "proxy") /\ c.nets = {"metered"}
        BY <2>2, <3>1
      <4>3. ASSUME NEW q \in Runs \ {r}
            PROVE  /\ \A k \in Sidecars!Kinds : Stands(q, k)' =>
                        \E c \in containers' : c.name = Sidecars!Name(q, k) /\ c.nets = Sidecars!Needs(k)
                   /\ Sidecars!At(q, "proxy", "connect")' =>
                                 \E c \in containers' : c.name = Sidecars!Name(q, "proxy") /\ c.nets = {"metered"}
        BY <1>t, <2>1, SidecarOthers DEF SidecarInv, StandsInv
      <4>. QED
        BY <4>1, <4>2, <4>3 DEF StandsInv
  <2>7. NetworksInv'
    BY <1>t, <2>1, <2>4, SidecarOthers DEF SidecarInv, NetworksInv
  <2>8. LogInv'
    BY <1>t, <2>1, <2>2, <2>3, SidecarOthers DEF SidecarInv, SidecarTypes, LogInv
  <2>. QED
    BY <1>t, <2>5, <2>6, <2>7, <2>8 DEF SidecarInv
<1>3. ASSUME Sidecars!ConnectEgress(r)
      PROVE  SidecarInv'
  <2>1. /\ networks' = networks /\ rawlog' = rawlog /\ managed' = managed
        /\ "egress" \in networks
    BY <1>3 DEF Sidecars!ConnectEgress
  <2>2. PICK c \in containers :
          /\ c.name = Sidecars!Name(r, "proxy")
          /\ containers' = (containers \ {c}) \cup {[c EXCEPT !.nets = @ \cup {"egress"}]}
    BY <1>3 DEF Sidecars!ConnectEgress, Sidecars!Named
  <2>. DEFINE new == [c EXCEPT !.nets = @ \cup {"egress"}]
  <2>3. /\ new.name = c.name /\ new.kind = c.kind /\ new.nets = c.nets \cup {"egress"}
        /\ containers' = (containers \ {c}) \cup {new}
    BY <2>2 DEF SidecarInv, SidecarTypes
  <2>. HIDE DEF new
  <2>4. /\ sidecars_pc[r].kind = "proxy" /\ sidecars_pc[r].phase = "connect"
        /\ sidecars_pc'[r].kind = "proxy" /\ sidecars_pc'[r].phase = "ready"
    BY <1>3, <1>p DEF Sidecars!ConnectEgress, Sidecars!Phase, Sidecars!Goto, Places
  <2>5. c.nets = {"metered"} /\ new.nets = Sidecars!Needs("proxy")
    <3>1. PICK d \in containers : d.name = Sidecars!Name(r, "proxy") /\ d.nets = {"metered"}
      BY <2>4 DEF SidecarInv, StandsInv
    <3>2. d = c
      BY <2>2, <3>1 DEF SidecarInv, ContainersInv
    <3>. QED
      BY <2>3, <3>1, <3>2
  <2>6. \A k \in Sidecars!Kinds : (Stands(r, k) => Stands(r, k)') /\ (Owns(r, k) => Owns(r, k)')
    BY <2>1, <2>4
  <2>7. \A net \in networks : Obliged(r, net) => Obliged(r, net)'
    BY <2>1, <2>4
  <2>8. ContainersInv'
    <3>1. ASSUME NEW d \in containers, NEW q \in Runs, NEW k \in Sidecars!Kinds, Attests(d, q, k)
          PROVE  Attests(d, q, k)'
      BY <1>t, <2>1, <2>6, <3>1, SidecarOthers DEF Attests
    <3>2. PICK q \in Runs, k \in Sidecars!Kinds : Attests(c, q, k)
      BY DEF SidecarInv, ContainersInv
    <3>3. q = r /\ k = "proxy"
      BY <2>2, <3>2, SidecarNames DEF Attests
    <3>4. Attests(new, r, "proxy")'
      BY <2>1, <2>3, <2>4, <2>5, <3>2, <3>3 DEF Attests
    <3>. QED
      BY <2>2, <2>3, <3>1, <3>4 DEF SidecarInv, ContainersInv
  <2>9. StandsInv'
    <3>1. ASSUME NEW q \in Runs \ {r}, NEW k \in Sidecars!Kinds, NEW d \in containers, d.name = Sidecars!Name(q, k)
          PROVE  d \in containers'
      BY <2>2, <2>3, <3>1, SidecarNames
    <3>2. ASSUME NEW k \in Sidecars!Kinds, Stands(r, k)'
          PROVE  k = "proxy"
      BY <2>4, <3>2
    <3>. HIDE DEF Stands
    <3>3. ASSUME NEW q \in Runs \ {r}
          PROVE  /\ \A k \in Sidecars!Kinds : Stands(q, k)' =>
                      \E d \in containers' : d.name = Sidecars!Name(q, k) /\ d.nets = Sidecars!Needs(k)
                 /\ Sidecars!At(q, "proxy", "connect")' =>
                               \E d \in containers' : d.name = Sidecars!Name(q, "proxy") /\ d.nets = {"metered"}
      BY <1>t, <3>1, SidecarOthers DEF SidecarInv, StandsInv
    <3>. QED
      <4>1. new \in containers' /\ new.name = Sidecars!Name(r, "proxy") /\ new.nets = Sidecars!Needs("proxy")
        BY <2>2, <2>3, <2>5
      <4>2. ~Sidecars!At(r, "proxy", "connect")'
        BY <2>4
      <4>3. \A k \in Sidecars!Kinds : Stands(r, k)' =>
              \E d \in containers' : d.name = Sidecars!Name(r, k) /\ d.nets = Sidecars!Needs(k)
        BY <3>2, <4>1
      <4>. QED
        BY <3>3, <4>2, <4>3 DEF StandsInv
  <2>10. NetworksInv'
    BY <1>t, <2>1, <2>7, SidecarOthers DEF SidecarInv, NetworksInv
  <2>11. LogInv'
    BY <1>t, <2>1, <2>4, <2>6, SidecarOthers DEF SidecarInv, SidecarTypes, LogInv
  <2>. QED
    BY <1>t, <2>8, <2>9, <2>10, <2>11 DEF SidecarInv
<1>8. ASSUME NEW kind \in Sidecars!Kinds, Sidecars!RemoveContainer(r, kind)
      PROVE  SidecarInv'
  <2>1. /\ networks' = networks /\ rawlog' = rawlog /\ managed' = managed
        /\ containers' = {c \in containers : c.name # Sidecars!Name(r, kind)}
    BY <1>8 DEF Sidecars!RemoveContainer, Sidecars!Removed, Sidecars!Named
  <2>2. /\ sidecars_pc[r].kind = kind /\ sidecars_pc[r].phase = "remove"
        /\ sidecars_pc'[r].kind = kind /\ sidecars_pc'[r].phase = "networks" /\ sidecars_pc'[r].n = Len(Sidecars!Nets(kind))
    BY <1>8, <1>p DEF Sidecars!RemoveContainer, Sidecars!Goto
  <2>3. \A k \in Sidecars!Kinds : (Stands(r, k) <=> Stands(r, k)') /\ (Owns(r, k) /\ k # kind => Owns(r, k)')
    BY <2>1, <2>2
  <2>4. \A net \in networks : Obliged(r, net) => Obliged(r, net)'
    <3>1. \A net \in Sidecars!Needs(kind) : \E i \in 1..Len(Sidecars!Nets(kind)) : Sidecars!Nets(kind)[i] = net
      OBVIOUS
    <3>. QED
      BY <2>1, <2>2, <3>1
  <2>. HIDE DEF Stands, Owns, Obliged
  <2>5. ContainersInv'
    <3>1. ASSUME NEW c \in containers', NEW q \in Runs, NEW k \in Sidecars!Kinds, Attests(c, q, k)
          PROVE  Attests(c, q, k)'
      BY <1>t, <2>1, <2>3, <3>1, SidecarOthers DEF Attests
    <3>. QED
      BY <2>1, <3>1 DEF SidecarInv, ContainersInv
  <2>6. StandsInv'
    <3>1. ~Stands(r, kind)'
      BY <2>2 DEF Stands
    <3>2. ASSUME NEW q \in Runs, NEW k \in Sidecars!Kinds, NEW d \in containers, d.name = Sidecars!Name(q, k),
                 q # r \/ k # kind
          PROVE  d \in containers'
      BY <2>1, <3>2, SidecarNames
    <3>. QED
      BY <1>t, <2>1, <2>2, <2>3, <3>1, <3>2, SidecarOthers DEF SidecarInv, StandsInv
  <2>7. NetworksInv'
    BY <1>t, <2>1, <2>4, SidecarOthers DEF SidecarInv, NetworksInv
  <2>8. LogInv'
    BY <1>t, <2>1, <2>2, <2>3, SidecarOthers DEF SidecarInv, SidecarTypes, LogInv
  <2>. QED
    BY <1>t, <2>5, <2>6, <2>7, <2>8 DEF SidecarInv
<1>9. ASSUME NEW kind \in Sidecars!Kinds, Sidecars!TeardownNetworks(r, kind)
      PROVE  SidecarInv'
  <2>. PICK old : old = Sidecars!Nets(kind)[sidecars_pc[r].n]
    OBVIOUS
  <2>1. /\ containers' = containers /\ rawlog' = rawlog /\ managed' = managed
        /\ networks' = IF Sidecars!Attached(old) THEN networks ELSE networks \ {old}
    BY <1>9 DEF Sidecars!TeardownNetworks, Sidecars!RemoveNetwork
  <2>2. /\ sidecars_pc[r].kind = kind /\ sidecars_pc[r].phase = "networks" /\ sidecars_pc'[r].kind = kind
        /\ sidecars_pc[r].n > 1 => sidecars_pc'[r].phase = "networks" /\ sidecars_pc'[r].n = sidecars_pc[r].n - 1
        /\ ~(sidecars_pc[r].n > 1) => sidecars_pc'[r].phase = "log"
    BY <1>9, <1>p DEF Sidecars!TeardownNetworks, Sidecars!Goto
  <2>3. \A k \in Sidecars!Kinds : (Stands(r, k) <=> Stands(r, k)') /\ (Owns(r, k) => Owns(r, k)')
    BY <2>1, <2>2
  <2>4. \A net \in networks \ {old} : Obliged(r, net) => Obliged(r, net)'
    <3>1. sidecars_pc[r].n \in 1..2
      BY <1>p, <2>2 DEF Placed
    <3>. QED
      BY <2>1, <2>2, <3>1
  <2>. HIDE DEF Stands, Owns, Obliged
  <2>5. ASSUME NEW c \in containers, NEW q \in Runs, NEW k \in Sidecars!Kinds, Attests(c, q, k)
        PROVE  Attests(c, q, k)'
    BY <1>t, <2>1, <2>3, <2>5, SidecarOthers DEF Attests, Sidecars!Attached
  <2>6. ContainersInv'
    BY <2>1, <2>5 DEF SidecarInv, ContainersInv
  <2>7. StandsInv'
    BY <1>t, <2>1, <2>2, <2>3, SidecarOthers DEF SidecarInv, StandsInv
  <2>8. NetworksInv'
    <3>1. ASSUME Sidecars!Attached(old)
          PROVE  \E q \in Runs : Obliged(q, old)'
      <4>1. PICK c \in containers : old \in c.nets
        BY <3>1 DEF Sidecars!Attached
      <4>2. PICK q \in Runs, k \in Sidecars!Kinds : Attests(c, q, k)
        BY DEF SidecarInv, ContainersInv
      <4>3. Owns(q, k)' /\ old \in Sidecars!Needs(k)
        BY <2>5, <4>1, <4>2 DEF Attests
      <4>4. Obliged(q, old)'
        BY <1>t, <4>3 DEF Owns, Obliged, Starts
      <4>. QED
        BY <4>4
    <3>. QED
      BY <1>t, <2>1, <2>4, <3>1, SidecarOthers DEF SidecarInv, NetworksInv
  <2>9. LogInv'
    BY <1>t, <2>1, <2>2, <2>3, SidecarOthers DEF SidecarInv, SidecarTypes, LogInv
  <2>. QED
    BY <1>t, <2>6, <2>7, <2>8, <2>9 DEF SidecarInv
<1>. QED
  BY <1>1, <1>2, <1>3, <1>4, <1>5, <1>6, <1>7, <1>8, <1>9, <1>10 DEF Sidecars!RunStep,
     Sidecars!TeardownFails, Sidecars!Kill

(* No run has begun.                                                      *)
LEMMA SidecarsBegins ==
  Sidecars!Init => SidecarsInv
<1>. SUFFICES ASSUME Sidecars!Init
              PROVE  SidecarInv
  BY DEF SidecarsInv
<1>. USE DEF Sidecars!Init, Sidecars!State
<1>1. SidecarTypes
  BY DEF SidecarTypes, Places, Placed, Sidecars!Kinds
<1>2. ContainersInv /\ StandsInv /\ NetworksInv /\ LogInv
  BY DEF ContainersInv, StandsInv, NetworksInv, LogInv, Stands, Sidecars!At
<1>. QED
  BY <1>1, <1>2 DEF SidecarInv

(* Outside a kill, a failed teardown command and a `down`, every step      *)
(* keeps it.                                                               *)
LEMMA SidecarsKeeps ==
  SidecarsInv /\ [Sidecars!Next]_(Sidecars!vars) => SidecarsInv'
<1>. SUFFICES ASSUME SidecarsInv, [Sidecars!Next]_(Sidecars!vars), ~spoiled'
              PROVE  SidecarInv'
  BY DEF SidecarsInv
<1>1. ASSUME NEW r \in Runs, Sidecars!RunStep(r)
      PROVE  SidecarInv'
  <2>1. ~spoiled
    BY <1>1 DEF Sidecars!RunStep, Sidecars!BeginRun, Sidecars!FinishSchedule,
       Sidecars!ConnectEgress, Sidecars!Kill, Sidecars!Inspect, Sidecars!CreateNetwork,
       Sidecars!RunContainer, Sidecars!AwaitReady, Sidecars!Config, Sidecars!StartFails,
       Sidecars!RemoveContainer, Sidecars!TeardownNetworks, Sidecars!PreTeardown,
       Sidecars!TeardownFails
  <2>. QED
    BY <1>1, <2>1, SidecarStep DEF SidecarsInv
<1>2. ASSUME UNCHANGED Sidecars!vars
      PROVE  SidecarInv'
  <2>. USE <1>2 DEF Sidecars!vars
  <2>1. SidecarInv
    BY DEF SidecarsInv
  <2>2. SidecarTypes'
    BY <2>1 DEF SidecarInv, SidecarTypes
  <2>3. ContainersInv'
    BY <2>1 DEF SidecarInv, ContainersInv, Attests, Owns, Stands, Sidecars!At
  <2>4. StandsInv'
    BY <2>1 DEF SidecarInv, StandsInv, Stands, Sidecars!At
  <2>5. NetworksInv'
    BY <2>1 DEF SidecarInv, NetworksInv, Obliged, Stands, Sidecars!At
  <2>6. LogInv'
    BY <2>1 DEF SidecarInv, LogInv, Stands, Sidecars!At
  <2>. QED
    BY <2>2, <2>3, <2>4, <2>5, <2>6 DEF SidecarInv
<1>. QED
  BY <1>1, <1>2 DEF Sidecars!Next, Sidecars!Down

(* The invariant, read while schedules execute and when all have left.     *)
LEMMA SidecarsHolds ==
  SidecarsInv => Sidecars!UpMeansReachable /\ Sidecars!NothingLeaks
<1>. SUFFICES ASSUME SidecarInv, ~spoiled
              PROVE  Sidecars!UpMeansReachable /\ Sidecars!NothingLeaks
  BY DEF SidecarsInv, Sidecars!UpMeansReachable, Sidecars!NothingLeaks
<1>. USE SidecarNets DEF SidecarInv
<1>1. ASSUME NEW r \in Runs, Sidecars!At(r, "run", "up"), NEW kind \in managed[r]
      PROVE  /\ Sidecars!Needs(kind) \subseteq networks
             /\ \E c \in Sidecars!Named(Sidecars!Name(r, kind)) : c.nets = Sidecars!Needs(kind)
  <2>1. kind \in Sidecars!Kinds /\ Stands(r, kind)
    BY <1>1 DEF SidecarTypes, Stands
  <2>2. PICK c \in containers : c.name = Sidecars!Name(r, kind) /\ c.nets = Sidecars!Needs(kind)
    BY <2>1 DEF StandsInv
  <2>. QED
    BY <2>2 DEF ContainersInv, Attests, Sidecars!Named
<1>2. ASSUME \A r \in Runs : sidecars_pc[r].phase \in {"idle", "done"}
      PROVE  containers = {} /\ networks = {} /\ rawlog = {}
  <2>1. \A r \in Runs, kind \in Sidecars!Kinds : ~Stands(r, kind) /\ ~Owns(r, kind)
    BY <1>2 DEF SidecarTypes, Placed, Stands, Owns, Sidecars!At
  <2>2. \A r \in Runs : (\A net : ~Obliged(r, net)) /\ sidecars_pc[r].kind = "run"
    BY <1>2, <2>1 DEF SidecarTypes, Placed, Obliged, Starts
  <2>. QED
    BY <2>1, <2>2 DEF ContainersInv, Attests, NetworksInv, LogInv, SidecarTypes
<1>. QED
  BY <1>1, <1>2 DEF Sidecars!UpMeansReachable, Sidecars!NothingLeaks

LEMMA SidecarsStays == Spec => [](moving = "sidecars" => SidecarsInv)
<1>. DEFINE Inv == moving = "sidecars" => SidecarsInv
<1>1. Init => Inv
  BY SidecarsBegins DEF Init
<1>2. Inv /\ [Next]_vars => Inv'
  <2>. SUFFICES ASSUME Inv, [Next]_vars, moving' = "sidecars"
                PROVE  SidecarsInv'
    OBVIOUS
  <2>1. moving = "sidecars" /\ SidecarsInv
    BY DEF Next, vars
  <2>2. Sidecars!Next \/ UNCHANGED Sidecars!vars
    BY <2>1 DEF Next, vars, sidecarsVars, Sidecars!vars
  <2>. QED
    BY <2>1, <2>2, SidecarsKeeps
<1>. QED
  BY <1>1, <1>2, PTL DEF Spec

(* For any number of runs: while a run's schedule executes, its sidecars   *)
(* are on all the networks they need, and when all have left nothing is    *)
(* left behind (hermetic/sidecar.py, incident 2026-07-10, D-09-1).         *)
THEOREM SidecarsStayReachable == Spec => []SidecarsSound
<1>1. (moving = "sidecars" => SidecarsInv) => SidecarsSound
  BY SidecarsHolds DEF SidecarsSound
<1>. QED
  BY <1>1, SidecarsStays, PTL

-----------------------------------------------------------------------------
(* The proxy and the collector.                                            *)

Lines == [trial : Gateway!Names, host : Hosts, decision : {"allow", "deny"}, conn : Conns]
Envelopes == [trial : Gateway!Names, seq : Nat, body : {"json", "protobuf"}, conn : Conns]

(* A connection in use, and the places of each kind of request.            *)
Steps == {"connect", "reverse", "dial", "forward", "splice", "span", "append", "reply", "closed"}
Got == {<<>>, <<"early">>, <<"early", "late">>}
Connections == [step : Steps, req : Gateway!Requests, status : Nat, got : Got, read : Nat]
InUse(x) == x \in Connections
InPlace(x) ==
  /\ InUse(x)
  /\ x.step \in {"dial", "forward", "splice"} => x.req.kind \in {"connect", "reverse"}
  /\ x.step \in {"span", "append", "reply"} => x.req.kind = "span" /\ x.status = 0
  /\ x.step = "connect" => x.req.kind = "connect"
  /\ x.step = "reverse" => x.req.kind = "reverse"
  /\ x.step = "append" => x.req.body \in {"json", "protobuf"}
  /\ x.step \in {"connect", "reverse", "dial", "forward", "span", "append", "reply"} => x.got = <<>>

(* Bytes: from the dial on the request is of an allowed host, and a tunnel *)
(* has a name; before the dial the connection has no line, after it one    *)
(* that allows what was asked; and what reached the upstream is what was   *)
(* read so far.                                                            *)
Named(x) == x.req.host \in ALLOW /\ (x.req.kind = "connect" => x.req.trial # NoTrial)
Unlogged(c) == \A i \in 1..Len(gateway_log) : gateway_log[i].conn # c
AllowLine(c, x) ==
  \E i \in 1..Len(gateway_log) :
    /\ gateway_log[i].conn = c /\ gateway_log[i].decision = "allow"
    /\ gateway_log[i].trial = x.req.trial /\ gateway_log[i].host = x.req.host
    /\ \A j \in 1..Len(gateway_log) : gateway_log[j].conn = c => j = i
Forwarded(got) == got \in {<<"early">>, <<"early", "late">>}
Metered(c, x) ==
  /\ x.step = "dial" => Named(x)
  /\ x.step \in {"connect", "reverse", "dial"} => Unlogged(c)
  /\ x.step \in {"forward", "splice"} \/ x.got # <<>> => Named(x) /\ AllowLine(c, x)
  /\ x.got # <<>> => Forwarded(x.got)
  /\ x.step = "splice" => \/ x.read = 1 /\ x.got = <<"early">>
                          \/ x.read = 2 /\ x.got = <<"early", "late">>

(* Spans: an envelope is of a connection that got past the append; one     *)
(* that was acknowledged, or is about to be, has its envelope.             *)
Acknowledged(c, x) ==
  /\ \A i \in 1..Len(spans) : spans[i].conn = c =>
       /\ x.step \in {"reply", "closed"} /\ spans[i].trial = x.req.trial
       /\ x.status \in {0, IF x.req.trial = NoTrial THEN 400 ELSE 200}
  /\ x.step = "reply" \/ (x.req.kind = "span" /\ x.status = 200) =>
       \E i \in 1..Len(spans) : spans[i].conn = c

GatewayInv ==
  /\ bound \subseteq ALLOW \cup {"connect"}
  /\ "connect" \in bound => ALLOW \subseteq bound
  /\ gateway_log \in Seq(Lines) /\ spans \in Seq(Envelopes) /\ seq \in Nat
  /\ conn = [c \in Conns |-> conn[c]]
  /\ \A c \in Conns : conn[c] # Gateway!Unused =>
       InPlace(conn[c]) /\ Metered(c, conn[c]) /\ Acknowledged(c, conn[c])
  /\ \A i \in 1..Len(spans) : conn[spans[i].conn] # Gateway!Unused
  /\ \A c \in Conns : conn[c] = Gateway!Unused => Unlogged(c)
  /\ \A i, j \in 1..Len(spans) : spans[i].conn = spans[j].conn => i = j

LEMMA AppendTwo ==
  ASSUME NEW a, NEW b
  PROVE  Append(<<a>>, b) = <<a, b>>
<1>. DEFINE S == {a, b}
            s == Append(<<a>>, b)
            t == <<a, b>>
<1>1. <<a>> \in Seq(S) /\ Len(<<a>>) = 1 /\ <<a>>[1] = a /\ b \in S
  OBVIOUS
<1>2. s \in Seq(S) /\ Len(s) = 2 /\ s[1] = a /\ s[2] = b
  BY <1>1, AppendProperties
<1>3. t \in Seq(S) /\ Len(t) = 2 /\ t[1] = a /\ t[2] = b
  OBVIOUS
<1>. HIDE DEF S, s, t
<1>4. \A i \in 1..Len(s) : s[i] = t[i]
  BY <1>2, <1>3
<1>. QED
  BY <1>2, <1>3, <1>4, SeqEqual DEF s, t

LEMMA PairPrefixes ==
  ASSUME NEW a, NEW b
  PROVE  SubSeq(<<a, b>>, 1, 1) = <<a>> /\ SubSeq(<<a, b>>, 1, 2) = <<a, b>>
<1>. DEFINE S == {a, b}
            t == <<a, b>>
<1>1. t \in Seq(S) /\ Len(t) = 2 /\ t[1] = a /\ t[2] = b
  OBVIOUS
<1>2. <<a>> \in Seq(S) /\ Len(<<a>>) = 1 /\ <<a>>[1] = a
  OBVIOUS
<1>. HIDE DEF S, t
<1>3. /\ SubSeq(t, 1, 1) \in Seq(S) /\ Len(SubSeq(t, 1, 1)) = 1 /\ SubSeq(t, 1, 1)[1] = a
      /\ SubSeq(t, 1, 2) \in Seq(S) /\ Len(SubSeq(t, 1, 2)) = 2
      /\ SubSeq(t, 1, 2)[1] = a /\ SubSeq(t, 1, 2)[2] = b
  BY <1>1
<1>4. \A i \in 1..Len(<<a>>) : <<a>>[i] = SubSeq(t, 1, 1)[i]
  BY <1>2, <1>3
<1>5. \A i \in 1..Len(t) : t[i] = SubSeq(t, 1, 2)[i]
  BY <1>1, <1>3
<1>. QED
  BY <1>1, <1>2, <1>3, <1>4, <1>5, SeqEqual DEF t

LEMMA GatewayBegins ==
  Gateway!Init => GatewayInv
BY DEF Gateway!Init, GatewayInv, Unlogged

(* A step of c that leaves its connection as x and at most adds a line of  *)
(* its own to the proxy's log.                                             *)
LEMMA ConnMoves ==
  ASSUME GatewayInv, NEW c \in Conns, NEW x,
         conn' = [conn EXCEPT ![c] = x], x # Gateway!Unused, UNCHANGED <<bound, spans>>, seq' \in Nat,
         gateway_log' = gateway_log \/ (\E line \in Lines : gateway_log' = Append(gateway_log, line) /\ line.conn = c),
         InPlace(x), Metered(c, x)', Acknowledged(c, x)
  PROVE  GatewayInv'
<1>1. /\ gateway_log' \in Seq(Lines) /\ \A i \in 1..Len(gateway_log) : i \in 1..Len(gateway_log') /\ gateway_log'[i] = gateway_log[i]
      /\ \A i \in 1..Len(gateway_log') : i \in 1..Len(gateway_log) \/ gateway_log'[i].conn = c
  <2>1. gateway_log \in Seq(Lines)
    BY DEF GatewayInv
  <2>2. ASSUME NEW line \in Lines, gateway_log' = Append(gateway_log, line), line.conn = c
        PROVE  /\ gateway_log' \in Seq(Lines) /\ \A i \in 1..Len(gateway_log) : i \in 1..Len(gateway_log') /\ gateway_log'[i] = gateway_log[i]
               /\ \A i \in 1..Len(gateway_log') : i \in 1..Len(gateway_log) \/ gateway_log'[i].conn = c
    BY ONLY <2>1, <2>2
  <2>. QED
    BY <2>1, <2>2
<1>5. ASSUME NEW d \in Conns \ {c}, NEW y, Metered(d, y)
      PROVE  Metered(d, y)'
  <2>1. Unlogged(d) => Unlogged(d)'
    BY <1>1 DEF Unlogged
  <2>2. AllowLine(d, y) => AllowLine(d, y)'
    BY <1>1 DEF AllowLine
  <2>. QED
    BY <1>5, <2>1, <2>2 DEF Metered
<1>2. conn' = [d \in Conns |-> conn'[d]] /\ conn'[c] = x /\ \A d \in Conns \ {c} : conn'[d] = conn[d]
  BY DEF GatewayInv
<1>3. ASSUME NEW d \in Conns, conn'[d] # Gateway!Unused
      PROVE  InPlace(conn'[d]) /\ Metered(d, conn[d])' /\ Acknowledged(d, conn[d])'
  <2>1. CASE d = c
    BY <1>2, <2>1 DEF Metered, Acknowledged
  <2>2. CASE d # c
    <3>1. PICK y : y = conn[d]
      OBVIOUS
    <3>2. InPlace(y) /\ Metered(d, y) /\ Acknowledged(d, y) /\ conn'[d] = y
      BY <1>2, <1>3, <2>2, <3>1 DEF GatewayInv
    <3>3. Metered(d, y)' /\ Acknowledged(d, y)'
      BY <1>5, <2>2, <3>2 DEF Acknowledged
    <3>. QED
      BY <3>2, <3>3 DEF Metered, Acknowledged
  <2>. QED
    BY <2>1, <2>2
<1>4. ASSUME NEW i \in 1..Len(spans)
      PROVE  conn'[spans[i].conn] # Gateway!Unused
  <2>1. spans[i] \in Envelopes
    BY DEF GatewayInv
  <2>. QED
    BY <1>2, <2>1 DEF GatewayInv, Envelopes
<1>6. ASSUME NEW d \in Conns, conn'[d] = Gateway!Unused
      PROVE  Unlogged(d)'
  <2>1. d # c /\ conn[d] = Gateway!Unused
    BY <1>2, <1>6
  <2>2. Unlogged(d)
    BY <2>1 DEF GatewayInv
  <2>. QED
    BY <1>1, <2>1, <2>2 DEF Unlogged
<1>. QED
  BY <1>1, <1>2, <1>3, <1>4, <1>6 DEF GatewayInv, InPlace, InUse, Connections, Steps,
     Gateway!Unused

LEMMA GatewayKeeps ==
  GatewayInv /\ [Gateway!Next]_(Gateway!vars) => GatewayInv'
<1>. SUFFICES ASSUME GatewayInv, [Gateway!Next]_(Gateway!vars)
              PROVE  GatewayInv'
  OBVIOUS
<1>1. CASE UNCHANGED Gateway!vars
  BY <1>1 DEF Gateway!vars, GatewayInv, Metered, Acknowledged, AllowLine, Unlogged
<1>2. ASSUME NEW port \in ALLOW \cup {"connect"}, Gateway!Listen(port)
      PROVE  GatewayInv'
  BY <1>2 DEF Gateway!Listen, GatewayInv, Metered, Acknowledged, AllowLine, Unlogged
<1>. SUFFICES ASSUME NEW c \in Conns,
                     \/ \E req \in Gateway!Requests : Gateway!Accept(c, req)
                     \/ \E upstream \in BOOLEAN : Gateway!Dial(c, upstream)
                     \/ Gateway!Handle(c) \/ Gateway!HandleReverse(c) \/ Gateway!ForwardEarly(c) \/ Gateway!Splice(c)
                     \/ Gateway!Close(c) \/ Gateway!HandleSpan(c) \/ Gateway!AppendEnvelope(c) \/ Gateway!Reply(c)
              PROVE  GatewayInv'
  BY <1>1, <1>2 DEF Gateway!Next
<1>. DEFINE old == conn[c]
            LogsOnly == /\ UNCHANGED <<bound, spans>> /\ seq' \in Nat
                        /\ gateway_log' = gateway_log \/ (\E line \in Lines : gateway_log' = Append(gateway_log, line) /\ line.conn = c)
<1>u. ASSUME NEW x, conn' = [conn EXCEPT ![c] = x], x # Gateway!Unused, LogsOnly,
             InPlace(x), Metered(c, x)', Acknowledged(c, x)
      PROVE  GatewayInv'
  BY <1>u, ConnMoves
<1>o. ASSUME old # Gateway!Unused
      PROVE  /\ InPlace(old) /\ Metered(c, old) /\ Acknowledged(c, old) /\ InUse(old)
             /\ old.req \in Gateway!Requests /\ old.req.trial \in Gateway!Names
             /\ old.req.kind # "span" => old.req.host \in Hosts
  <2>1. InPlace(old) /\ Metered(c, old) /\ Acknowledged(c, old)
    BY <1>o DEF GatewayInv
  <2>. QED
    BY <2>1, OperationsAssumption DEF InPlace, InUse, Connections, Gateway!Requests,
       Gateway!Names, Gateway!GatewayAssumption
<1>m. ASSUME NEW x, Metered(c, x), LogsOnly, gateway_log' = gateway_log
      PROVE  Metered(c, x)'
  BY <1>m DEF Metered, AllowLine, Unlogged
(* A request that was answered before a byte reached the upstream.         *)
<1>a. ASSUME NEW status \in Nat, Gateway!Answer(c, status), LogsOnly, old # Gateway!Unused, old.got = <<>>,
             old.step \notin {"reply", "closed"}, status # 200 \/ old.req.kind # "span"
      PROVE  GatewayInv'
  <2>1. PICK x : x = [old EXCEPT !.step = "closed", !.status = status]
    OBVIOUS
  <2>2. /\ InUse(x) /\ x.step = "closed" /\ x.status = status /\ x.req = old.req /\ x.got = old.got
        /\ x # Gateway!Unused
    BY <1>a, <1>o, <2>1 DEF InUse, Connections, Steps, Gateway!Unused
  <2>3. conn' = [conn EXCEPT ![c] = x]
    BY <1>a, <2>1 DEF Gateway!Answer
  <2>4. InPlace(x) /\ Metered(c, x)'
    BY <1>a, <1>o, <2>2 DEF InPlace, Metered
  <2>5. Acknowledged(c, x)
    BY <1>a, <1>o, <2>2 DEF Acknowledged, InPlace
  <2>. QED
    BY <1>a, <1>u, <2>2, <2>3, <2>4, <2>5
<1>s. ASSUME NEW s \in Steps, Gateway!Step(c, s), old # Gateway!Unused
      PROVE  \E x : /\ conn' = [conn EXCEPT ![c] = x] /\ x # Gateway!Unused /\ InUse(x) /\ x.step = s
                    /\ x.status = old.status /\ x.req = old.req /\ x.got = old.got /\ x.read = old.read
  <2>1. PICK x : x = [old EXCEPT !.step = s]
    OBVIOUS
  <2>2. /\ x # Gateway!Unused /\ InUse(x) /\ x.step = s
        /\ x.status = old.status /\ x.req = old.req /\ x.got = old.got /\ x.read = old.read
    BY <1>s, <1>o, <2>1 DEF InUse, Connections, Steps, Gateway!Unused
  <2>. QED
    BY <1>s, <2>1, <2>2 DEF Gateway!Step
<1>l. ASSUME NEW trial \in Gateway!Names, NEW decision \in {"allow", "deny"}, Gateway!Log(c, trial, decision),
             old # Gateway!Unused, old.req.kind # "span"
      PROVE  \E line \in Lines : /\ gateway_log' = Append(gateway_log, line) /\ line.conn = c
                                 /\ line.decision = decision /\ line.trial = trial
                                 /\ line.host = old.req.host
  BY <1>l, <1>o DEF Gateway!Log, Lines
<1>k. ASSUME old.step # "unused"
      PROVE  old # Gateway!Unused
  BY <1>k DEF Gateway!Unused
<1>q. GatewayInv => seq \in Nat
  BY DEF GatewayInv
<1>d. ASSUME old.step \in {"connect", "reverse"}, Gateway!Step(c, "dial"), Named(old), LogsOnly, gateway_log' = gateway_log
      PROVE  GatewayInv'
  <2>1. old # Gateway!Unused
    BY <1>d, <1>k
  <2>2. PICK x : /\ conn' = [conn EXCEPT ![c] = x] /\ x # Gateway!Unused /\ InUse(x) /\ x.step = "dial"
                 /\ x.status = old.status /\ x.req = old.req /\ x.got = old.got /\ x.read = old.read
    BY <1>d, <1>s, <2>1 DEF Steps
  <2>3. InPlace(x) /\ Metered(c, x) /\ Acknowledged(c, x)
    BY <1>d, <1>o, <2>1, <2>2 DEF InPlace, Metered, Named, Acknowledged
  <2>. QED
    BY <1>d, <1>m, <1>u, <2>2, <2>3
<1>3. ASSUME NEW req \in Gateway!Requests, Gateway!Accept(c, req)
      PROVE  GatewayInv'
  <2>1. PICK x : x = [step |-> req.kind, req |-> req, status |-> 0, got |-> <<>>, read |-> 0]
    OBVIOUS
  <2>2. /\ x.step = req.kind /\ x.req = req /\ x.status = 0 /\ x.got = <<>> /\ x.read = 0
        /\ req.kind \in {"connect", "reverse", "span"}
    BY <2>1 DEF Gateway!Requests
  <2>3. InUse(x) /\ x # Gateway!Unused
    BY <2>1, <2>2 DEF InUse, Connections, Got, Steps, Gateway!Unused
  <2>4. (\A i \in 1..Len(spans) : spans[i].conn # c) /\ Unlogged(c)
    BY <1>3 DEF Gateway!Accept, GatewayInv
  <2>5. InPlace(x) /\ Metered(c, x) /\ Acknowledged(c, x)
    BY <2>2, <2>3, <2>4 DEF InPlace, Metered, Acknowledged
  <2>6. LogsOnly /\ gateway_log' = gateway_log /\ conn' = [conn EXCEPT ![c] = x]
    BY <1>3, <1>q, <2>1 DEF Gateway!Accept
  <2>. QED
    BY <1>m, <1>u, <2>3, <2>5, <2>6
<1>4. ASSUME Gateway!Handle(c)
      PROVE  GatewayInv'
  <2>1. old.step = "connect" /\ old # Gateway!Unused /\ old.req.kind = "connect" /\ old.got = <<>>
    BY <1>4, <1>k, <1>o DEF Gateway!Handle, InPlace
  <2>2. UNCHANGED <<bound, spans>> /\ seq' \in Nat
    BY <1>4, <1>q DEF Gateway!Handle
  <2>3. CASE Gateway!ConnectRefusal(old.req) # 0
    <3>1. LogsOnly
      BY <1>4, <1>l, <1>o, <2>1, <2>2, <2>3 DEF Gateway!Handle
    <3>. QED
      BY <1>4, <1>a, <2>1, <2>3, <3>1 DEF Gateway!Handle, Gateway!ConnectRefusal
  <2>4. CASE Gateway!ConnectRefusal(old.req) = 0
    <3>1. Named(old)
      BY <1>o, <2>1, <2>4 DEF Gateway!ConnectRefusal, Named
    <3>. QED
      BY <1>4, <1>d, <2>1, <2>2, <2>4, <3>1 DEF Gateway!Handle
  <2>. QED
    BY <2>3, <2>4
<1>5. ASSUME Gateway!HandleReverse(c)
      PROVE  GatewayInv'
  <2>1. old.step = "reverse" /\ old # Gateway!Unused /\ old.req.kind = "reverse" /\ old.got = <<>>
    BY <1>5, <1>k, <1>o DEF Gateway!HandleReverse, InPlace
  <2>2. UNCHANGED <<bound, spans>> /\ seq' \in Nat
    BY <1>5, <1>q DEF Gateway!HandleReverse
  <2>3. CASE old.req.path = "preflight"
    BY <1>5, <1>a, <2>1, <2>2, <2>3 DEF Gateway!HandleReverse
  <2>4. CASE old.req.path = "bare"
    <3>1. Gateway!Answer(c, 403) /\ Gateway!Log(c, NoTrial, "deny")
      BY <1>5, <2>4 DEF Gateway!HandleReverse
    <3>2. LogsOnly
      BY <1>l, <2>1, <2>2, <3>1 DEF Gateway!Names
    <3>. QED
      BY <1>a, <2>1, <3>1, <3>2
  <2>5. CASE old.req.path = "trial"
    <3>1. Gateway!Step(c, "dial") /\ LogsOnly /\ gateway_log' = gateway_log
      BY <1>5, <2>2, <2>5 DEF Gateway!HandleReverse
    <3>2. Named(old)
      BY <1>o, <2>1 DEF Named, Gateway!Requests
    <3>. QED
      BY <1>d, <2>1, <3>1, <3>2
  <2>6. old.req.path \in {"preflight", "bare", "trial"}
    BY <1>o, <2>1 DEF Gateway!Requests
  <2>. QED
    BY <2>3, <2>4, <2>5, <2>6
<1>6. ASSUME NEW upstream \in BOOLEAN, Gateway!Dial(c, upstream)
      PROVE  GatewayInv'
  <2>1. /\ old.step = "dial" /\ old # Gateway!Unused /\ old.req.kind # "span" /\ Named(old)
        /\ old.req.trial \in Gateway!Names /\ old.got = <<>> /\ Unlogged(c)
    BY <1>6, <1>k, <1>o DEF Gateway!Dial, InPlace, Metered
  <2>2. UNCHANGED <<bound, spans>> /\ seq' \in Nat
    BY <1>6, <1>q DEF Gateway!Dial
  <2>3. CASE upstream
    <3>1. Gateway!Log(c, old.req.trial, "allow") /\ Gateway!Step(c, "forward")
      BY <1>6, <2>3 DEF Gateway!Dial
    <3>2. PICK line \in Lines : /\ gateway_log' = Append(gateway_log, line) /\ line.conn = c
                               /\ line.decision = "allow" /\ line.trial = old.req.trial
                               /\ line.host = old.req.host
      BY <1>l, <2>1, <3>1
    <3>3. PICK x : /\ conn' = [conn EXCEPT ![c] = x] /\ x # Gateway!Unused /\ InUse(x) /\ x.step = "forward"
                   /\ x.status = old.status /\ x.req = old.req /\ x.got = old.got /\ x.read = old.read
      BY <1>s, <2>1, <3>1 DEF Steps
    <3>4. AllowLine(c, x)'
      <4>1. /\ Len(gateway_log') \in 1..Len(gateway_log') /\ gateway_log'[Len(gateway_log')] = line
            /\ \A j \in 1..Len(gateway_log') : j = Len(gateway_log') \/ (j \in 1..Len(gateway_log) /\ gateway_log'[j] = gateway_log[j])
        <5>1. gateway_log \in Seq(Lines)
          BY DEF GatewayInv
        <5>. QED
          BY ONLY <5>1, <3>2
      <4>. QED
        BY <2>1, <3>2, <3>3, <4>1 DEF AllowLine, Unlogged
    <3>5. InPlace(x) /\ Acknowledged(c, x) /\ Named(x) /\ x.got = <<>>
      BY <1>o, <2>1, <3>3 DEF InPlace, Acknowledged, Named
    <3>6. Metered(c, x)'
      BY <3>3, <3>4, <3>5 DEF Metered
    <3>. QED
      BY <1>u, <2>2, <3>2, <3>3, <3>5, <3>6
  <2>4. CASE ~upstream
    <3>1. Gateway!Log(c, old.req.trial, "deny") /\ Gateway!Answer(c, 502)
      BY <1>6, <2>4 DEF Gateway!Dial
    <3>2. LogsOnly
      BY <1>l, <2>1, <2>2, <3>1
    <3>. QED
      BY <1>a, <2>1, <3>1, <3>2
  <2>. QED
    BY <2>3, <2>4
<1>7. ASSUME Gateway!ForwardEarly(c)
      PROVE  GatewayInv'
  <2>1. old.step = "forward" /\ old # Gateway!Unused
    BY <1>7, <1>k DEF Gateway!ForwardEarly
  <2>2. PICK x : x = [old EXCEPT !.step = "splice", !.got = <<"early">>, !.read = 1, !.status = 200]
    OBVIOUS
  <2>3. /\ InUse(x) /\ x.step = "splice" /\ x.status = 200 /\ x.got = <<"early">> /\ x.read = 1
        /\ x.req = old.req /\ x # Gateway!Unused
    <3>1. /\ x.step = "splice" /\ x.status = 200 /\ x.got = <<"early">> /\ x.read = 1
          /\ x.req = old.req
      BY <1>o, <2>1, <2>2 DEF InUse, Connections
    <3>2. x \in [step : Steps, req : Gateway!Requests, status : Nat, got : Got, read : Nat]
      <4>1. <<"early">> \in Got /\ "splice" \in Steps
        BY DEF Got, Steps
      <4>2. old \in Connections
        BY <1>o, <2>1 DEF InUse
      <4>. HIDE DEF old
      <4>. QED
        BY <2>2, <4>1, <4>2 DEF Connections
    <3>. QED
      BY <3>1, <3>2 DEF InUse, Connections, Gateway!Unused
  <2>4. InPlace(x) /\ Metered(c, x) /\ Acknowledged(c, x)
    BY <1>o, <2>1, <2>3 DEF InPlace, Metered, Forwarded, AllowLine, Named, Acknowledged
  <2>5. LogsOnly /\ gateway_log' = gateway_log /\ conn' = [conn EXCEPT ![c] = x]
    BY <1>7, <1>q, <2>2 DEF Gateway!ForwardEarly
  <2>. QED
    BY <1>m, <1>u, <2>3, <2>4, <2>5
<1>8. ASSUME Gateway!Splice(c)
      PROVE  GatewayInv'
  <2>1. /\ old.step = "splice" /\ old # Gateway!Unused
        /\ old.read = 1 /\ old.got = <<"early">>
    BY <1>8, <1>k, <1>o DEF Gateway!Splice, Metered, Gateway!Sent
  <2>2. PICK x : x = [old EXCEPT !.got = Append(@, Gateway!Sent[old.read + 1]), !.read = @ + 1]
    OBVIOUS
  <2>3. /\ InUse(x) /\ x.step = "splice" /\ x.status = old.status /\ x.read = 2
        /\ x.got = <<"early", "late">> /\ x.req = old.req /\ x # Gateway!Unused
    <3>1. old.read + 1 = 2 /\ Append(old.got, Gateway!Sent[old.read + 1]) = <<"early", "late">>
      <4>1. Gateway!Sent[2] = "late" /\ old.read + 1 = 2 /\ old.got = <<"early">>
        BY <2>1 DEF Gateway!Sent
      <4>. QED
        BY <4>1, AppendTwo
    <3>2. x = [old EXCEPT !.got = <<"early", "late">>, !.read = 2]
      BY <2>2, <3>1
    <3>. QED
      BY <1>o, <2>1, <3>2 DEF InUse, Connections, Got, Steps, Gateway!Unused
  <2>4. InPlace(x) /\ Metered(c, x) /\ Acknowledged(c, x)
    BY <1>o, <2>1, <2>3 DEF InPlace, Metered, Forwarded, AllowLine, Named, Acknowledged
  <2>5. LogsOnly /\ gateway_log' = gateway_log /\ conn' = [conn EXCEPT ![c] = x]
    BY <1>8, <1>q, <2>2 DEF Gateway!Splice
  <2>. QED
    BY <1>m, <1>u, <2>3, <2>4, <2>5
<1>9. ASSUME Gateway!Close(c)
      PROVE  GatewayInv'
  <2>1. old # Gateway!Unused /\ old.step # "closed" /\ Gateway!Step(c, "closed") /\ LogsOnly /\ gateway_log' = gateway_log
    BY <1>9, <1>k, <1>q DEF Gateway!Close
  <2>2. PICK x : /\ conn' = [conn EXCEPT ![c] = x] /\ x # Gateway!Unused /\ InUse(x) /\ x.step = "closed"
                 /\ x.status = old.status /\ x.req = old.req /\ x.got = old.got /\ x.read = old.read
    BY <1>s, <2>1 DEF Steps
  <2>3. InPlace(x) /\ Metered(c, x) /\ Acknowledged(c, x)
    BY <1>9, <1>o, <2>1, <2>2 DEF Gateway!Close, InPlace, Metered, AllowLine, Named,
       Acknowledged
  <2>. QED
    BY <1>m, <1>u, <2>1, <2>2, <2>3
<1>10. ASSUME Gateway!HandleSpan(c)
       PROVE  GatewayInv'
  <2>1. old.step = "span" /\ old # Gateway!Unused /\ old.req.kind = "span" /\ old.got = <<>>
    BY <1>10, <1>k, <1>o DEF Gateway!HandleSpan, InPlace
  <2>2. LogsOnly /\ gateway_log' = gateway_log /\ old.req.body \in {"wrong_path", "wrong_type", "bad_gzip", "bad_json", "json", "protobuf"}
    BY <1>10, <1>o, <1>q, <2>1 DEF Gateway!HandleSpan, Gateway!Requests
  <2>3. CASE old.req.body \in {"wrong_path", "wrong_type", "bad_gzip", "bad_json"}
    <3>1. \E status \in {404, 415, 0, 400} : Gateway!Answer(c, status)
      BY <1>10, <2>3 DEF Gateway!HandleSpan
    <3>. QED
      BY <1>a, <2>1, <2>2, <3>1
  <2>4. CASE old.req.body \in {"json", "protobuf"}
    <3>1. PICK x : x = [old EXCEPT !.step = "append", !.read = seq]
      OBVIOUS
    <3>2. conn' = [conn EXCEPT ![c] = x]
      BY <1>10, <2>4, <3>1 DEF Gateway!HandleSpan
    <3>3. /\ InUse(x) /\ x.step = "append" /\ x.status = old.status /\ x.read = seq
          /\ x.got = old.got /\ x.req = old.req /\ x # Gateway!Unused
      BY <1>o, <1>q, <2>1, <3>1 DEF InUse, Connections, Steps, Gateway!Unused
    <3>4. InPlace(x) /\ Metered(c, x) /\ Acknowledged(c, x)
      BY <1>o, <1>q, <2>1, <2>4, <3>3 DEF InPlace, Metered, Acknowledged
    <3>. QED
      BY <1>m, <1>u, <2>2, <3>2, <3>3, <3>4
  <2>. QED
    BY <2>2, <2>3, <2>4
<1>11. ASSUME Gateway!AppendEnvelope(c)
       PROVE  GatewayInv'
  <2>1. old.step = "append" /\ old # Gateway!Unused /\ old.req.kind = "span"
        /\ UNCHANGED <<bound, gateway_log, seq>>
    BY <1>11, <1>k, <1>o DEF Gateway!AppendEnvelope, InPlace
  <2>2. PICK e \in Envelopes : spans' = Append(spans, e) /\ e.conn = c /\ e.trial = old.req.trial
    <3>1. /\ old.req.trial \in Gateway!Names /\ old.read \in Nat
          /\ old.req.body \in {"json", "protobuf"}
      BY <1>o, <2>1 DEF InPlace, InUse, Connections
    <3>. QED
      BY <1>11, <3>1 DEF Gateway!AppendEnvelope, Envelopes
  <2>3. PICK x : /\ conn' = [conn EXCEPT ![c] = x] /\ x # Gateway!Unused /\ InUse(x) /\ x.step = "reply"
                 /\ x.status = old.status /\ x.req = old.req /\ x.got = old.got /\ x.read = old.read
    BY <1>11, <1>s, <2>1 DEF Gateway!AppendEnvelope, Steps
  <2>4. /\ spans' \in Seq(Envelopes) /\ Len(spans') = Len(spans) + 1 /\ Len(spans) \in Nat
        /\ spans'[Len(spans')] = e /\ \A i \in 1..Len(spans) : spans'[i] = spans[i]
    BY <2>2 DEF GatewayInv
  <2>5. \A i \in 1..Len(spans) : spans[i].conn # c /\ spans[i].conn \in Conns
    <3>1. \A i \in 1..Len(spans) : spans[i] \in Envelopes
      BY DEF GatewayInv
    <3>. QED
      BY <1>o, <2>1, <3>1 DEF Acknowledged, Envelopes
  <2>6. conn' = [d \in Conns |-> conn'[d]] /\ conn'[c] = x /\ \A d \in Conns \ {c} : conn'[d] = conn[d]
    BY <2>3 DEF GatewayInv
  <2>7. InPlace(x) /\ Metered(c, x)' /\ Acknowledged(c, x)'
    <3>1. InPlace(x) /\ Metered(c, x)
      BY <1>o, <2>1, <2>3 DEF InPlace, Metered
    <3>2. Metered(c, x)'
      BY <2>1, <3>1 DEF Metered, AllowLine, Unlogged
    <3>3. x.status = 0
      BY <1>o, <2>1, <2>3 DEF InPlace
    <3>4. \A i \in 1..Len(spans') : i = Len(spans') \/ i \in 1..Len(spans)
      BY <2>4
    <3>5. Acknowledged(c, x)'
      BY <2>2, <2>3, <2>4, <2>5, <3>3, <3>4 DEF Acknowledged
    <3>. QED
      BY <3>1, <3>2, <3>5
  <2>8. ASSUME NEW d \in Conns \ {c}, conn[d] # Gateway!Unused
        PROVE  InPlace(conn[d]) /\ Metered(d, conn[d])' /\ Acknowledged(d, conn[d])'
    <3>. PICK y : y = conn[d]
      OBVIOUS
    <3>1. InPlace(y) /\ Metered(d, y) /\ Acknowledged(d, y)
      BY <2>8 DEF GatewayInv
    <3>2. Metered(d, y)'
      BY <2>1, <3>1 DEF Metered, AllowLine, Unlogged
    <3>3. \A i \in 1..Len(spans') : i = Len(spans') \/ i \in 1..Len(spans)
      BY <2>4
    <3>4. Acknowledged(d, y)'
      BY <2>2, <2>4, <2>5, <3>1, <3>3 DEF Acknowledged
    <3>. QED
      BY <2>6, <3>1, <3>2, <3>4
  <2>9. (\A i \in 1..Len(spans) : conn[spans[i].conn] # Gateway!Unused)'
    BY <2>2, <2>3, <2>4, <2>5, <2>6 DEF GatewayInv
  <2>10. (\A i, j \in 1..Len(spans) : spans[i].conn = spans[j].conn => i = j)'
    BY <2>2, <2>4, <2>5 DEF GatewayInv
  <2>11. ASSUME NEW d \in Conns, (conn[d] # Gateway!Unused)'
         PROVE  (InPlace(conn[d]) /\ Metered(d, conn[d]) /\ Acknowledged(d, conn[d]))'
    <3>1. CASE d = c
      <4>1. conn'[d] = x
        BY <2>6, <3>1
      <4>. QED
        BY <2>7, <3>1, <4>1 DEF InPlace, InUse, Metered, Acknowledged
    <3>2. CASE d # c
      BY <2>6, <2>8, <2>11, <3>2 DEF InPlace, InUse, Gateway!Unused
    <3>. QED
      BY <3>1, <3>2
  <2>12. ASSUME NEW d \in Conns, conn'[d] = Gateway!Unused
         PROVE  Unlogged(d)'
    BY <2>1, <2>3, <2>6, <2>12 DEF GatewayInv, Unlogged
  <2>. QED
    BY <2>1, <2>4, <2>6, <2>9, <2>10, <2>11, <2>12 DEF GatewayInv
<1>12. ASSUME Gateway!Reply(c)
       PROVE  GatewayInv'
  <2>1. old.step = "reply" /\ old # Gateway!Unused
    BY <1>12, <1>k DEF Gateway!Reply
  <2>2. PICK status : status = IF conn[c].req.trial = NoTrial THEN 400 ELSE 200
    OBVIOUS
  <2>3. PICK x : x = [old EXCEPT !.step = "closed", !.status = status]
    OBVIOUS
  <2>a. status \in Nat /\ status = IF old.req.trial = NoTrial THEN 400 ELSE 200
    BY <1>k, <2>2
  <2>4. /\ InUse(x) /\ x.step = "closed" /\ x.status = status /\ x.req = old.req /\ x.got = old.got
        /\ x # Gateway!Unused
    <3>1. old \in Connections /\ status \in Nat /\ "closed" \in Steps
      BY <1>o, <2>1, <2>a DEF InUse, Steps
    <3>. HIDE DEF old
    <3>2. /\ x \in Connections /\ x.step = "closed" /\ x.status = status
          /\ x.req = old.req /\ x.got = old.got
      BY <2>3, <3>1 DEF Connections
    <3>. QED
      BY <3>2 DEF InUse, Gateway!Unused
  <2>b. Gateway!Answer(c, status) /\ UNCHANGED <<bound, gateway_log, spans, seq>>
    BY <1>12, <2>2 DEF Gateway!Reply
  <2>5. conn' = [conn EXCEPT ![c] = x] /\ LogsOnly /\ gateway_log' = gateway_log
    BY <1>k, <1>q, <2>3, <2>b DEF Gateway!Answer
  <2>6. InPlace(x) /\ Metered(c, x)
    BY <1>o, <2>1, <2>4 DEF InPlace, Metered
  <2>7. /\ (\A i \in 1..Len(spans) : spans[i].conn = c => spans[i].trial = old.req.trial)
        /\ \E i \in 1..Len(spans) : spans[i].conn = c
    BY <1>o, <2>1 DEF Acknowledged
  <2>8. x.req.trial = old.req.trial /\ x.status = IF x.req.trial = NoTrial THEN 400 ELSE 200
    BY <2>a, <2>4
  <2>9. Acknowledged(c, x)
    BY <2>4, <2>7, <2>8 DEF Acknowledged
  <2>. QED
    BY <1>m, <1>u, <2>4, <2>5, <2>6, <2>9
<1>. QED
  BY <1>3, <1>4, <1>5, <1>6, <1>7, <1>8, <1>9, <1>10, <1>11, <1>12

LEMMA GatewayHolds ==
  GatewayInv => Gateway!MeteredEgress /\ Gateway!SpansAttributed
<1>. SUFFICES ASSUME GatewayInv
              PROVE  Gateway!MeteredEgress /\ Gateway!SpansAttributed
  OBVIOUS
<1>1. ASSUME NEW c \in Conns, conn[c] # Gateway!Unused, conn[c].got # <<>>
      PROVE  /\ conn[c].got \in {SubSeq(Gateway!Sent, 1, n) : n \in 1..Len(Gateway!Sent)}
             /\ conn[c].req.host \in ALLOW
             /\ conn[c].req.kind = "connect" => conn[c].req.trial # NoTrial
             /\ \E i \in DOMAIN gateway_log :
                  /\ {j \in DOMAIN gateway_log : gateway_log[j].conn = c} = {i}
                  /\ gateway_log[i].decision = "allow"
                  /\ gateway_log[i].trial = conn[c].req.trial /\ gateway_log[i].host = conn[c].req.host
  <2>1. Forwarded(conn[c].got) /\ Named(conn[c]) /\ AllowLine(c, conn[c]) /\ DOMAIN gateway_log = 1..Len(gateway_log)
    BY <1>1 DEF GatewayInv, Metered
  <2>2. {<<"early">>, <<"early", "late">>} \subseteq {SubSeq(Gateway!Sent, 1, n) : n \in 1..Len(Gateway!Sent)}
    <3>1. 1 \in 1..2 /\ 2 \in 1..2 /\ Len(Gateway!Sent) = 2
      BY DEF Gateway!Sent
    <3>2. <<"early">> = SubSeq(Gateway!Sent, 1, 1) /\ <<"early", "late">> = SubSeq(Gateway!Sent, 1, 2)
      BY PairPrefixes DEF Gateway!Sent
    <3>. QED
      BY <3>1, <3>2
  <2>3. \E i \in 1..Len(gateway_log) :
          /\ {j \in 1..Len(gateway_log) : gateway_log[j].conn = c} = {i}
          /\ gateway_log[i].decision = "allow"
          /\ gateway_log[i].trial = conn[c].req.trial /\ gateway_log[i].host = conn[c].req.host
    BY <2>1 DEF AllowLine
  <2>. QED
    BY <2>1, <2>2, <2>3 DEF Forwarded, Named
<1>2. ASSUME NEW t \in gateway_Trials, NEW c \in Conns
      PROVE  LET mine == {i \in Gateway!DecodeEnvelopeLines(t, TRUE) : spans[i].conn = c}
             IN  /\ \A i, j \in mine : i = j
                 /\ mine # {} => conn[c].req.trial = t /\ conn[c].status \in {0, 200}
                 /\ conn[c] # Gateway!Unused /\ conn[c].req.kind = "span" =>
                      (conn[c].status = 200 /\ conn[c].req.trial = t => mine # {})
  <2>1. Gateway!DecodeEnvelopeLines(t, TRUE) = {i \in 1..Len(spans) : spans[i].trial = t}
    BY DEF Gateway!DecodeEnvelopeLines, GatewayInv
  <2>2. t # NoTrial
    BY OperationsAssumption DEF Gateway!GatewayAssumption
  <2>3. ASSUME NEW i \in 1..Len(spans), spans[i].conn = c
        PROVE  /\ conn[c] # Gateway!Unused /\ spans[i].trial = conn[c].req.trial
               /\ conn[c].status \in {0, IF conn[c].req.trial = NoTrial THEN 400 ELSE 200}
    BY <2>3 DEF GatewayInv, Acknowledged
  <2>4. ASSUME conn[c] # Gateway!Unused, conn[c].req.kind = "span", conn[c].status = 200, conn[c].req.trial = t
        PROVE  \E i \in 1..Len(spans) : spans[i].conn = c /\ spans[i].trial = t
    <3>1. Acknowledged(c, conn[c])
      BY <2>4 DEF GatewayInv
    <3>2. PICK i \in 1..Len(spans) : spans[i].conn = c
      BY <2>4, <3>1 DEF Acknowledged
    <3>. QED
      BY <2>3, <2>4, <3>2
  <2>5. \A i, j \in 1..Len(spans) : spans[i].conn = spans[j].conn => i = j
    BY DEF GatewayInv
  <2>. DEFINE mine == {i \in Gateway!DecodeEnvelopeLines(t, TRUE) : spans[i].conn = c}
  <2>6. mine = {i \in 1..Len(spans) : spans[i].trial = t /\ spans[i].conn = c}
    BY <2>1
  <2>. HIDE DEF mine
  <2>7. \A i \in mine : conn[c].req.trial = t /\ conn[c].status \in {0, 200}
    BY <2>2, <2>3, <2>6
  <2>8. \A i, j \in mine : i = j
    BY <2>5, <2>6
  <2>9. conn[c] # Gateway!Unused /\ conn[c].req.kind = "span" =>
          (conn[c].status = 200 /\ conn[c].req.trial = t => mine # {})
    BY <2>4, <2>6
  <2>10. /\ \A i, j \in mine : i = j
         /\ mine # {} => conn[c].req.trial = t /\ conn[c].status \in {0, 200}
    BY <2>7, <2>8
  <2>. QED
    BY <2>9, <2>10 DEF mine
<1>3. Gateway!MeteredEgress
  BY <1>1 DEF Gateway!MeteredEgress, GatewayInv
<1>4. Gateway!SpansAttributed
  BY <1>2 DEF Gateway!SpansAttributed
<1>. QED
  BY <1>3, <1>4

LEMMA GatewayStays == Spec => [](moving = "gateway" => GatewayInv)
<1>. DEFINE Inv == moving = "gateway" => GatewayInv
<1>1. Init => Inv
  BY GatewayBegins DEF Init
<1>2. Inv /\ [Next]_vars => Inv'
  <2>. SUFFICES ASSUME Inv, [Next]_vars, moving' = "gateway"
                PROVE  GatewayInv'
    OBVIOUS
  <2>1. moving = "gateway" /\ GatewayInv
    BY DEF Next, vars
  <2>2. Gateway!Next \/ UNCHANGED Gateway!vars
    BY <2>1 DEF Next, vars, gatewayVars, Gateway!vars
  <2>. QED
    BY <2>1, <2>2, GatewayKeeps
<1>. QED
  BY <1>1, <1>2, PTL DEF Spec

(* For any number of connections, trials, hosts and names that a client    *)
(* may give: no byte reaches an upstream but in order and behind the one   *)
(* allow line of its connection, and a trial's spans are the batches       *)
(* acknowledged under its id, once each (the proxy and the collector of    *)
(* src/harness/hermetic).                                                  *)
THEOREM EgressIsMetered == Spec => []GatewaySound
<1>1. (moving = "gateway" => GatewayInv) => GatewaySound
  BY GatewayHolds DEF GatewaySound
<1>. QED
  BY <1>1, GatewayStays, PTL

-----------------------------------------------------------------------------
(* Drafts and the lock over HTTP.                                          *)

(* What a file may hold at any moment, and what a save still has to write. *)
Texts(f) ==
  {Absent, "torn"} \cup
    (CASE f = "spec" -> Author!Specs [] f = "tasks" -> Author!Tasks [] OTHER -> {"R"})
Items ==
  [file : {"spec"}, text : Author!Specs] \cup [file : {"tasks"}, text : Author!Tasks]
  \cup [file : {"rubric"}, text : {"R"}] \cup [file : {"not_authorable"}, text : {"B"}]

(* What the lock records when its steps have passed.                       *)
Locked ==
  [spec : {"underpowered", "powered"}, tasks : {Absent, "A", "B"}, rubric : Texts("rubric")]

DraftTypes ==
  /\ author_files \in [Author!Files -> {Absent, "torn", "R"} \cup Author!Specs \cup Author!Tasks]
  /\ \A f \in Author!Files : author_files[f] \in Texts(f)
  /\ author_locks \in Seq(Locked)
  /\ author_writes \in Nat

(* What a request carries from one of its reads to the next.               *)
CarriedSave(r) ==
  r.op = "save" =>
    /\ r.body \in Seq(Items) /\ r.body # <<>>
    /\ r.at = "write" => Head(r.body).file \in Author!Files
CarriedLock(r) ==
  r.op = "lock" =>
    /\ r.tasks \in {Absent, "A", "B"}
    /\ r.at \in {"rubric", "record"} => r.spec \in {"underpowered", "powered"}
    /\ r.at = "record" => r.rubric \in Texts("rubric")

(* What a preview must find to be green, and so a lock not to be refused.  *)
GreenSpec == Author!ParsesAndHashes(author_files["spec"]) /\ Author!ArmPlatformsKnown(author_files["spec"])
GreenTasks == Author!LoadTaskDicts(author_files["tasks"]) # "TaskCommitmentError"
Green == GreenSpec /\ Author!RubricCommits(author_files["rubric"]) /\ GreenTasks

(* While the count of writes stands still, so do the files: a preview      *)
(* under way is right about what it read, and a refusal is of files that   *)
(* no preview of the same count found green.                               *)
Watched(r) ==
  /\ r.op = "validate" =>
       /\ r.since \in 0..author_writes
       /\ r.since = author_writes /\ r.green => GreenSpec /\ Author!RubricCommits(author_files["rubric"])
  /\ r.op = "refused" =>
       /\ r.until \in 0..author_writes
       /\ r.since = r.until => r.since \notin previewed
       /\ r.since = r.until /\ r.until = author_writes => ~Green

Previews == previewed \subseteq 0..author_writes /\ (author_writes \in previewed => Green)

AuthorInv ==
  /\ DraftTypes
  /\ author_request = [q \in author_Requests |-> author_request[q]]
  /\ \A q \in author_Requests : CarriedSave(author_request[q]) /\ CarriedLock(author_request[q]) /\ Watched(author_request[q])
  /\ Previews

LEMMA AuthorBegins ==
  Author!Init => AuthorInv
BY DEF Author!Init, AuthorInv, DraftTypes, Texts, Author!Files, Author!Idle, CarriedSave,
   CarriedLock, Watched, Previews

(* A step of q that leaves the files, the locks and the previews alone     *)
(* keeps the invariant when what it leaves in request[q] fits.             *)
LEMMA RequestMoves ==
  ASSUME AuthorInv, NEW q \in author_Requests, NEW r, Author!Goto(q, r),
         UNCHANGED <<author_files, author_locks, author_writes, previewed>>,
         CarriedSave(r), CarriedLock(r), Watched(r)
  PROVE  AuthorInv'
<1>1. DraftTypes' /\ Previews'
  BY DEF AuthorInv, DraftTypes, Previews, Green, GreenSpec, GreenTasks
<1>2. author_request' = [p \in author_Requests |-> author_request'[p]] /\ author_request'[q] = r
      /\ \A p \in author_Requests \ {q} : author_request'[p] = author_request[p]
  BY DEF AuthorInv, Author!Goto
<1>3. \A s : Watched(s) => Watched(s)'
  BY DEF Watched, GreenSpec, GreenTasks, Green
<1>. QED
  BY <1>1, <1>2, <1>3 DEF AuthorInv

(* The same for a step that changes one of the files, and so the count.    *)
LEMMA FileWritten ==
  ASSUME AuthorInv, NEW q \in author_Requests, NEW r, Author!Goto(q, r), NEW f \in Author!Files, NEW t \in Texts(f),
         author_files' = [author_files EXCEPT ![f] = t], author_writes' = author_writes + 1, UNCHANGED <<author_locks, previewed>>,
         CarriedSave(r), r.op \in {"save", "answered"}
  PROVE  AuthorInv'
<1>1. DraftTypes' /\ Previews'
  BY DEF AuthorInv, DraftTypes, Previews, Texts
<1>2. author_request' = [p \in author_Requests |-> author_request'[p]] /\ author_request'[q] = r
      /\ \A p \in author_Requests \ {q} : author_request'[p] = author_request[p]
  BY DEF AuthorInv, Author!Goto
<1>3. ASSUME NEW p \in author_Requests \ {q}, Watched(author_request[p])
      PROVE  Watched(author_request[p])'
  <2>1. author_request'[p].op = "validate" => author_request'[p].since # author_writes'
    BY <1>2, <1>3 DEF Watched, AuthorInv, DraftTypes
  <2>. QED
    BY <2>1, <1>2, <1>3 DEF Watched, AuthorInv, DraftTypes
<1>4. CarriedLock(r) /\ Watched(r)'
  BY DEF CarriedLock, Watched
<1>. QED
  BY <1>1, <1>2, <1>3, <1>4 DEF AuthorInv, CarriedSave, CarriedLock

LEMMA AuthorKeeps ==
  AuthorInv /\ [Author!Next]_(Author!vars) => AuthorInv'
<1>. SUFFICES ASSUME AuthorInv, [Author!Next]_(Author!vars)
              PROVE  AuthorInv'
  OBVIOUS
<1>1. CASE UNCHANGED Author!vars
  BY <1>1 DEF Author!vars, AuthorInv, DraftTypes, CarriedSave, CarriedLock, Watched,
     Previews, Green, GreenSpec, GreenTasks
<1>. SUFFICES ASSUME NEW q \in author_Requests,
                     \/ \E body \in Author!Saves : Author!WriteDraft(q, body)
                     \/ \E ack \in BOOLEAN : Author!Lock(q, ack)
                     \/ Author!Open(q) \/ Author!Write(q) \/ Author!Validate(q) \/ Author!ValidateTasks(q)
                     \/ Author!LockSpec(q) \/ Author!LockRubric(q) \/ Author!LockRecord(q)
              PROVE  AuthorInv'
  BY <1>1 DEF Author!Next
<1>c. CarriedSave(author_request[q]) /\ CarriedLock(author_request[q]) /\ Watched(author_request[q])
      /\ DraftTypes /\ Previews
  BY DEF AuthorInv
<1>. DEFINE Safe(r) == CarriedSave(r) /\ CarriedLock(r) /\ Watched(r)
            Still == UNCHANGED <<author_files, author_locks, author_writes, previewed>>
<1>r. ASSUME NEW r, Author!Goto(q, r), Safe(r), Still
      PROVE  AuthorInv'
  BY <1>r, RequestMoves
<1>a. ASSUME NEW how, Author!Answer(q, how), Still
      PROVE  AuthorInv'
  BY <1>a, <1>r DEF Author!Answer, CarriedSave, CarriedLock, Watched
<1>f. ASSUME NEW since, Author!Refuse(q, since), Still, since = author_writes => ~Green
      PROVE  AuthorInv'
  <2>1. author_writes \in 0..author_writes /\ (since = author_writes => since \notin previewed)
    BY <1>f, <1>c DEF DraftTypes, Previews
  <2>. QED
    BY <2>1, <1>f, <1>r DEF Author!Refuse, CarriedSave, CarriedLock, Watched
<1>2. ASSUME NEW body \in Author!Saves, Author!WriteDraft(q, body)
      PROVE  AuthorInv'
  <2>1. body \in Seq(Items) /\ body # <<>>
    <3>2. ASSUME NEW x \in Items PROVE <<x>> \in Seq(Items)
      OBVIOUS
    <3>3. ASSUME NEW x \in Items, NEW y \in Items PROVE <<x, y>> \in Seq(Items)
      OBVIOUS
    <3>4. /\ \A t \in Author!Specs : [file |-> "spec", text |-> t] \in Items
          /\ \A t \in Author!Tasks : [file |-> "tasks", text |-> t] \in Items
          /\ [file |-> "rubric", text |-> "R"] \in Items
          /\ [file |-> "not_authorable", text |-> "B"] \in Items
      BY DEF Items
    <3>5. "powered" \in Author!Specs /\ "A" \in Author!Tasks
      BY DEF Author!Specs, Author!Tasks
    <3>6. (\E x \in Items : body = <<x>>) \/ (\E x, y \in Items : body = <<x, y>>)
      <4>1. CASE \E t \in Author!Specs : body = <<[file |-> "spec", text |-> t]>>
        BY <4>1, <3>4
      <4>2. CASE \E t \in Author!Tasks : body = <<[file |-> "tasks", text |-> t]>>
        BY <4>2, <3>4
      <4>3. CASE body = <<[file |-> "rubric", text |-> "R"], [file |-> "spec", text |-> "powered"]>>
        BY <4>3, <3>4, <3>5
      <4>4. CASE body = <<[file |-> "tasks", text |-> "A"], [file |-> "not_authorable", text |-> "B"]>>
        BY <4>4, <3>4, <3>5
      <4>. QED
        BY <4>1, <4>2, <4>3, <4>4 DEF Author!Saves
    <3>7. \A x, y : <<x>> # <<>> /\ <<x, y>> # <<>>
      OBVIOUS
    <3>. QED
      BY <3>2, <3>3, <3>6, <3>7
  <2>2. CASE Author!IsLocked
    BY <1>2, <2>2, <1>a DEF Author!WriteDraft
  <2>3. CASE ~Author!IsLocked
    BY <1>2, <2>1, <2>3, <1>r DEF Author!WriteDraft, CarriedSave, CarriedLock, Watched
  <2>. QED
    BY <2>2, <2>3
<1>3. ASSUME Author!Open(q)
      PROVE  AuthorInv'
  <2>. DEFINE item == Head(author_request[q].body)
  <2>1. CASE item.file \notin Author!Files
    BY <1>3, <2>1, <1>a DEF Author!Open
  <2>2. CASE item.file \in Author!Files
    <3>1. PICK r : r = [author_request[q] EXCEPT !.at = "write"]
      OBVIOUS
    <3>2. r.op = "save" /\ r.at = "write" /\ r.body = author_request[q].body
      BY <1>3, <3>1 DEF Author!Open, Author!At
    <3>3. CarriedSave(r)
      BY <1>3, <1>c, <2>2, <3>2 DEF Author!Open, Author!At, CarriedSave
    <3>. QED
      BY <1>3, <2>2, <3>1, <3>2, <3>3, FileWritten DEF Author!Open, Texts
  <2>. QED
    BY <2>1, <2>2
<1>4. ASSUME Author!Write(q)
      PROVE  AuthorInv'
  <2>. DEFINE item == Head(author_request[q].body)
              rest == Tail(author_request[q].body)
  <2>1. item \in Items /\ item.file \in Author!Files /\ rest \in Seq(Items)
    <3>1. author_request[q].body \in Seq(Items) /\ author_request[q].body # <<>> /\ item.file \in Author!Files
      BY <1>4, <1>c DEF Author!Write, Author!At, CarriedSave
    <3>. QED
      BY ONLY <3>1
  <2>2. item.text \in Texts(item.file)
    BY <2>1 DEF Items, Texts, Author!Files
  <2>3. CASE rest = <<>>
    <3>1. PICK r : r = [op |-> "answered", how |-> 200]
      OBVIOUS
    <3>2. Author!Goto(q, r) /\ r.op = "answered" /\ CarriedSave(r)
      BY <1>4, <2>3, <3>1 DEF Author!Write, Author!Answer, CarriedSave
    <3>. QED
      BY <1>4, <2>1, <2>2, <3>2, FileWritten DEF Author!Write
  <2>4. CASE rest # <<>>
    <3>1. PICK r : r = [author_request[q] EXCEPT !.at = "open", !.body = rest]
      OBVIOUS
    <3>2. r.op = "save" /\ r.at = "open" /\ r.body = rest
      BY <1>4, <3>1 DEF Author!Write, Author!At
    <3>. QED
      BY <1>4, <2>1, <2>2, <2>4, <3>1, <3>2, FileWritten DEF Author!Write, CarriedSave
  <2>. QED
    BY <2>3, <2>4
<1>5. ASSUME Author!Validate(q)
      PROVE  AuthorInv'
  <2>1. PICK r : /\ Author!Goto(q, r) /\ r.op = "validate" /\ r.since = author_writes
                 /\ r.green => GreenSpec /\ Author!RubricCommits(author_files["rubric"])
    BY <1>5 DEF Author!Validate, GreenSpec
  <2>. QED
    BY <1>5, <1>c, <2>1, <1>r DEF Author!Validate, CarriedSave, CarriedLock, Watched,
       DraftTypes
<1>6. ASSUME Author!ValidateTasks(q)
      PROVE  AuthorInv'
  <2>1. previewed' \subseteq previewed \cup {author_writes} /\ (author_writes \in previewed' => Green)
    BY <1>6, <1>c DEF Author!ValidateTasks, Author!At, Watched, Previews, Green, GreenTasks
  <2>2. PICK r : Author!Goto(q, r) /\ r.op = "answered"
    BY <1>6 DEF Author!ValidateTasks, Author!Answer
  <2>3. author_request' = [p \in author_Requests |-> author_request'[p]] /\ author_request'[q] = r
        /\ \A p \in author_Requests \ {q} : author_request'[p] = author_request[p]
    BY <2>2 DEF AuthorInv, Author!Goto
  <2>4. UNCHANGED <<author_files, author_locks, author_writes>>
    BY <1>6 DEF Author!ValidateTasks
  <2>5. \A p \in author_Requests \ {q} : Watched(author_request[p])'
    BY <2>1, <2>3, <2>4 DEF AuthorInv, Watched, GreenSpec, GreenTasks, Green, DraftTypes
  <2>6. DraftTypes' /\ Previews'
    BY <2>1, <2>4, <1>c DEF DraftTypes, Previews, GreenSpec, GreenTasks, Green
  <2>. QED
    BY <2>2, <2>3, <2>5, <2>6 DEF AuthorInv, CarriedSave, CarriedLock, Watched
<1>7. ASSUME NEW ack \in BOOLEAN, Author!Lock(q, ack)
      PROVE  AuthorInv'
  <2>1. CASE ~GreenTasks
    BY <1>7, <2>1, <1>f DEF Author!Lock, GreenTasks, Green
  <2>2. CASE GreenTasks
    <3>1. Author!CommitTasks(author_files["tasks"]) \in {Absent, "A", "B"}
      BY <1>c, <2>2 DEF Author!CommitTasks, GreenTasks, Author!LoadTaskDicts, DraftTypes,
         Texts, Author!Files, Author!Tasks
    <3>2. PICK r : Author!Goto(q, r) /\ r.op = "lock" /\ r.at = "spec" /\ r.tasks \in {Absent, "A", "B"}
      BY <1>7, <2>2, <3>1 DEF Author!Lock, GreenTasks
    <3>. QED
      BY <1>7, <3>2, <1>r DEF Author!Lock, CarriedSave, CarriedLock, Watched
  <2>. QED
    BY <2>1, <2>2
<1>8. ASSUME Author!LockSpec(q)
      PROVE  AuthorInv'
  <2>1. Still /\ author_request[q].tasks \in {Absent, "A", "B"}
    BY <1>8, <1>c DEF Author!LockSpec, Author!At, CarriedLock
  <2>2. CASE ~GreenSpec
    BY <1>8, <2>1, <2>2, <1>f DEF Author!LockSpec, GreenSpec, Green
  <2>3. CASE GreenSpec /\ (Author!IsLocked \/ ~Author!PowerGate(author_files["spec"], author_request[q].ack))
    BY <1>8, <2>1, <2>3, <1>a DEF Author!LockSpec, GreenSpec
  <2>4. CASE GreenSpec /\ ~(Author!IsLocked \/ ~Author!PowerGate(author_files["spec"], author_request[q].ack))
    <3>1. author_files["spec"] \in {"underpowered", "powered"}
      BY <1>c, <2>4 DEF GreenSpec, Author!ParsesAndHashes, Author!ArmPlatformsKnown,
         DraftTypes, Texts, Author!Files, Author!Specs
    <3>2. PICK r : /\ Author!Goto(q, r) /\ r.op = "lock" /\ r.at = "rubric"
                   /\ r.tasks = author_request[q].tasks /\ r.spec = author_files["spec"]
      BY <1>8, <2>4 DEF Author!LockSpec, GreenSpec
    <3>. QED
      BY <2>1, <3>1, <3>2, <1>r DEF CarriedSave, CarriedLock, Watched
  <2>. QED
    BY <2>2, <2>3, <2>4
<1>9. ASSUME Author!LockRubric(q)
      PROVE  AuthorInv'
  <2>1. /\ Still /\ author_request[q].tasks \in {Absent, "A", "B"}
        /\ author_request[q].spec \in {"underpowered", "powered"}
    BY <1>9, <1>c DEF Author!LockRubric, Author!At, CarriedLock
  <2>2. CASE ~Author!RubricCommits(author_files["rubric"])
    BY <1>9, <2>1, <2>2, <1>f DEF Author!LockRubric, Green
  <2>3. CASE Author!RubricCommits(author_files["rubric"])
    <3>1. author_files["rubric"] \in Texts("rubric")
      BY <1>c DEF DraftTypes, Author!Files
    <3>2. PICK r : /\ Author!Goto(q, r) /\ r.op = "lock" /\ r.at = "record" /\ r.tasks = author_request[q].tasks
                   /\ r.spec = author_request[q].spec /\ r.rubric = author_files["rubric"]
      BY <1>9, <2>3 DEF Author!LockRubric
    <3>. QED
      BY <2>1, <3>1, <3>2, <1>r DEF CarriedSave, CarriedLock, Watched
  <2>. QED
    BY <2>2, <2>3
<1>10. ASSUME Author!LockRecord(q)
       PROVE  AuthorInv'
  <2>1. CASE Author!IsLocked
    BY <1>10, <2>1, <1>a DEF Author!LockRecord
  <2>2. CASE ~Author!IsLocked
    <3>1. PICK lock : /\ author_locks' = Append(author_locks, lock)
                      /\ lock \in Locked
      BY <1>10, <1>c, <2>2 DEF Author!LockRecord, Author!At, CarriedLock, Locked
    <3>2. PICK r : Author!Goto(q, r) /\ r.op = "answered"
      BY <1>10, <2>2 DEF Author!LockRecord, Author!Answer
    <3>3. author_request' = [p \in author_Requests |-> author_request'[p]] /\ author_request'[q] = r
          /\ \A p \in author_Requests \ {q} : author_request'[p] = author_request[p]
      BY <3>2 DEF AuthorInv, Author!Goto
    <3>4. UNCHANGED <<author_files, author_writes, previewed>>
      BY <1>10 DEF Author!LockRecord
    <3>5. \A p \in author_Requests \ {q} : Watched(author_request[p])'
      BY <3>3, <3>4 DEF AuthorInv, Watched, GreenSpec, GreenTasks, Green
    <3>6. DraftTypes' /\ Previews'
      BY <3>1, <3>4, <1>c DEF DraftTypes, Previews, GreenSpec, GreenTasks, Green
    <3>. QED
      BY <3>2, <3>3, <3>5, <3>6 DEF AuthorInv, CarriedSave, CarriedLock, Watched
  <2>. QED
    BY <2>1, <2>2
<1>. QED
  BY <1>2, <1>3, <1>4, <1>5, <1>6, <1>7, <1>8, <1>9, <1>10

LEMMA AuthorHolds ==
  AuthorInv => Author!RunnableIsLocked /\ Author!GreenPreviewLocks
<1>. SUFFICES ASSUME AuthorInv
              PROVE  Author!RunnableIsLocked /\ Author!GreenPreviewLocks
  OBVIOUS
<1>1. ASSUME Author!StageStarts
      PROVE  /\ author_locks[1].spec \in {"underpowered", "powered"} /\ author_files["spec"] = author_locks[1].spec
             /\ author_files["tasks"] \in {"A", "B"} /\ author_files["tasks"] = author_locks[1].tasks
  <2>1. author_locks[1] \in Locked
    <3>1. author_locks \in Seq(Locked) /\ Len(author_locks) = 1
      BY <1>1 DEF Author!StageStarts, Author!AssertLock, AuthorInv, DraftTypes
    <3>. QED
      BY ONLY <3>1
  <2>2. author_files["tasks"] \in {Absent, "torn"} \cup Author!Tasks
    BY DEF AuthorInv, DraftTypes, Author!Files, Texts
  <2>3. /\ author_locks[1].spec = author_files["spec"] /\ author_locks[1].tasks # Absent
        /\ Author!LoadTaskDicts(author_files["tasks"]) # "TaskCommitmentError"
        /\ author_locks[1].tasks = Author!LoadTaskDicts(author_files["tasks"])
    BY <1>1 DEF Author!StageStarts, Author!AssertLock, Author!AssertTaskCommitment,
       Author!CommitTasks
  <2>4. author_files["tasks"] \in {"A", "B"} /\ Author!LoadTaskDicts(author_files["tasks"]) = author_files["tasks"]
    BY <2>2, <2>3 DEF Author!LoadTaskDicts, Author!Tasks
  <2>. QED
    BY <2>1, <2>3, <2>4 DEF Locked
<1>. QED
  BY <1>1 DEF Author!RunnableIsLocked, Author!GreenPreviewLocks, AuthorInv, Watched

LEMMA AuthorStays == Spec => [](moving = "author" => AuthorInv)
<1>. DEFINE Inv == moving = "author" => AuthorInv
<1>1. Init => Inv
  BY AuthorBegins DEF Init
<1>2. Inv /\ [Next]_vars => Inv'
  <2>. SUFFICES ASSUME Inv, [Next]_vars, moving' = "author"
                PROVE  AuthorInv'
    OBVIOUS
  <2>1. moving = "author" /\ AuthorInv
    BY DEF Next, vars
  <2>2. Author!Next \/ UNCHANGED Author!vars
    BY <2>1 DEF Next, vars, authorVars, Author!vars
  <2>. QED
    BY <2>1, <2>2, AuthorKeeps
<1>. QED
  BY <1>1, <1>2, PTL DEF Spec

(* For any number of requests and changes of files: a stage starts only on *)
(* files that were read whole and locked, and the lock refuses no file     *)
(* that a preview of the same files found green (author/server.py).        *)
THEOREM RunnableDraftsAreLocked == Spec => []AuthorSound
<1>1. (moving = "author" => AuthorInv) => AuthorSound
  BY AuthorHolds DEF AuthorSound
<1>. QED
  BY <1>1, AuthorStays, PTL

-----------------------------------------------------------------------------
(* The agent image.                                                        *)

Homes == [armed : BOOLEAN, hook : {"no_hook", "enforce", "placebo"}, rounds : Nat,
          policy : {Absent, "pristine"}]
HookStates == [step : {"none", "rounds", "review", "log", "answer"}, current : Nat,
               decision : {"none", "block", "build_error"}]
Logged == [file : {Absent, "generic", "native"}, finished : BOOLEAN, native : BOOLEAN]
EntrypointPlaces == {"read", "apply", "cli", "stopped", "exited"}
Exits == {"running", "0", "1"}
ImageTypes ==
  /\ Own(enforceLog) /\ home \in Homes /\ hook \in HookStates /\ image_log \in Logged
  /\ image_at \in EntrypointPlaces /\ exit \in Exits
  /\ hook.step = "none" => hook = AgentImage!NoHook
  /\ hook.step # "none" => image_at = "cli"

(* Rounds: where the hook is, against what it has counted and logged.      *)
SentBack == Cardinality(AgentImage!Sent)
Rounds ==
  /\ home.rounds <= MaxRounds
  /\ \A i \in AgentImage!Sent : enforceLog[i].round = Cardinality(AgentImage!SentBefore(i))
  /\ home.rounds - SentBack \in {0, 1}
  /\ image_at \in {"read", "apply"} \/ (image_at = "cli" /\ hook.step = "none") => home.rounds = SentBack
  /\ hook.step \in {"rounds", "review"} => home.rounds = SentBack /\ hook.current = home.rounds
  /\ hook.step = "review" => hook.current < MaxRounds
  /\ hook.step = "log" => /\ home.rounds = SentBack + 1 /\ hook.current = SentBack
                          /\ hook.decision \in {"block", "build_error"}
  /\ hook.step = "answer" => home.rounds = SentBack

(* The gate holds the session to the policy as it was mounted, and no edit *)
(* comes after the gate.                                                   *)
Cleared ==
  /\ image_at \in {"read", "apply"} => workspace.policy = "pristine" /\ image_edits = 0 /\ enforceLog = <<>>
  /\ image_at = "cli" => \A i \in 1..Len(enforceLog) : enforceLog[i].decision # "clean"
  /\ image_at # "cli" /\ Len(enforceLog) > 0 /\ enforceLog[Len(enforceLog)].decision = "clean" =>
             workspace.code = "clean"

Armed ==
  /\ image_at = "apply" => plan.enabled \in BOOLEAN
  /\ image_at = "apply" => plan.hook = "no_hook" \/
             (plan.hook \in {"enforce", "placebo"} /\ payload.workflow \in {"ground_verify_enforced", "placebo_gate"})
  /\ home.hook # "no_hook" => payload.workflow \in {"ground_verify_enforced", "placebo_gate"}
  /\ image_at \in {"read", "apply"} => ~home.armed /\ home.hook = "no_hook"
  /\ image_at \in {"cli", "stopped"} \/ exit = "0" => (plan.enabled <=> home.armed)
  /\ image_at = "cli" /\ home.hook # "no_hook" => home.armed
  /\ hook.step # "none" \/ Len(enforceLog) > 0 => home.hook # "no_hook" /\ home.armed

Ended ==
  /\ exit = "running" <=> image_at # "exited"
  /\ image_at # "exited" => image_log = AgentImage!NoLog
  /\ image_log.native => image_log.file = "native" /\ image_log.finished
  /\ exit # "running" => image_log.file # Absent /\ image_log.finished
  /\ exit = "0" => image_log.native
  /\ exit # "running" /\ (image_edits > 0 \/ Len(enforceLog) > 0) => transcripts # "none"

AgentImageInv == ImageTypes /\ image_edits \in Nat /\ Rounds /\ Cleared /\ Armed /\ Ended

-----------------------------------------------------------------------------
LEMMA SentIsFinite ==
  ASSUME Own(enforceLog)
  PROVE  IsFiniteSet(AgentImage!Sent) /\ SentBack \in Nat /\ Len(enforceLog) \in Nat
<1>1. Len(enforceLog) \in Nat /\ AgentImage!Sent \subseteq 1..Len(enforceLog)
  BY DEF Own, AgentImage!Sent
<1>2. IsFiniteSet(1..Len(enforceLog))
  BY <1>1, FS_Interval
<1>3. IsFiniteSet(AgentImage!Sent)
  BY <1>1, <1>2, FS_Subset
<1>. QED
  BY <1>1, <1>3, FS_CardinalityType DEF SentBack

LEMMA LogGrows ==
  ASSUME Own(enforceLog), NEW e, enforceLog' = Append(enforceLog, e)
  PROVE  /\ Own(enforceLog)' /\ Len(enforceLog') = Len(enforceLog) + 1
         /\ \A i \in 1..Len(enforceLog) : enforceLog'[i] = enforceLog[i]
         /\ enforceLog'[Len(enforceLog')] = e
         /\ e.decision \notin {"block", "build_error"} =>
              /\ SentBack' = SentBack
              /\ (\A i \in AgentImage!Sent : enforceLog[i].round = Cardinality(AgentImage!SentBefore(i))) =>
                   (\A i \in AgentImage!Sent : enforceLog[i].round = Cardinality(AgentImage!SentBefore(i)))'
         /\ e.decision \in {"block", "build_error"} =>
              /\ SentBack' = SentBack + 1
              /\ (\A i \in AgentImage!Sent : enforceLog[i].round = Cardinality(AgentImage!SentBefore(i))) /\ e.round = SentBack =>
                   (\A i \in AgentImage!Sent : enforceLog[i].round = Cardinality(AgentImage!SentBefore(i)))'
<1>. DEFINE t == Append(enforceLog, e)
<1>1. Own(t) /\ Len(t) = Len(enforceLog) + 1
      /\ (\A i \in 1..Len(enforceLog) : t[i] = enforceLog[i]) /\ t[Len(t)] = e
  BY OneMoreOwn
<1>2. enforceLog' = t
  OBVIOUS
<1>. HIDE DEF t
<1>3. PICK n \in Nat : n = Len(enforceLog)
  BY SentIsFinite
<1>4. /\ Len(enforceLog') = n + 1 /\ enforceLog'[n + 1] = e
      /\ \A i \in 1..n : enforceLog'[i] = enforceLog[i]
      /\ \A i \in 1..(n + 1) : i \in 1..n \/ i = n + 1
      /\ \A i \in 1..n : i \in 1..(n + 1) /\ i # n + 1 /\ i < n + 1
  BY <1>1, <1>2, <1>3
<1>5. AgentImage!Sent \subseteq 1..n /\ IsFiniteSet(AgentImage!Sent) /\ SentBack \in Nat /\ n + 1 \notin AgentImage!Sent
  BY <1>3, <1>4, SentIsFinite DEF AgentImage!Sent
<1>6. ASSUME e.decision \notin {"block", "build_error"}
      PROVE  AgentImage!Sent' = AgentImage!Sent
  BY <1>3, <1>4, <1>6 DEF AgentImage!Sent
<1>7. ASSUME e.decision \in {"block", "build_error"}
      PROVE  AgentImage!Sent' = AgentImage!Sent \cup {n + 1}
  BY <1>3, <1>4, <1>7 DEF AgentImage!Sent
<1>8. ASSUME e.decision \in {"block", "build_error"}
      PROVE  SentBack' = SentBack + 1
  <2>1. Cardinality(AgentImage!Sent \cup {n + 1}) = Cardinality(AgentImage!Sent) + 1
    BY <1>5, FS_AddElement
  <2>. QED
    BY <1>7, <1>8, <2>1 DEF SentBack
<1>9. ASSUME NEW i \in AgentImage!Sent
      PROVE  AgentImage!SentBefore(i)' = AgentImage!SentBefore(i)
  <2>1. i \in 1..n /\ ~(n + 1 < i)
    BY <1>5
  <2>2. AgentImage!Sent' = AgentImage!Sent \/ AgentImage!Sent' = AgentImage!Sent \cup {n + 1}
    BY <1>6, <1>7
  <2>. QED
    BY <2>1, <2>2 DEF AgentImage!SentBefore
<1>10. AgentImage!SentBefore(n + 1)' = AgentImage!Sent
  <2>1. \A i \in AgentImage!Sent : i < n + 1
    BY <1>4, <1>5
  <2>2. AgentImage!Sent' = AgentImage!Sent \/ AgentImage!Sent' = AgentImage!Sent \cup {n + 1}
    BY <1>6, <1>7
  <2>3. ~(n + 1 < n + 1)
    OBVIOUS
  <2>. QED
    BY <2>1, <2>2, <2>3 DEF AgentImage!SentBefore
<1>11. ASSUME \A i \in AgentImage!Sent : enforceLog[i].round = Cardinality(AgentImage!SentBefore(i)),
              NEW i \in AgentImage!Sent
       PROVE  enforceLog'[i].round = Cardinality(AgentImage!SentBefore(i)')
  BY <1>4, <1>5, <1>9, <1>11
<1>12. ASSUME \A i \in AgentImage!Sent : enforceLog[i].round = Cardinality(AgentImage!SentBefore(i)),
              e.decision \notin {"block", "build_error"}
       PROVE  (\A i \in AgentImage!Sent : enforceLog[i].round = Cardinality(AgentImage!SentBefore(i)))'
  BY <1>6, <1>11, <1>12
<1>13. ASSUME \A i \in AgentImage!Sent : enforceLog[i].round = Cardinality(AgentImage!SentBefore(i)),
              e.decision \in {"block", "build_error"}, e.round = SentBack
       PROVE  (\A i \in AgentImage!Sent : enforceLog[i].round = Cardinality(AgentImage!SentBefore(i)))'
  <2>1. enforceLog'[n + 1].round = Cardinality(AgentImage!SentBefore(n + 1)')
    BY <1>4, <1>10, <1>13 DEF SentBack
  <2>. QED
    BY <1>7, <1>11, <1>13, <2>1
<1>14. e.decision \notin {"block", "build_error"} => SentBack' = SentBack
  BY <1>6 DEF SentBack
<1>. QED
  BY <1>1, <1>2, <1>8, <1>12, <1>13, <1>14

LEMMA AgentImageBegins == AgentImage!Init => AgentImageInv
<1>. SUFFICES ASSUME AgentImage!Init PROVE AgentImageInv
  OBVIOUS
<1>1. /\ image_at = "read" /\ hook = AgentImage!NoHook /\ enforceLog = <<>> /\ image_log = AgentImage!NoLog /\ exit = "running" /\ image_edits = 0
      /\ home = [armed |-> FALSE, hook |-> "no_hook", rounds |-> 0, policy |-> Absent]
      /\ workspace = [code |-> "violating", policy |-> "pristine"]
  BY DEF AgentImage!Init
<1>2. Own(enforceLog) /\ Len(enforceLog) = 0
  BY <1>1, EmptyOwn DEF Own
<1>3. AgentImage!Sent = {} /\ SentBack = 0
  <2>1. 1..Len(enforceLog) = {}
    BY <1>2
  <2>. QED
    BY <2>1, FS_EmptySet DEF AgentImage!Sent, SentBack
<1>4. MaxRounds \in Nat
  BY OperationsAssumption DEF AgentImage!AgentAssumption
<1>5. ImageTypes
  BY <1>1, <1>2 DEF ImageTypes, Homes, HookStates, AgentImage!NoHook, Logged,
     AgentImage!NoLog, EntrypointPlaces, Exits
<1>6. Rounds
  BY <1>1, <1>3, <1>4 DEF Rounds, AgentImage!NoHook
<1>7. Cleared /\ Armed /\ Ended
  BY <1>1, <1>2 DEF Cleared, Armed, Ended, AgentImage!NoHook, AgentImage!NoLog
<1>. QED
  BY <1>1, <1>5, <1>6, <1>7 DEF AgentImageInv

(* What the log of the hook does not change.                               *)
LEMMA SameLog ==
  ASSUME UNCHANGED enforceLog
  PROVE  AgentImage!Sent' = AgentImage!Sent /\ SentBack' = SentBack /\ \A i : AgentImage!SentBefore(i)' = AgentImage!SentBefore(i)
BY DEF AgentImage!Sent, SentBack, AgentImage!SentBefore

(* run_visible, and every way out through it.                              *)
LEMMA RunVisibleEnds ==
  ASSUME NEW lg \in Logged, lg.native => lg.file = "native" /\ lg.finished
  PROVE  /\ AgentImage!RunVisible(lg) \in Logged
         /\ AgentImage!RunVisible(lg).native => AgentImage!RunVisible(lg).file = "native"
         /\ AgentImage!RunVisible(lg).file # Absent /\ AgentImage!RunVisible(lg).finished
<1>1. CASE lg.native
  BY <1>1, OperationsAssumption DEF AgentImage!RunVisible, Logged,
     AgentImage!AgentAssumption
<1>2. CASE ~lg.native
  <2>1. PICK x : x = [lg EXCEPT !.file = "generic", !.finished = TRUE]
    OBVIOUS
  <2>2. x \in Logged /\ x.file = "generic" /\ x.finished /\ x.native = lg.native
    BY <2>1 DEF Logged
  <2>3. AgentImage!RunVisible(lg) = x
    BY <1>2, <2>1 DEF AgentImage!RunVisible, AgentImage!Finish
  <2>. QED
    BY <1>2, <2>2, <2>3, OperationsAssumption DEF AgentImage!AgentAssumption
<1>. QED
  BY <1>1, <1>2

LEMMA ExitKeeps ==
  ASSUME AgentImageInv, UNCHANGED <<payload, plan, enforceLog, workspace, image_edits>>,
         image_at \in {"read", "apply", "cli", "stopped"}, image_at' = "exited",
         hook' = AgentImage!NoHook, exit' \in {"0", "1"}, image_log' \in Logged,
         image_log'.native => image_log'.file = "native", image_log'.file # Absent, image_log'.finished,
         exit' = "0" => image_log'.native /\ image_at \in {"cli", "stopped"},
         image_at \in {"cli", "stopped"} => (AgentImage!SessionActed => transcripts' # "none"),
         \/ home' = home
         \/ /\ image_at = "apply" /\ home' \in Homes /\ home'.rounds = home.rounds
            /\ home'.hook \in {"no_hook", plan.hook}
  PROVE  AgentImageInv'
<1>1. SentBack' = SentBack /\ (\A i : AgentImage!SentBefore(i)' = AgentImage!SentBefore(i)) /\ AgentImage!Sent' = AgentImage!Sent /\ enforceLog' = enforceLog
  BY SameLog
<1>2. ImageTypes'
  BY <1>1 DEF AgentImageInv, ImageTypes, AgentImage!NoHook, HookStates, EntrypointPlaces,
     Exits
<1>3. Rounds'
  <2>1. home'.rounds = home.rounds /\ home.rounds \in Nat /\ SentBack \in Nat
    BY SentIsFinite DEF AgentImageInv, ImageTypes, Homes
  <2>2. home.rounds - SentBack \in {0, 1} /\ home.rounds <= MaxRounds
        /\ \A i \in AgentImage!Sent : enforceLog[i].round = Cardinality(AgentImage!SentBefore(i))
    BY DEF AgentImageInv, Rounds
  <2>. QED
    BY <1>1, <2>1, <2>2 DEF Rounds, AgentImage!NoHook
<1>4. image_at \in {"read", "apply"} => image_edits = 0 /\ Len(enforceLog) = 0
  BY EmptyOwn DEF AgentImageInv, Cleared, Own
<1>5. Cleared'
  <2>1. image_at = "cli" => \A i \in 1..Len(enforceLog) : enforceLog[i].decision # "clean"
    BY DEF AgentImageInv, Cleared
  <2>2. Len(enforceLog) > 0 => Len(enforceLog) \in 1..Len(enforceLog)
    BY SentIsFinite DEF AgentImageInv, ImageTypes
  <2>. QED
    BY <1>1, <1>4, <2>1, <2>2 DEF AgentImageInv, Cleared
<1>6. Armed'
  BY <1>1, <1>4 DEF AgentImageInv, Armed, AgentImage!NoHook
<1>7. Ended'
  <2>1. Len(enforceLog) > 0 => enforceLog # <<>>
    BY EmptyOwn
  <2>. QED
    BY <1>1, <1>4, <2>1 DEF AgentImageInv, Ended, AgentImage!SessionActed
<1>. QED
  BY <1>2, <1>3, <1>5, <1>6, <1>7 DEF AgentImageInv

LEMMA RequestKeeps ==
  ASSUME AgentImageInv, AgentImage!ReadRequest
  PROVE  AgentImageInv'
<1>1. image_at = "read" /\ UNCHANGED <<payload, home, workspace, hook, enforceLog, transcripts, image_edits>>
  BY DEF AgentImage!ReadRequest
<1>0. /\ image_log = AgentImage!NoLog /\ hook = AgentImage!NoHook /\ ~home.armed /\ exit = "running" /\ home.hook = "no_hook"
      /\ Own(enforceLog) /\ enforceLog = <<>>
  BY <1>1 DEF AgentImageInv, ImageTypes, Armed, Cleared, Ended
<1>2. CASE AgentImage!Raise(image_log) /\ UNCHANGED plan
  <2>1. image_log \in Logged /\ ~image_log.native
    BY <1>0 DEF AgentImage!NoLog, Logged
  <2>2. image_log' = AgentImage!RunVisible(image_log) /\ exit' = "1" /\ image_at' = "exited"
    BY <1>2 DEF AgentImage!Raise
  <2>. QED
    BY <1>0, <1>1, <1>2, <2>1, <2>2, RunVisibleEnds, ExitKeeps
<1>3. CASE image_at' = "apply" /\ plan' = AgentImage!PlanGroundwork /\ UNCHANGED <<image_log, exit>>
  <2>1. /\ plan'.enabled \in BOOLEAN
        /\ plan'.hook = "no_hook" \/
             (plan'.hook \in {"enforce", "placebo"} /\ payload.workflow \in {"ground_verify_enforced", "placebo_gate"})
    BY <1>3 DEF AgentImage!PlanGroundwork, AgentImage!Disabled, AgentImage!HookOf
  <2>2. ImageTypes'
    BY <1>0, <1>1, <1>3 DEF AgentImageInv, ImageTypes, EntrypointPlaces, AgentImage!NoHook
  <2>3. Rounds'
    BY <1>1, <1>3, SameLog DEF AgentImageInv, Rounds
  <2>4. Cleared' /\ Armed' /\ Ended'
    BY <1>0, <1>1, <1>3, <2>1 DEF AgentImageInv, Cleared, Armed, Ended
  <2>. QED
    BY <1>1, <2>2, <2>3, <2>4 DEF AgentImageInv
<1>. QED
  BY <1>2, <1>3 DEF AgentImage!ReadRequest

LEMMA ApplyKeeps ==
  ASSUME AgentImageInv, AgentImage!ApplyPlan
  PROVE  AgentImageInv'
<1>1. image_at = "apply" /\ UNCHANGED <<payload, plan, workspace, hook, enforceLog, transcripts, image_edits>>
  BY DEF AgentImage!ApplyPlan
<1>0. /\ image_log = AgentImage!NoLog /\ hook = AgentImage!NoHook /\ ~home.armed /\ exit = "running"
      /\ Own(enforceLog) /\ enforceLog = <<>> /\ workspace.policy = "pristine" /\ home \in Homes
      /\ plan.enabled \in BOOLEAN /\ home.rounds = SentBack /\ Len(enforceLog) = 0
      /\ home.hook = "no_hook" \/ payload.workflow \in {"ground_verify_enforced", "placebo_gate"}
  BY <1>1, EmptyOwn DEF AgentImageInv, ImageTypes, Armed, Cleared, Ended, Rounds, Own
<1>2. /\ plan.hook \in {"no_hook", "enforce", "placebo"}
      /\ plan.hook # "no_hook" => payload.workflow \in {"ground_verify_enforced", "placebo_gate"}
  BY <1>1 DEF AgentImageInv, Armed
<1>3. SentBack = 0
  <2>1. 1..Len(enforceLog) = {}
    BY <1>0
  <2>. QED
    BY <2>1, FS_EmptySet DEF AgentImage!Sent, SentBack
<1>4. CASE /\ image_at' = "cli" /\ UNCHANGED <<image_log, exit>> /\ home' \in Homes /\ home'.rounds = 0
           /\ (plan.enabled <=> home'.armed)
           /\ home'.hook # "no_hook" =>
                home'.armed /\ payload.workflow \in {"ground_verify_enforced", "placebo_gate"}
  <2>1. ImageTypes'
    BY <1>0, <1>1, <1>4 DEF AgentImageInv, ImageTypes, EntrypointPlaces, AgentImage!NoHook
  <2>2. Rounds'
    BY <1>0, <1>1, <1>3, <1>4, SameLog DEF AgentImageInv, Rounds, AgentImage!NoHook
  <2>3. Cleared' /\ Armed' /\ Ended'
    BY <1>0, <1>1, <1>4 DEF AgentImageInv, Cleared, Armed, Ended, AgentImage!NoHook
  <2>. QED
    BY <1>1, <2>1, <2>2, <2>3 DEF AgentImageInv
<1>5. CASE ~plan.enabled /\ image_at' = "cli" /\ UNCHANGED <<home, image_log, exit>>
  <2>1. home.hook = "no_hook"
    BY <1>1 DEF AgentImageInv, Armed
  <2>. QED
    BY <1>0, <1>3, <1>4, <1>5, <2>1
<1>6. CASE /\ plan.enabled /\ image_at' = "cli" /\ UNCHANGED <<image_log, exit>>
           /\ home' = [armed |-> TRUE, hook |-> plan.hook, rounds |-> 0,
                       policy |-> IF plan.copies THEN workspace.policy ELSE Absent]
  BY <1>0, <1>2, <1>4, <1>6 DEF Homes
<1>7. ASSUME NEW h \in {"no_hook", plan.hook}, NEW q \in {Absent, workspace.policy},
             home' = [home EXCEPT !.hook = h, !.policy = q], AgentImage!Raise(image_log)
      PROVE  AgentImageInv'
  <2>1. image_log \in Logged /\ ~image_log.native
    BY <1>0 DEF AgentImage!NoLog, Logged
  <2>2. image_log' = AgentImage!RunVisible(image_log) /\ exit' = "1" /\ image_at' = "exited"
    BY <1>7 DEF AgentImage!Raise
  <2>3. home' \in Homes /\ home'.rounds = home.rounds /\ home'.hook = h
    BY <1>0, <1>2, <1>7 DEF Homes
  <2>. QED
    BY <1>0, <1>1, <2>1, <2>2, <2>3, RunVisibleEnds, ExitKeeps
<1>. QED
  BY <1>5, <1>6, <1>7 DEF AgentImage!ApplyPlan

LEMMA EditKeeps ==
  ASSUME AgentImageInv, AgentImage!Edit
  PROVE  AgentImageInv'
<1>1. /\ image_at = "cli" /\ image_edits' = image_edits + 1
      /\ UNCHANGED <<payload, image_at, plan, home, hook, enforceLog, image_log, transcripts, exit>>
  BY DEF AgentImage!Edit
<1>2. ImageTypes'
  BY <1>1 DEF AgentImageInv, ImageTypes
<1>3. Rounds'
  BY <1>1, SameLog DEF AgentImageInv, Rounds
<1>4. Cleared' /\ Armed' /\ Ended' /\ image_edits' \in Nat
  BY <1>1 DEF AgentImageInv, Cleared, Armed, Ended
<1>. QED
  BY <1>2, <1>3, <1>4 DEF AgentImageInv

LEMMA AttemptKeeps ==
  ASSUME AgentImageInv, AgentImage!Attempt
  PROVE  AgentImageInv'
<1>1. /\ image_at = "cli" /\ hook = AgentImage!NoHook
      /\ UNCHANGED <<payload, plan, home, workspace, enforceLog, image_log, transcripts, exit, image_edits>>
  BY DEF AgentImage!Attempt
<1>2. home.rounds = SentBack /\ home.rounds \in Nat
  BY <1>1 DEF AgentImageInv, ImageTypes, Rounds, Homes, AgentImage!NoHook
<1>3. CASE home.hook = "no_hook"
  <2>1. image_at' = "stopped" /\ hook' = hook
    BY <1>3 DEF AgentImage!Attempt
  <2>2. ImageTypes'
    BY <1>1, <2>1 DEF AgentImageInv, ImageTypes, EntrypointPlaces, AgentImage!NoHook
  <2>3. Rounds'
    BY <1>1, <1>2, <2>1, SameLog DEF AgentImageInv, Rounds, AgentImage!NoHook
  <2>4. Cleared'
    <3>1. ~(Len(enforceLog) > 0)
      BY <1>3 DEF AgentImageInv, Armed
    <3>. QED
      BY <1>1, <2>1, <3>1 DEF Cleared
  <2>5. Armed' /\ Ended'
    BY <1>1, <1>3, <2>1 DEF AgentImageInv, Armed, Ended
  <2>. QED
    BY <1>1, <2>2, <2>3, <2>4, <2>5 DEF AgentImageInv
<1>4. CASE home.hook # "no_hook"
  <2>1. image_at' = image_at /\ hook' = [step |-> "rounds", current |-> home.rounds, decision |-> "none"]
    BY <1>4 DEF AgentImage!Attempt
  <2>2. ImageTypes'
    BY <1>1, <1>2, <2>1 DEF AgentImageInv, ImageTypes, HookStates
  <2>3. Rounds'
    BY <1>1, <1>2, <2>1, SameLog DEF AgentImageInv, Rounds
  <2>4. Cleared' /\ Armed' /\ Ended'
    BY <1>1, <1>4, <2>1 DEF AgentImageInv, Cleared, Armed, Ended
  <2>. QED
    BY <1>1, <2>2, <2>3, <2>4 DEF AgentImageInv
<1>. QED
  BY <1>3, <1>4

(* The hook goes on: what it counts and logs stays in step.                *)
LEMMA HookGoesOn ==
  ASSUME AgentImageInv, hook.step # "none",
         UNCHANGED <<payload, image_at, plan, workspace, image_log, transcripts, exit, image_edits>>,
         home' \in Homes, home'.hook = home.hook, home'.armed = home.armed,
         hook' \in HookStates, hook'.step = "none" => hook' = AgentImage!NoHook,
         Own(enforceLog)', Rounds',
         \A i \in 1..Len(enforceLog') : enforceLog'[i].decision # "clean"
  PROVE  AgentImageInv'
<1>1. image_at = "cli" /\ image_at' = "cli" /\ home.hook # "no_hook" /\ home.armed
  BY DEF AgentImageInv, ImageTypes, Armed
<1>2. ImageTypes'
  BY <1>1 DEF AgentImageInv, ImageTypes
<1>3. Cleared' /\ Armed' /\ Ended'
  BY <1>1 DEF AgentImageInv, Cleared, Armed, Ended
<1>. QED
  BY <1>2, <1>3 DEF AgentImageInv

(* The hook sends the model back: one round more than lines, for now.      *)
LEMMA BlockKeeps ==
  ASSUME AgentImageInv, hook.step \in {"rounds", "review"}, AgentImage!RoundsLeft,
         NEW decision \in {"block", "build_error"}, AgentImage!Block(decision),
         UNCHANGED <<payload, plan, workspace, image_log, transcripts, exit, image_edits>>
  PROVE  AgentImageInv'
<1>1. /\ home.rounds = SentBack /\ hook.current = home.rounds /\ home \in Homes /\ hook \in HookStates
      /\ hook.current < MaxRounds /\ image_at = "cli" /\ Own(enforceLog)
  BY DEF AgentImageInv, ImageTypes, Rounds, AgentImage!RoundsLeft
<1>2. /\ home' = [home EXCEPT !.rounds = hook.current + 1]
      /\ hook' = [hook EXCEPT !.step = "log", !.decision = decision]
      /\ image_at' = image_at /\ enforceLog' = enforceLog
  BY DEF AgentImage!Block
<1>3. /\ home' \in Homes /\ home'.rounds = SentBack + 1 /\ home'.hook = home.hook
      /\ home'.armed = home.armed
  BY <1>1, <1>2 DEF Homes
<1>4. hook' \in HookStates /\ hook'.step = "log" /\ hook'.current = SentBack /\ hook'.decision = decision
  BY <1>1, <1>2 DEF HookStates
<1>5. SentBack \in Nat /\ MaxRounds \in Nat
  BY <1>1, SentIsFinite, OperationsAssumption DEF AgentImage!AgentAssumption
<1>6. Rounds'
  BY <1>1, <1>2, <1>3, <1>4, <1>5, SameLog DEF AgentImageInv, Rounds
<1>7. \A i \in 1..Len(enforceLog') : enforceLog'[i].decision # "clean"
  BY <1>1, <1>2 DEF AgentImageInv, Cleared
<1>. QED
  BY <1>1, <1>2, <1>3, <1>4, <1>6, <1>7, HookGoesOn

(* The session is let go: the last line is the hook's, or none is.         *)
LEMMA AllowKeeps ==
  ASSUME AgentImageInv, hook.step # "none",
         UNCHANGED <<payload, plan, home, workspace, image_log, transcripts, exit, image_edits>>,
         image_at' = "stopped", hook' = AgentImage!NoHook,
         \/ enforceLog' = enforceLog
         \/ \E e : /\ enforceLog' = Append(enforceLog, e) /\ e.decision \notin {"block", "build_error"}
                   /\ e.decision = "clean" => workspace.code = "clean"
  PROVE  AgentImageInv'
<1>1. /\ image_at = "cli" /\ home.hook # "no_hook" /\ home.armed /\ Own(enforceLog) /\ Len(enforceLog) \in Nat
      /\ \A i \in 1..Len(enforceLog) : enforceLog[i].decision # "clean"
  BY SentIsFinite DEF AgentImageInv, ImageTypes, Armed, Cleared
<1>2. /\ Own(enforceLog)' /\ SentBack' = SentBack
      /\ (\A i \in AgentImage!Sent : enforceLog[i].round = Cardinality(AgentImage!SentBefore(i)))'
      /\ Len(enforceLog') > 0 /\ enforceLog'[Len(enforceLog')].decision = "clean" =>
           workspace.code = "clean"
  <2>1. \A i \in AgentImage!Sent : enforceLog[i].round = Cardinality(AgentImage!SentBefore(i))
    BY DEF AgentImageInv, Rounds
  <2>2. CASE enforceLog' = enforceLog
    <3>1. Len(enforceLog) > 0 => Len(enforceLog) \in 1..Len(enforceLog)
      BY <1>1
    <3>. QED
      BY <1>1, <2>1, <2>2, <3>1, SameLog
  <2>3. ASSUME NEW e, enforceLog' = Append(enforceLog, e), e.decision \notin {"block", "build_error"},
               e.decision = "clean" => workspace.code = "clean"
        PROVE  /\ Own(enforceLog)' /\ SentBack' = SentBack
               /\ (\A i \in AgentImage!Sent : enforceLog[i].round = Cardinality(AgentImage!SentBefore(i)))'
               /\ Len(enforceLog') > 0 /\ enforceLog'[Len(enforceLog')].decision = "clean" =>
                    workspace.code = "clean"
    BY <1>1, <2>1, <2>3, LogGrows
  <2>. QED
    BY <2>2, <2>3
<1>3. ImageTypes'
  BY <1>2 DEF AgentImageInv, ImageTypes, EntrypointPlaces, AgentImage!NoHook, HookStates
<1>4. Rounds'
  BY <1>2 DEF AgentImageInv, Rounds, AgentImage!NoHook
<1>5. Cleared'
  BY <1>2 DEF AgentImageInv, Cleared
<1>6. Armed' /\ Ended'
  BY <1>1 DEF AgentImageInv, Armed, Ended, AgentImage!NoHook
<1>. QED
  BY <1>3, <1>4, <1>5, <1>6 DEF AgentImageInv

LEMMA HookKeeps ==
  ASSUME AgentImageInv, AgentImage!Hook
  PROVE  AgentImageInv'
<1>0. /\ UNCHANGED <<payload, plan, workspace, image_log, transcripts, exit, image_edits>>
      /\ home \in Homes /\ hook \in HookStates /\ Own(enforceLog)
      /\ Len(enforceLog) \in Nat /\ SentBack \in Nat
  BY SentIsFinite DEF AgentImage!Hook, AgentImageInv, ImageTypes
<1>1. ASSUME NEW decision \in {"exhausted", "clean", "gate_error"}, AgentImage!Allow(decision), hook.step # "none",
             decision = "clean" => workspace.code = "clean"
      PROVE  AgentImageInv'
  <2>1. PICK e : e = [decision |-> decision, round |-> hook.current]
    OBVIOUS
  <2>2. /\ enforceLog' = Append(enforceLog, e) /\ e.decision = decision
        /\ hook' = AgentImage!NoHook /\ image_at' = "stopped" /\ home' = home
    BY <1>1, <2>1 DEF AgentImage!Allow, AgentImage!Logs
  <2>. QED
    BY <1>0, <1>1, <2>2, AllowKeeps
<1>2. CASE AgentImage!HookExhausted
  BY <1>1, <1>2 DEF AgentImage!HookExhausted, AgentImage!InHook
<1>3. CASE AgentImage!HookPlacebo
  BY <1>0, <1>3, BlockKeeps DEF AgentImage!HookPlacebo, AgentImage!InHook
<1>4. CASE AgentImage!HookGraph
  <2>1. hook.step = "rounds" /\ AgentImage!RoundsLeft /\ image_at = "cli"
    BY <1>4 DEF AgentImage!HookGraph, AgentImage!InHook
  <2>2. CASE AgentImage!Block("build_error")
    BY <1>0, <2>1, <2>2, BlockKeeps
  <2>3. CASE hook' = [hook EXCEPT !.step = "review"] /\ UNCHANGED <<image_at, home, enforceLog>>
    <3>1. hook' \in HookStates /\ hook'.step = "review" /\ hook'.current = hook.current
      BY <1>0, <2>3 DEF HookStates
    <3>2. Rounds'
      BY <2>1, <2>3, <3>1, SameLog DEF AgentImageInv, Rounds, AgentImage!RoundsLeft
    <3>3. \A i \in 1..Len(enforceLog') : enforceLog'[i].decision # "clean"
      BY <2>1, <2>3 DEF AgentImageInv, Cleared
    <3>. QED
      BY <1>0, <2>1, <2>3, <3>1, <3>2, <3>3, HookGoesOn
  <2>. QED
    BY <1>4, <2>2, <2>3 DEF AgentImage!HookGraph
<1>5. CASE AgentImage!HookReview
  <2>1. hook.step = "review" /\ image_at = "cli"
    BY <1>5 DEF AgentImage!HookReview, AgentImage!InHook
  <2>2. AgentImage!RoundsLeft
    BY <2>1 DEF AgentImageInv, Rounds, AgentImage!RoundsLeft
  <2>3. AgentImage!GateReturns(home.policy) = 0 => workspace.code = "clean"
    BY <1>0, OperationsAssumption DEF AgentImage!GateReturns, Homes,
       AgentImage!AgentAssumption
  <2>4. CASE AgentImage!GateReturns(home.policy) = 0 /\ AgentImage!Allow("clean")
    BY <1>1, <2>1, <2>3, <2>4
  <2>5. CASE AgentImage!Block("block")
    BY <1>0, <2>1, <2>2, <2>5, BlockKeeps
  <2>6. CASE AgentImage!Allow("gate_error")
    BY <1>1, <2>1, <2>6
  <2>. QED
    BY <1>5, <2>4, <2>5, <2>6 DEF AgentImage!HookReview
<1>6. CASE AgentImage!HookLogs
  <2>1. PICK e : e = [decision |-> hook.decision, round |-> hook.current]
    OBVIOUS
  <2>2. /\ hook.step = "log" /\ image_at = "cli" /\ enforceLog' = Append(enforceLog, e)
        /\ hook' = [hook EXCEPT !.step = "answer"] /\ home' = home /\ image_at' = image_at
    BY <1>6, <2>1 DEF AgentImage!HookLogs, AgentImage!InHook, AgentImage!Logs
  <2>3. hook' \in HookStates /\ hook'.step = "answer"
    BY <1>0, <2>2 DEF HookStates
  <2>4. /\ e.decision \in {"block", "build_error"} /\ e.round = SentBack /\ home.rounds = SentBack + 1
        /\ \A i \in AgentImage!Sent : enforceLog[i].round = Cardinality(AgentImage!SentBefore(i))
    BY <2>1, <2>2 DEF AgentImageInv, Rounds
  <2>5. /\ Own(enforceLog)' /\ SentBack' = SentBack + 1
        /\ (\A i \in AgentImage!Sent : enforceLog[i].round = Cardinality(AgentImage!SentBefore(i)))'
        /\ Len(enforceLog') = Len(enforceLog) + 1 /\ enforceLog'[Len(enforceLog')] = e
        /\ \A i \in 1..Len(enforceLog) : enforceLog'[i] = enforceLog[i]
    BY <1>0, <2>2, <2>4, LogGrows
  <2>6. Rounds'
    <3>1. home.rounds <= MaxRounds /\ SentBack \in Nat
      BY <1>0 DEF AgentImageInv, Rounds
    <3>2. PICK n : n = SentBack
      OBVIOUS
    <3>3. n \in Nat /\ SentBack' = n + 1 /\ home.rounds = n + 1
      BY <3>1, <3>2, <2>4, <2>5
    <3>4. home'.rounds = home.rounds
      BY <2>2
    <3>5. home'.rounds <= MaxRounds /\ home'.rounds = SentBack' /\ SentBack' \in Nat /\ image_at' = "cli"
      BY <3>1, <3>3, <3>4, <2>2
    <3>6. home'.rounds = n + 1 /\ SentBack' = n + 1
      BY <3>3, <3>4
    <3>7. home'.rounds - SentBack' = 0
      BY <3>3, <3>6
    <3>. QED
      BY <2>3, <2>5, <3>5, <3>7 DEF Rounds
  <2>7. \A i \in 1..Len(enforceLog') : enforceLog'[i].decision # "clean"
    <3>1. \A i \in 1..Len(enforceLog') : i \in 1..Len(enforceLog) \/ i = Len(enforceLog')
      BY <1>0, <2>5
    <3>2. \A i \in 1..Len(enforceLog) : enforceLog[i].decision # "clean"
      BY <2>2 DEF AgentImageInv, Cleared
    <3>. QED
      BY <2>4, <2>5, <3>1, <3>2
  <2>. QED
    BY <1>0, <2>2, <2>3, <2>5, <2>6, <2>7, HookGoesOn
<1>7. CASE AgentImage!HookAnswers
  <2>1. hook.step = "answer" /\ image_at = "cli" /\ hook' = AgentImage!NoHook /\ UNCHANGED <<image_at, home, enforceLog>>
    BY <1>7 DEF AgentImage!HookAnswers, AgentImage!InHook
  <2>2. hook' \in HookStates /\ hook'.step = "none"
    BY <2>1 DEF HookStates, AgentImage!NoHook
  <2>3. Rounds'
    BY <2>1, <2>2, SameLog DEF AgentImageInv, Rounds
  <2>4. \A i \in 1..Len(enforceLog') : enforceLog'[i].decision # "clean"
    BY <2>1 DEF AgentImageInv, Cleared
  <2>. QED
    BY <1>0, <2>1, <2>2, <2>3, <2>4, HookGoesOn
<1>8. CASE AgentImage!HookError
  <2>1. hook.step # "none" /\ hook' = AgentImage!NoHook /\ image_at' = "stopped" /\ home' = home
    BY <1>8 DEF AgentImage!HookError, AgentImageInv, ImageTypes
  <2>2. PICK e : e = [decision |-> "hook_error", round |-> -1]
    OBVIOUS
  <2>3. e.decision = "hook_error" /\ (enforceLog' = Append(enforceLog, e) \/ enforceLog' = enforceLog)
    BY <1>8, <2>2 DEF AgentImage!HookError, AgentImage!Logs
  <2>. QED
    BY <1>0, <2>1, <2>3, AllowKeeps
<1>. QED
  BY <1>2, <1>3, <1>4, <1>5, <1>6, <1>7, <1>8 DEF AgentImage!Hook

LEMMA CliKeeps ==
  ASSUME AgentImageInv, AgentImage!CliEnds
  PROVE  AgentImageInv'
<1>1. /\ image_at \in {"cli", "stopped"} /\ hook' = AgentImage!NoHook /\ image_log = AgentImage!NoLog
      /\ AgentImage!SessionActed => transcripts' # "none"
      /\ UNCHANGED <<payload, plan, home, workspace, enforceLog, image_edits>>
  BY DEF AgentImage!CliEnds, AgentImage!CaptureTranscripts, AgentImageInv, Ended
<1>2. /\ image_log \in Logged /\ ~image_log.native
      /\ AgentImage!FinishNative \in Logged /\ AgentImage!FinishNative.file = "native" /\ AgentImage!FinishNative.finished /\ AgentImage!FinishNative.native
      /\ AgentImage!Finish(image_log) \in Logged /\ ~AgentImage!Finish(image_log).native
      /\ "native" # Absent
  BY <1>1, OperationsAssumption DEF AgentImage!NoLog, Logged, AgentImage!FinishNative,
     AgentImage!Finish, AgentImage!AgentAssumption
<1>3. CASE hook = AgentImage!NoHook /\ image_log' = AgentImage!FinishNative /\ image_at' = "exited" /\ exit' = "0"
  BY <1>1, <1>2, <1>3, ExitKeeps
<1>4. ASSUME NEW lg \in {AgentImage!FinishNative, AgentImage!Finish(image_log), image_log}, AgentImage!Raise(lg)
      PROVE  AgentImageInv'
  <2>1. lg \in Logged /\ (lg.native => lg.file = "native" /\ lg.finished)
    BY <1>2
  <2>2. image_log' = AgentImage!RunVisible(lg) /\ exit' = "1" /\ image_at' = "exited"
    BY <1>4 DEF AgentImage!Raise
  <2>. QED
    BY <1>1, <2>1, <2>2, RunVisibleEnds, ExitKeeps
<1>. QED
  BY <1>3, <1>4 DEF AgentImage!CliEnds

LEMMA AgentImageKeeps ==
  ASSUME AgentImageInv, AgentImage!Next \/ UNCHANGED AgentImage!vars
  PROVE  AgentImageInv'
<1>1. CASE UNCHANGED AgentImage!vars
  <2>1. ImageTypes' /\ Rounds'
    BY <1>1, SameLog DEF AgentImage!vars, AgentImageInv, ImageTypes, Rounds
  <2>2. Cleared' /\ Armed' /\ Ended' /\ image_edits' \in Nat
    BY <1>1 DEF AgentImage!vars, AgentImageInv, Cleared, Armed, Ended
  <2>. QED
    BY <2>1, <2>2 DEF AgentImageInv
<1>. QED
  BY <1>1, RequestKeeps, ApplyKeeps, EditKeeps, AttemptKeeps, HookKeeps, CliKeeps DEF
     AgentImage!Next

(* The machine counts with the standard module it extends.                 *)
LEMMA OneCardinality == \A S : AgentImage!Cardinality(S) = Cardinality(S)
  BY DEF AgentImage!Cardinality, Cardinality

LEMMA AgentImageHolds == AgentImageInv => AgentImage!RedrivesBounded /\ AgentImage!ClearedIsClean /\ AgentImage!EvidenceKept
<1>. SUFFICES ASSUME AgentImageInv PROVE AgentImage!RedrivesBounded /\ AgentImage!ClearedIsClean /\ AgentImage!EvidenceKept
  OBVIOUS
<1>1. AgentImage!RedrivesBounded
  BY OneCardinality DEF AgentImageInv, Rounds, AgentImage!NoHook, SentBack, AgentImage!RedrivesBounded
<1>2. Len(enforceLog) \in Nat /\ (enforceLog # <<>> => Len(enforceLog) > 0)
  <2>1. enforceLog \in Seq({enforceLog[i] : i \in DOMAIN enforceLog})
    BY DEF AgentImageInv, ImageTypes, Own
  <2>. QED
    BY <2>1, EmptySeq
<1>3. AgentImage!ClearedIsClean
  BY <1>2 DEF AgentImageInv, Cleared, AgentImage!ClearedIsClean
<1>4. AgentImage!EvidenceKept
  BY <1>2 DEF AgentImageInv, Ended, Armed, AgentImage!EvidenceKept, AgentImage!SessionActed
<1>. QED
  BY <1>1, <1>3, <1>4

LEMMA AgentImageStays == Spec => [](moving = "image" => AgentImageInv)
<1>. DEFINE Inv == moving = "image" => AgentImageInv
<1>1. Init => Inv
  BY AgentImageBegins DEF Init
<1>2. Inv /\ [Next]_vars => Inv'
  <2>. SUFFICES ASSUME Inv, [Next]_vars, moving' = "image"
                PROVE  AgentImageInv'
    OBVIOUS
  <2>1. moving = "image" /\ AgentImageInv
    BY DEF Next, vars
  <2>2. AgentImage!Next \/ UNCHANGED AgentImage!vars
    BY <2>1 DEF Next, vars, imageVars, AgentImage!vars
  <2>. QED
    BY <2>1, <2>2, AgentImageKeeps
<1>. QED
  BY <1>1, <1>2, PTL DEF Spec

(* For any number of rounds and edits, and wherever the hook fails: the    *)
(* model is sent back MAX_ROUNDS times at most and every round but one     *)
(* that ends the session is logged with its number, a cleared exit was     *)
(* scored by the policy as it was mounted, and an entrypoint that has left *)
(* left one log, and the transcripts or a warning that names the loss     *)
(* (agent.py of the groundwork image).                                     *)
THEOREM ExitsAreEarned == Spec => []AgentImageSound
<1>1. (moving = "image" => AgentImageInv) => AgentImageSound
  BY AgentImageHolds DEF AgentImageSound
<1>. QED
  BY <1>1, AgentImageStays, PTL

-----------------------------------------------------------------------------
(* One trial in a container.                                               *)

FileRecords == [secrets : SUBSET HarborTrial!Secrets, form : HarborTrial!Forms]
Shas == {"spans", "trajectory", "flight"}
HarborTypes ==
  /\ trial_request \in HarborTrial!Requests
  /\ trial_files \in [HarborTrial!Files -> FileRecords \cup {Absent}]
  /\ shas \in [Shas -> FileRecords \cup {Absent}]
  /\ todo \in Seq(HarborTrial!Files)

Executing == {"resolve", "running", "kill", "inspect"}
Sealing == {"capture", "trajectory", "flight", "recorded"}
Reading == {"read", "redact"} \cup Sealing

Clean(f) == trial_files[f] = Absent \/ trial_files[f].secrets = {}
Waiting(f) == \E i \in 1..Len(todo) : todo[i] = f
Kept(f) == shas[f] = Absent \/ (trial_files[f] = shas[f] /\ shas[f].form = "object")
SpansKept ==
  shas["spans"] = Absent \/ trial_files["spans"] = shas["spans"] \/ HarborTrial!Hits(shas["spans"], HarborTrial!SeamDoor \ HarborTrial!EngineDoor)

(* What the scrubs left, step by step.                                     *)
Scrubbed ==
  /\ trial_pc \in Executing \cup {"read"} => todo = HarborTrial!Order
  /\ trial_pc = "redact" /\ result # "infra_failed" =>
             \A f \in HarborTrial!Files \ HarborTrial!Binary : Clean(f) \/ Waiting(f)
  /\ trial_pc \in Sealing /\ result # "infra_failed" => \A f \in HarborTrial!Files \ HarborTrial!Binary : Clean(f)
  /\ trial_pc \in {"trajectory", "flight"} => input = Absent \/ input.secrets = {}

(* The spans: those of a completed trial are kept, and only a pattern that *)
(* the engine's door lacks rewrites them.                                  *)
Spans ==
  /\ trial_pc \in {"redact"} \cup Sealing /\ result = "completed" /\ trial_request.otlp => shas["spans"] # Absent
  /\ shas["spans"] # Absent => shas["spans"].secrets \cap HarborTrial!EngineDoor = {}
  /\ trial_pc \in Executing \cup {"start", "read"} => shas["spans"] = Absent
  /\ trial_pc \in {"redact"} \cup Sealing /\ result # "infra_failed" => SpansKept

(* The captures, each from its step on.                                    *)
Captures ==
  /\ trial_pc \in {"flight", "recorded"} => Kept("trajectory")
  /\ trial_pc = "recorded" => Kept("flight")
  /\ trial_pc \notin {"flight", "recorded", "failed"} => shas["trajectory"] = Absent
  /\ trial_pc \notin {"recorded", "failed"} => shas["flight"] = Absent

EvidenceInv ==
  /\ HarborTypes
  /\ trial_pc \in Reading => (container = "running" => result = "infra_failed")
  /\ trial_pc \in {"trajectory", "flight", "recorded"} => result # "infra_failed"
  /\ Scrubbed
  /\ Spans
  /\ Captures
  /\ committed = Absent \/ (trial_pc = "recorded" /\ committed = HarborTrial!WorkspaceSha)
HarborTrialInv == trial_request \in HarborTrial!Requests /\ (DaemonAnswers => EvidenceInv)

-----------------------------------------------------------------------------
LEMMA FilesAre ==
  /\ HarborTrial!Order \in Seq(HarborTrial!Files)
  /\ \A f \in HarborTrial!Files : \E i \in 1..Len(HarborTrial!Order) : HarborTrial!Order[i] = f
  /\ {"agent_log", "flight", "spans", "trajectory", "notes", "photo"} \subseteq HarborTrial!Files
  /\ Len(HarborTrial!Order) = 6
<1>. DEFINE S == {HarborTrial!Order[i] : i \in DOMAIN HarborTrial!Order}
<1>1. Len(HarborTrial!Order) = 6 /\ DOMAIN HarborTrial!Order = 1..6
  BY DEF HarborTrial!Order
<1>2. HarborTrial!Order \in Seq(S)
  <2>1. HarborTrial!Order \in Seq({"agent_log", "flight", "spans", "trajectory", "notes", "photo"})
    BY DEF HarborTrial!Order
  <2>. QED
    BY <2>1, OwnElements
<1>3. /\ HarborTrial!Order[1] = "agent_log" /\ HarborTrial!Order[2] = "flight" /\ HarborTrial!Order[3] = "spans"
      /\ HarborTrial!Order[4] = "trajectory" /\ HarborTrial!Order[5] = "notes" /\ HarborTrial!Order[6] = "photo"
  BY DEF HarborTrial!Order
<1>4. HarborTrial!Files = S
  BY DEF HarborTrial!Files
<1>5. {"agent_log", "flight", "spans", "trajectory", "notes", "photo"} \subseteq S
  <2>1. 1 \in 1..6 /\ 2 \in 1..6 /\ 3 \in 1..6 /\ 4 \in 1..6 /\ 5 \in 1..6 /\ 6 \in 1..6
    OBVIOUS
  <2>. QED
    BY <1>1, <1>3, <2>1
<1>. QED
  BY <1>1, <1>2, <1>4, <1>5

(* A door takes its secrets out of a file and nothing else.                *)
LEMMA ScrubLeaves ==
  ASSUME NEW c \in FileRecords, NEW door \in SUBSET HarborTrial!Secrets, NEW breaks \in BOOLEAN,
         NEW d, d = HarborTrial!Scrub(c, door, breaks)
  PROVE  /\ d \in FileRecords /\ d.secrets = c.secrets \ door
         /\ ~breaks => d.form = c.form
         /\ ~HarborTrial!Hits(c, door) => d = c
<1>1. c = [secrets |-> c.secrets, form |-> c.form] /\ c.secrets \subseteq HarborTrial!Secrets /\ c.form \in HarborTrial!Forms
  BY DEF FileRecords
<1>2. PICK form \in HarborTrial!Forms :
        /\ HarborTrial!Scrub(c, door, breaks) = [secrets |-> c.secrets \ door, form |-> form]
        /\ ~breaks \/ ~HarborTrial!Hits(c, door) => form = c.form
  BY <1>1 DEF HarborTrial!Scrub, HarborTrial!File, HarborTrial!Forms
<1>3. ~HarborTrial!Hits(c, door) => c.secrets \ door = c.secrets
  BY DEF HarborTrial!Hits
<1>. QED
  BY <1>1, <1>2, <1>3 DEF FileRecords

LEMMA Doors == HarborTrial!EngineDoor \subseteq HarborTrial!SeamDoor /\ HarborTrial!SeamDoor = HarborTrial!Secrets /\ HarborTrial!EngineDoor \in SUBSET HarborTrial!Secrets
BY DEF HarborTrial!EngineDoor, HarborTrial!SeamDoor, HarborTrial!Secrets

LEMMA AbsentIsNoFile == Absent \notin FileRecords
BY OperationsAssumption DEF HarborTrial!HarborAssumption, FileRecords

LEMMA HarborTrialBegins == HarborTrial!Init => HarborTrialInv
<1>. SUFFICES ASSUME HarborTrial!Init PROVE EvidenceInv
  BY DEF HarborTrialInv, EvidenceInv, HarborTypes
<1>1. trial_pc = "start" /\ container = "none" /\ todo = <<>> /\ committed = Absent /\ trial_request \in HarborTrial!Requests
      /\ trial_files = [f \in HarborTrial!Files |-> Absent] /\ shas = [f \in Shas |-> Absent]
  BY DEF HarborTrial!Init, Shas
<1>2. HarborTypes
  BY <1>1 DEF HarborTypes
<1>3. \A f \in Shas : shas[f] = Absent
  BY <1>1
<1>. QED
  BY <1>1, <1>2, <1>3
  DEF EvidenceInv, Scrubbed, Spans, Captures, Shas, Executing, Reading, Sealing

(* The environment is a matter of the request alone.                       *)
LEMMA Environment ==
  ASSUME NEW req \in HarborTrial!Requests
  PROVE  LET env == HarborTrial!BuildRunCommand(req)
         IN  /\ env["KEY"] = {"ours"}
             /\ HarborTrial!NoProxyExtras(req) # {} => HarborTrial!NoProxyExtras(req) \subseteq env["NO_PROXY"]
             /\ "NO_PROXY" \in req.env => "task" \in env["NO_PROXY"]
<1>1. PICK steered, keyed, tasked, traced, all, prior :
        /\ keyed = HarborTrial!WithEnv(steered, {"KEY"}, {"ours"})
        /\ tasked = HarborTrial!WithEnv(keyed, HarborTrial!TaskEnv(req), {"task"})
        /\ traced = HarborTrial!WithEnv(tasked, IF req.otlp THEN {"OTEL"} ELSE {}, {"collector"})
        /\ all = HarborTrial!WithEnv(traced, {"NO_PROXY"}, prior \cup HarborTrial!NoProxyExtras(req))
        /\ prior = IF "NO_PROXY" \in req.env THEN {"task"} ELSE {}
        /\ HarborTrial!BuildRunCommand(req) = IF HarborTrial!NoProxyExtras(req) = {} THEN traced ELSE all
  BY DEF HarborTrial!BuildRunCommand
<1>2. "KEY" \in DOMAIN keyed /\ keyed["KEY"] = {"ours"}
  BY <1>1 DEF HarborTrial!WithEnv
<1>3. "KEY" \in DOMAIN tasked /\ tasked["KEY"] = {"ours"}
  <2>1. "KEY" \notin HarborTrial!TaskEnv(req)
    BY DEF HarborTrial!TaskEnv
  <2>. QED
    BY <1>1, <1>2, <2>1 DEF HarborTrial!WithEnv
<1>4. ASSUME HarborTrial!NoProxyExtras(req) = {}, "NO_PROXY" \in req.env
      PROVE  "NO_PROXY" \in DOMAIN tasked /\ tasked["NO_PROXY"] = {"task"}
  <2>1. "NO_PROXY" \in HarborTrial!TaskEnv(req)
    BY <1>4 DEF HarborTrial!TaskEnv
  <2>. QED
    BY <1>1, <2>1 DEF HarborTrial!WithEnv
<1>5. /\ "KEY" \in DOMAIN traced /\ traced["KEY"] = {"ours"}
      /\ "NO_PROXY" \in DOMAIN tasked => traced["NO_PROXY"] = tasked["NO_PROXY"]
  <2>1. PICK names : names = IF req.otlp THEN {"OTEL"} ELSE {}
    OBVIOUS
  <2>2. "KEY" \notin names /\ "NO_PROXY" \notin names /\ traced = HarborTrial!WithEnv(tasked, names, {"collector"})
    BY <1>1, <2>1
  <2>. QED
    BY <1>3, <2>2 DEF HarborTrial!WithEnv
<1>6. all["KEY"] = {"ours"} /\ all["NO_PROXY"] = prior \cup HarborTrial!NoProxyExtras(req)
  BY <1>1, <1>5 DEF HarborTrial!WithEnv
<1>7. CASE HarborTrial!NoProxyExtras(req) = {}
  BY <1>1, <1>4, <1>5, <1>7
<1>8. CASE HarborTrial!NoProxyExtras(req) # {}
  BY <1>1, <1>6, <1>8
<1>. QED
  BY <1>7, <1>8

(* The container writes while it runs, and never a file that is read.      *)
LEMMA ContainerKeeps ==
  ASSUME EvidenceInv, HarborTrial!ContainerStarts \/ \E f \in HarborTrial!Files, c \in HarborTrial!Contents : HarborTrial!ContainerWrites(f, c)
  PROVE  EvidenceInv'
<1>1. CASE HarborTrial!ContainerStarts
  BY <1>1 DEF HarborTrial!ContainerStarts, EvidenceInv, HarborTypes, Scrubbed, Spans,
     SpansKept, Captures, Clean, Waiting, Kept, Executing, Reading, Sealing,
     HarborTrial!WorkspaceSha
<1>2. ASSUME NEW f \in HarborTrial!Files, NEW c \in HarborTrial!Contents, HarborTrial!ContainerWrites(f, c)
      PROVE  EvidenceInv'
  <2>1. /\ container = "running" /\ trial_files' = [trial_files EXCEPT ![f] = c]
        /\ UNCHANGED <<trial_request, container, trial_pc, result, todo, input, shas, committed>>
    BY <1>2 DEF HarborTrial!ContainerWrites
  <2>2. c \in FileRecords
    BY DEF HarborTrial!Contents, HarborTrial!File, FileRecords
  <2>3. HarborTypes'
    BY <2>1, <2>2 DEF EvidenceInv, HarborTypes
  <2>4. trial_pc \in Reading => result = "infra_failed"
    BY <2>1 DEF EvidenceInv
  <2>5. trial_pc \notin {"trajectory", "flight", "recorded"}
    BY <2>4 DEF EvidenceInv, Reading, Sealing
  <2>6. Scrubbed' /\ Spans' /\ Captures'
    BY <2>1, <2>4, <2>5 DEF EvidenceInv, Scrubbed, Spans, Captures, Executing, Reading,
       Sealing
  <2>. QED
    BY <2>1, <2>3, <2>4, <2>5, <2>6 DEF EvidenceInv
<1>. QED
  BY <1>1, <1>2

(* Steps of the harness that leave the files and the captures alone.       *)
LEMMA HarnessMoves ==
  ASSUME EvidenceInv, UNCHANGED <<trial_request, trial_files, shas, input, committed>>, committed = Absent,
         container' # "running" \/ container' = container,
         todo' = todo \/ (todo' = <<>> /\ trial_pc' = "failed"),
         trial_pc \notin {"trajectory", "flight", "recorded", "failed"},
         \/ trial_pc \in Executing /\ trial_pc' \in Executing
         \/ trial_pc \in Executing /\ trial_pc' = "read" /\ (container' = "running" => result' = "infra_failed")
         \/ trial_pc \in Executing /\ trial_pc' = "redact" /\ result' = "infra_failed"
         \/ trial_pc' \in {"failed", "infra"}
  PROVE  EvidenceInv'
<1>0. <<>> \in Seq(HarborTrial!Files) /\ HarborTypes
  BY DEF EvidenceInv
<1>1. HarborTypes'
  BY <1>0 DEF HarborTypes
<1>2. /\ trial_pc \notin {"flight", "recorded", "failed"} /\ trial_pc' \notin Sealing
      /\ trial_pc' = "redact" => result' = "infra_failed"
      /\ trial_pc' \in Executing \cup {"read"} => trial_pc \in Executing /\ todo' = todo
      /\ trial_pc' \in Reading /\ container' = "running" => result' = "infra_failed"
  BY DEF Executing, Sealing, Reading
<1>3. Scrubbed'
  BY <1>2 DEF EvidenceInv, Scrubbed, Sealing
<1>4. Spans'
  BY <1>2 DEF EvidenceInv, Spans
<1>5. Captures'
  BY <1>2 DEF EvidenceInv, Captures, Sealing
<1>. QED
  BY <1>1, <1>2, <1>3, <1>4, <1>5 DEF EvidenceInv, Sealing

LEMMA ExecuteKeeps ==
  ASSUME EvidenceInv, DaemonAnswers,
         \/ \E b \in BOOLEAN : HarborTrial!ResolveImage(b) \/ HarborTrial!Kill(b)
         \/ \E how \in HarborTrial!DockerRun : HarborTrial!Execute(how)
         \/ \E probe \in {"nonzero", "not_running", "running", "raises"} : HarborTrial!Inspect(probe)
  PROVE  EvidenceInv'
<1>1. committed # Absent => trial_pc = "recorded"
  BY DEF EvidenceInv
<1>2. ASSUME NEW b \in BOOLEAN, HarborTrial!ResolveImage(b)
      PROVE  EvidenceInv'
  BY <1>1, <1>2, HarnessMoves DEF HarborTrial!ResolveImage, HarborTrial!Goto, Executing
<1>3. ASSUME NEW b \in BOOLEAN, HarborTrial!Kill(b)
      PROVE  EvidenceInv'
  BY <1>1, <1>3, HarnessMoves DEF HarborTrial!Kill, HarborTrial!Goto, Executing
<1>4. ASSUME NEW how \in HarborTrial!DockerRun, HarborTrial!Execute(how)
      PROVE  EvidenceInv'
  BY <1>1, <1>4, HarnessMoves DEF HarborTrial!Execute, HarborTrial!Goto, Executing
<1>5. ASSUME NEW probe \in {"nonzero", "not_running", "running", "raises"}, HarborTrial!Inspect(probe)
      PROVE  EvidenceInv'
  <2>1. container = "running" => ~HarborTrial!ConfirmedDead(probe)
    BY <1>5 DEF HarborTrial!Inspect, HarborTrial!Probes, HarborTrial!ConfirmedDead
  <2>. QED
    BY <1>1, <1>5, <2>1, HarnessMoves DEF HarborTrial!Inspect, HarborTrial!Goto, Executing
<1>. QED
  BY <1>2, <1>3, <1>4, <1>5

LEMMA PrepareKeeps ==
  ASSUME EvidenceInv, HarborTrial!PrepareWorkspace
  PROVE  EvidenceInv'
<1>1. /\ trial_pc = "start" /\ trial_pc' = "resolve" /\ todo' = HarborTrial!Order
      /\ trial_files' = [trial_files EXCEPT !["notes"] = HarborTrial!File({}, "object")]
      /\ UNCHANGED <<trial_request, container, result, input, shas, committed>>
  BY DEF HarborTrial!PrepareWorkspace, HarborTrial!Goto
<1>2. HarborTrial!File({}, "object") \in FileRecords /\ "notes" \in HarborTrial!Files
  BY FilesAre DEF HarborTrial!File, FileRecords, HarborTrial!Forms
<1>3. HarborTypes'
  BY <1>1, <1>2, FilesAre DEF EvidenceInv, HarborTypes
<1>. QED
  BY <1>1, <1>3 DEF EvidenceInv, Scrubbed, Spans, Captures, Executing, Reading, Sealing

(* A trial that fails leaves what it leaves, and records nothing.          *)
LEMMA TrialFails ==
  ASSUME EvidenceInv, committed = Absent, trial_pc' = "failed", todo' \in Seq(HarborTrial!Files),
         UNCHANGED <<trial_request, shas, committed>>,
         trial_files' \in [HarborTrial!Files -> FileRecords \cup {Absent}]
  PROVE  EvidenceInv'
BY DEF EvidenceInv, HarborTypes, Scrubbed, Spans, Captures, Executing, Sealing, Reading

(* What EngineBase.run keeps of the spans, and how it downgrades.          *)
LEMMA ReadKeeps ==
  ASSUME EvidenceInv, NEW batches \in HarborTrial!Batches, NEW proxyLog, NEW way, HarborTrial!ReadLogs(batches, proxyLog, way)
  PROVE  EvidenceInv'
<1>0. trial_pc = "read" /\ committed' = committed /\ committed = Absent /\ todo = HarborTrial!Order /\ HarborTypes
  BY DEF HarborTrial!ReadLogs, EvidenceInv, Scrubbed, Executing
<1>1. /\ UNCHANGED <<trial_request, container, input>>
      /\ result' = result \/ (result = "completed" /\ result' = "infra_failed")
      /\ batches = Absent => result' # "completed"
      /\ container = "running" => result' = "infra_failed"
  BY <1>0 DEF HarborTrial!ReadLogs, HarborTrial!Downgraded, EvidenceInv, Reading
<1>2. shas["trajectory"] = Absent /\ shas["flight"] = Absent
  BY <1>0 DEF EvidenceInv, Captures
<1>3. CASE /\ ~trial_request.otlp \/ batches = Absent
           /\ trial_pc' = "redact" /\ UNCHANGED <<trial_files, shas, todo>>
  <2>1. HarborTypes'
    BY <1>0, <1>1, <1>3 DEF HarborTypes
  <2>2. Scrubbed'
    BY <1>0, <1>3, FilesAre DEF Scrubbed, Waiting, Executing, Sealing
  <2>3. Spans'
    BY <1>0, <1>1, <1>3 DEF EvidenceInv, Spans, SpansKept, Executing, Sealing
  <2>. QED
    BY <1>0, <1>1, <1>2, <1>3, <2>1, <2>2, <2>3 DEF EvidenceInv, Captures
<1>4. CASE /\ trial_request.otlp /\ batches # Absent /\ HarborTrial!Persists(batches, HarborTrial!EngineDoor, way)
           /\ HarborTrial!Persist("spans", batches, HarborTrial!EngineDoor) /\ trial_pc' = "redact" /\ UNCHANGED todo
  <2>1. PICK d : d = HarborTrial!Scrub(batches, HarborTrial!EngineDoor, FALSE)
    OBVIOUS
  <2>2. batches \in FileRecords
    BY <1>4 DEF HarborTrial!Batches, HarborTrial!File, FileRecords, HarborTrial!Forms
  <2>3. d \in FileRecords /\ d.secrets \cap HarborTrial!EngineDoor = {}
    <3>1. /\ batches \in FileRecords /\ HarborTrial!EngineDoor \in SUBSET HarborTrial!Secrets /\ FALSE \in BOOLEAN
          /\ d = HarborTrial!Scrub(batches, HarborTrial!EngineDoor, FALSE)
      BY <2>1, <2>2, Doors
    <3>2. d \in FileRecords /\ d.secrets = batches.secrets \ HarborTrial!EngineDoor
      BY <3>1, ScrubLeaves
    <3>. QED
      BY <3>2
  <2>4. trial_files' = [trial_files EXCEPT !["spans"] = d] /\ shas' = [shas EXCEPT !["spans"] = d]
    BY <1>4, <2>1 DEF HarborTrial!Persist
  <2>5. "spans" \in HarborTrial!Files /\ "spans" \in Shas
    BY FilesAre DEF Shas
  <2>6. /\ HarborTypes' /\ trial_files'["spans"] = d /\ shas'["spans"] = d
        /\ shas'["trajectory"] = Absent /\ shas'["flight"] = Absent
    BY <1>0, <1>1, <1>2, <1>4, <2>3, <2>4, <2>5 DEF HarborTypes, Shas
  <2>7. Scrubbed'
    BY <1>0, <1>4, FilesAre DEF Scrubbed, Waiting, Executing, Sealing
  <2>8. Spans'
    BY <1>4, <2>3, <2>6, AbsentIsNoFile DEF Spans, SpansKept, Executing
  <2>. QED
    BY <1>0, <1>1, <1>4, <2>6, <2>7, <2>8 DEF EvidenceInv, Captures
<1>5. CASE HarborTrial!PersistFails("spans", batches, HarborTrial!EngineDoor, way) /\ todo' = <<>> /\ batches # Absent
  <2>1. batches \in FileRecords /\ "spans" \in HarborTrial!Files
    BY <1>5, FilesAre DEF HarborTrial!Batches, HarborTrial!File, FileRecords,
       HarborTrial!Forms
  <2>2. HarborTrial!Truncated(batches, HarborTrial!EngineDoor) \in FileRecords
    BY <2>1 DEF HarborTrial!Truncated, HarborTrial!File, FileRecords, HarborTrial!Forms
  <2>3. trial_pc' = "failed" /\ UNCHANGED shas /\ trial_files' \in [HarborTrial!Files -> FileRecords \cup {Absent}]
    BY <1>0, <1>5, <2>1, <2>2 DEF HarborTrial!PersistFails, HarborTrial!Goto, HarborTypes
  <2>. QED
    BY <1>0, <1>1, <1>5, <2>3, EmptySeq, TrialFails DEF EvidenceInv
<1>. QED
  BY <1>3, <1>4, <1>5 DEF HarborTrial!ReadLogs, HarborTrial!Goto, HarborTrial!End

(* One file is scrubbed: it waits no more, and is clean.                   *)
LEMMA OneLess ==
  ASSUME NEW S, NEW s \in Seq(S), s # <<>>
  PROVE  /\ Head(s) \in S /\ Tail(s) \in Seq(S)
         /\ \A i \in 1..Len(s) : s[i] = Head(s) \/ \E j \in 1..Len(Tail(s)) : Tail(s)[j] = s[i]
<1>1. Len(s) \in Nat \ {0} /\ Head(s) = s[1] /\ Head(s) \in S
      /\ Tail(s) \in Seq(S) /\ Len(Tail(s)) = Len(s) - 1
      /\ \A j \in 1..Len(Tail(s)) : Tail(s)[j] = s[j + 1]
  BY HeadTailProperties, EmptySeq
<1>2. ASSUME NEW i \in 1..Len(s), i # 1
      PROVE  \E j \in 1..Len(Tail(s)) : Tail(s)[j] = s[i]
  <2>1. i - 1 \in 1..Len(Tail(s)) /\ (i - 1) + 1 = i
    BY <1>1, <1>2
  <2>. QED
    BY <1>1, <2>1
<1>. QED
  BY <1>1, <1>2

LEMMA RedactKeeps ==
  ASSUME EvidenceInv, NEW breaks \in BOOLEAN, HarborTrial!RedactFile(breaks)
  PROVE  EvidenceInv'
<1>1. /\ trial_pc = "redact" /\ todo # <<>> /\ todo' = Tail(todo)
      /\ UNCHANGED <<trial_request, container, trial_pc, result, input, shas, committed>>
  BY DEF HarborTrial!RedactFile
<1>2. PICK f : f = Head(todo)
  OBVIOUS
<1>3. trial_files' = IF trial_files[f] = Absent \/ f \in HarborTrial!Binary THEN trial_files
                     ELSE [trial_files EXCEPT ![f] = HarborTrial!Scrub(trial_files[f], HarborTrial!SeamDoor, breaks)]
  BY <1>2 DEF HarborTrial!RedactFile
<1>4. /\ f \in HarborTrial!Files /\ todo' \in Seq(HarborTrial!Files)
      /\ \A g : Waiting(g) => g = f \/ Waiting(g)'
  <2>1. todo \in Seq(HarborTrial!Files)
    BY DEF EvidenceInv, HarborTypes
  <2>. QED
    BY <1>1, <1>2, <2>1, OneLess DEF Waiting
<1>5. PICK x : /\ x \in FileRecords \cup {Absent} /\ trial_files' = [trial_files EXCEPT ![f] = x]
               /\ f \in HarborTrial!Binary => x = trial_files[f]
               /\ f \notin HarborTrial!Binary => x = Absent \/ x.secrets = {}
               /\ x = trial_files[f] \/ (trial_files[f] # Absent /\ HarborTrial!Hits(trial_files[f], HarborTrial!SeamDoor))
  <2>1. trial_files \in [HarborTrial!Files -> FileRecords \cup {Absent}]
    BY DEF EvidenceInv, HarborTypes
  <2>2. CASE trial_files[f] = Absent \/ f \in HarborTrial!Binary
    <3>1. trial_files' = [trial_files EXCEPT ![f] = trial_files[f]] /\ trial_files[f] \in FileRecords \cup {Absent}
      BY <1>3, <1>4, <2>1, <2>2
    <3>. QED
      BY <2>2, <3>1
  <2>3. CASE ~(trial_files[f] = Absent \/ f \in HarborTrial!Binary)
    <3>1. trial_files[f] \in FileRecords
      BY <1>4, <2>1, <2>3
    <3>2. PICK c, d : c = trial_files[f] /\ d = HarborTrial!Scrub(c, HarborTrial!SeamDoor, breaks)
      OBVIOUS
    <3>3. /\ d \in FileRecords /\ d.secrets = c.secrets \ HarborTrial!SeamDoor
          /\ ~HarborTrial!Hits(c, HarborTrial!SeamDoor) => d = c
      <4>1. c \in FileRecords /\ HarborTrial!SeamDoor \in SUBSET HarborTrial!Secrets /\ d = HarborTrial!Scrub(c, HarborTrial!SeamDoor, breaks)
        BY <3>1, <3>2, Doors
      <4>. QED
        BY <4>1, ScrubLeaves
    <3>4. d.secrets = {}
      BY <3>1, <3>2, <3>3, Doors DEF FileRecords
    <3>. QED
      BY <1>3, <2>3, <3>2, <3>3, <3>4
  <2>. QED
    BY <2>2, <2>3
<1>6. /\ HarborTypes' /\ trial_files'[f] = x /\ \A g \in HarborTrial!Files \ {f} : trial_files'[g] = trial_files[g]
  BY <1>1, <1>4, <1>5 DEF EvidenceInv, HarborTypes
<1>7. Scrubbed'
  <2>1. ASSUME result # "infra_failed", NEW g \in HarborTrial!Files \ HarborTrial!Binary
        PROVE  (Clean(g) \/ Waiting(g))'
    <3>1. CASE g = f
      BY <1>5, <1>6, <2>1, <3>1 DEF Clean
    <3>2. CASE g # f
      BY <1>1, <1>4, <1>6, <2>1, <3>2 DEF EvidenceInv, Scrubbed, Clean
    <3>. QED
      BY <3>1, <3>2
  <2>. QED
    BY <1>1, <2>1 DEF Scrubbed, Executing, Sealing
<1>8. Spans'
  <2>1. ASSUME SpansKept, shas["spans"] # Absent
        PROVE  SpansKept'
    <3>1. "spans" \in HarborTrial!Files /\ shas["spans"] \in FileRecords /\ shas' = shas
      BY <1>1, <2>1, FilesAre DEF EvidenceInv, HarborTypes, Shas
    <3>2. shas["spans"].secrets \cap HarborTrial!EngineDoor = {}
      BY <2>1 DEF EvidenceInv, Spans
    <3>3. trial_files["spans"] = shas["spans"] /\ trial_files'["spans"] # trial_files["spans"] =>
          HarborTrial!Hits(shas["spans"], HarborTrial!SeamDoor \ HarborTrial!EngineDoor)
      BY <1>5, <1>6, <3>1, <3>2 DEF HarborTrial!Hits
    <3>. QED
      BY <2>1, <3>1, <3>3 DEF SpansKept
  <2>2. SpansKept => SpansKept'
    BY <1>1, <2>1 DEF SpansKept
  <2>. QED
    BY <1>1, <2>2 DEF EvidenceInv, Spans, Executing
<1>9. Captures' /\ committed' = Absent
  BY <1>1 DEF EvidenceInv, Captures
<1>. QED
  BY <1>1, <1>6, <1>7, <1>8, <1>9 DEF EvidenceInv

(* What was scrubbed is read once.                                         *)
LEMMA CaptureKeeps ==
  ASSUME EvidenceInv, HarborTrial!ReadRedactedLog \/ HarborTrial!CaptureSkips \/ \E d \in {"fine", "lies"} : HarborTrial!Redacted(d)
  PROVE  EvidenceInv'
<1>1. /\ trial_pc \in {"capture", "redact"}
      /\ UNCHANGED <<trial_request, container, trial_files, result, todo, shas, committed>>
      /\ committed = Absent
  BY DEF HarborTrial!ReadRedactedLog, HarborTrial!CaptureSkips, HarborTrial!Redacted,
     EvidenceInv
<1>2. CASE trial_pc' \in {"failed", "infra"}
  <2>. QED
    BY <1>1, <1>2 DEF EvidenceInv, HarborTypes, Scrubbed, Spans, Captures, Executing,
       Sealing, Reading
<1>3. CASE trial_pc = "redact" /\ trial_pc' = "capture" /\ todo = <<>>
  <2>1. \A f : ~Waiting(f)
    BY <1>3 DEF Waiting
  <2>. QED
    BY <1>1, <1>3, <2>1
    DEF EvidenceInv, HarborTypes, Scrubbed, Clean, Spans, SpansKept, Captures, Executing, Sealing, Reading
<1>4. CASE trial_pc = "capture" /\ result # "infra_failed" /\ trial_pc' \in {"trajectory", "recorded"}
           /\ (trial_pc' = "trajectory" => input' = trial_files[HarborTrial!CaptureInput])
  <2>1. HarborTrial!CaptureInput \in HarborTrial!Files \ HarborTrial!Binary
    BY FilesAre DEF HarborTrial!CaptureInput, HarborTrial!Binary
  <2>2. \A f \in HarborTrial!Files \ HarborTrial!Binary : Clean(f)
    BY <1>4 DEF EvidenceInv, Scrubbed, Sealing
  <2>3. trial_pc' = "trajectory" => input' = Absent \/ input'.secrets = {}
    BY <1>4, <2>1, <2>2 DEF Clean
  <2>4. Scrubbed'
    BY <1>1, <1>4, <2>2, <2>3 DEF Scrubbed, Clean, Executing
  <2>5. Spans' /\ Captures'
    BY <1>1, <1>4 DEF EvidenceInv, Spans, SpansKept, Captures, Kept, Executing, Sealing
  <2>. QED
    BY <1>1, <1>4, <2>4, <2>5 DEF EvidenceInv, HarborTypes, Reading, Sealing
<1>. QED
  BY <1>1, <1>2, <1>3, <1>4 DEF HarborTrial!ReadRedactedLog, HarborTrial!CaptureSkips,
     HarborTrial!Redacted, HarborTrial!Goto

(* A stage keeps an artifact, or finds nothing, or fails.                  *)
LEMMA StageKeeps ==
  ASSUME EvidenceInv, NEW f \in {"trajectory", "flight"}, NEW normalized, NEW way,
         HarborTrial!RunStage(f, normalized, way)
  PROVE  EvidenceInv'
<1>. DEFINE content == HarborTrial!File(input.secrets, "object")
<1>1. /\ trial_pc = f /\ UNCHANGED <<trial_request, container, result, todo, input, committed>>
      /\ normalized # "none" => input # Absent
  BY DEF HarborTrial!RunStage
<1>2. /\ container # "running" /\ result # "infra_failed" /\ committed = Absent /\ f \in HarborTrial!Files /\ f \in Shas
      /\ f \notin {"spans"} \cup HarborTrial!Binary
  BY <1>1, FilesAre DEF EvidenceInv, Reading, Sealing, Shas, HarborTrial!Binary
<1>3. PICK there : there = IF f = "trajectory" THEN "flight" ELSE "recorded"
  OBVIOUS
<1>4. CASE trial_pc' = "failed" /\ (UNCHANGED <<trial_files, shas>> \/ (input # Absent /\ HarborTrial!PersistFails(f, content, HarborTrial!SeamDoor, way)))
  <2>1. ASSUME input # Absent
        PROVE  HarborTrial!Truncated(content, HarborTrial!SeamDoor) \in FileRecords
    <3>1. input.secrets = {}
      BY <1>1, <2>1 DEF EvidenceInv, Scrubbed
    <3>. QED
      BY <3>1 DEF HarborTrial!Truncated, HarborTrial!File, FileRecords, HarborTrial!Forms,
         HarborTrial!SeamDoor
  <2>2. UNCHANGED shas /\ trial_files' \in [HarborTrial!Files -> FileRecords \cup {Absent}]
    BY <1>2, <1>4, <2>1 DEF EvidenceInv, HarborTypes, HarborTrial!PersistFails
  <2>. QED
    BY <1>1, <1>2, <1>4, <2>2, TrialFails DEF EvidenceInv, HarborTypes
<1>5. shas[f] = Absent
  BY <1>1 DEF EvidenceInv, Captures
<1>6. /\ f = "flight" => Kept("trajectory")
      /\ f = "trajectory" => shas["flight"] = Absent
  BY <1>1 DEF EvidenceInv, Captures
<1>7. CASE trial_pc' = there /\ UNCHANGED <<trial_files, shas>>
  <2>1. Scrubbed' /\ Spans'
    BY <1>1, <1>2, <1>3, <1>7
    DEF EvidenceInv, Scrubbed, Clean, Spans, SpansKept, Executing, Sealing
  <2>2. Captures'
    BY <1>1, <1>3, <1>5, <1>6, <1>7 DEF Captures, Kept
  <2>. QED
    BY <1>1, <1>2, <1>7, <2>1, <2>2 DEF EvidenceInv, HarborTypes
<1>8. CASE normalized = "some" /\ HarborTrial!Persist(f, content, HarborTrial!SeamDoor) /\ trial_pc' = there
  <2>1. input # Absent /\ input.secrets = {}
    BY <1>1, <1>8 DEF EvidenceInv, Scrubbed
  <2>2. PICK c : c = content
    OBVIOUS
  <2>3. c \in FileRecords /\ c.secrets = {} /\ c.form = "object"
    BY <2>1, <2>2 DEF HarborTrial!File, FileRecords, HarborTrial!Forms
  <2>. HIDE DEF content
  <2>4. PICK d : d = HarborTrial!Scrub(c, HarborTrial!SeamDoor, FALSE)
    OBVIOUS
  <2>5. d \in FileRecords /\ d.secrets = {} /\ d.form = "object"
    <3>1. /\ c \in FileRecords /\ HarborTrial!SeamDoor \in SUBSET HarborTrial!Secrets /\ FALSE \in BOOLEAN
          /\ d = HarborTrial!Scrub(c, HarborTrial!SeamDoor, FALSE)
      BY <2>3, <2>4, Doors
    <3>2. d \in FileRecords /\ d.secrets = c.secrets \ HarborTrial!SeamDoor /\ d.form = c.form
      BY <3>1, ScrubLeaves
    <3>. QED
      BY <2>3, <3>2
  <2>6. trial_files' = [trial_files EXCEPT ![f] = d] /\ shas' = [shas EXCEPT ![f] = d]
    BY <1>8, <2>2, <2>4 DEF HarborTrial!Persist
  <2>7. /\ HarborTypes' /\ trial_files'[f] = d /\ shas'[f] = d
        /\ \A g \in HarborTrial!Files \ {f} : trial_files'[g] = trial_files[g]
        /\ \A g \in Shas \ {f} : shas'[g] = shas[g]
    BY <1>1, <1>2, <2>5, <2>6 DEF EvidenceInv, HarborTypes
  <2>8. /\ {"spans", "trajectory", "flight"} \subseteq HarborTrial!Files
        /\ {"spans", "trajectory", "flight"} \subseteq Shas
    BY FilesAre DEF Shas
  <2>9. Scrubbed'
    <3>1. \A g \in HarborTrial!Files \ HarborTrial!Binary : Clean(g)
      BY <1>1, <1>2 DEF EvidenceInv, Scrubbed, Sealing
    <3>2. \A g \in HarborTrial!Files \ HarborTrial!Binary : Clean(g)'
      BY <2>5, <2>7, <3>1 DEF Clean
    <3>3. trial_pc' \in {"trajectory", "flight"} => input' = Absent \/ input'.secrets = {}
      BY <1>1, <2>1
    <3>. QED
      BY <1>3, <1>8, <3>2, <3>3 DEF Scrubbed, Executing
  <2>10. Spans'
    <3>1. trial_files'["spans"] = trial_files["spans"] /\ shas'["spans"] = shas["spans"]
      BY <1>2, <2>7, <2>8
    <3>. QED
      BY <1>1, <1>3, <1>8, <3>1 DEF EvidenceInv, Spans, SpansKept, Executing, Sealing
  <2>11. Captures'
    <3>1. Kept(f)'
      BY <2>5, <2>7 DEF Kept
    <3>2. \A g \in {"trajectory", "flight"} \ {f} : trial_files'[g] = trial_files[g] /\ shas'[g] = shas[g]
      BY <2>7, <2>8
    <3>3. f = "flight" => Kept("trajectory")'
      BY <1>6, <3>2 DEF Kept
    <3>4. f = "trajectory" => shas'["flight"] = Absent
      BY <1>6, <3>2
    <3>. QED
      BY <1>3, <1>8, <3>1, <3>3, <3>4 DEF Captures
  <2>. QED
    BY <1>1, <1>2, <1>8, <2>7, <2>9, <2>10, <2>11 DEF EvidenceInv
<1>. QED
  BY <1>1, <1>3, <1>4, <1>7, <1>8 DEF HarborTrial!RunStage, HarborTrial!Goto,
     HarborTrial!PersistFails

LEMMA CommitKeeps ==
  ASSUME EvidenceInv, HarborTrial!Commit
  PROVE  EvidenceInv'
<1>1. /\ trial_pc = "recorded" /\ committed' = HarborTrial!WorkspaceSha
      /\ UNCHANGED <<trial_request, container, trial_files, trial_pc, result, todo, input, shas>>
  BY DEF HarborTrial!Commit
<1>2. HarborTrial!WorkspaceSha' = HarborTrial!WorkspaceSha
  BY <1>1 DEF HarborTrial!WorkspaceSha
<1>. QED
  BY <1>1, <1>2 DEF EvidenceInv, HarborTypes, Scrubbed, Clean, Waiting, Spans, SpansKept,
     Captures, Kept

LEMMA EvidenceKeeps ==
  ASSUME EvidenceInv, DaemonAnswers, HarborTrial!Next \/ UNCHANGED HarborTrial!vars
  PROVE  EvidenceInv'
<1>1. CASE UNCHANGED HarborTrial!vars
  <2>1. HarborTrial!WorkspaceSha' = HarborTrial!WorkspaceSha
    BY <1>1 DEF HarborTrial!vars, HarborTrial!WorkspaceSha
  <2>. QED
    BY <1>1, <2>1
    DEF HarborTrial!vars, EvidenceInv, HarborTypes, Scrubbed, Clean, Waiting, Spans, SpansKept, Captures, Kept
<1>2. CASE HarborTrial!ReadNativeLogEscapes \/ HarborTrial!RedactionError \/ HarborTrial!ExecuteRaises
  <2>1. /\ trial_pc \in {"running", "read", "redact"} /\ trial_pc' = "failed" /\ todo' = <<>>
        /\ UNCHANGED <<trial_request, shas, committed>>
    BY <1>2 DEF HarborTrial!ReadNativeLogEscapes, HarborTrial!RedactionError,
       HarborTrial!ExecuteRaises, HarborTrial!End, HarborTrial!Goto
  <2>2. committed = Absent /\ HarborTypes
    BY <2>1 DEF EvidenceInv
  <2>3. trial_files' \in [HarborTrial!Files -> FileRecords \cup {Absent}]
    <3>1. CASE HarborTrial!ReadNativeLogEscapes \/ HarborTrial!ExecuteRaises
      BY <2>2, <3>1 DEF HarborTrial!ReadNativeLogEscapes, HarborTrial!ExecuteRaises,
         HarborTypes
    <3>2. CASE HarborTrial!RedactionError
      <4>1. PICK f : f = Head(todo)
        OBVIOUS
      <4>2. todo # <<>> /\ trial_files[f] # Absent
            /\ (trial_files' = trial_files \/ trial_files' = [trial_files EXCEPT ![f] = HarborTrial!Truncated(trial_files[f], HarborTrial!SeamDoor)])
        BY <3>2, <4>1 DEF HarborTrial!RedactionError
      <4>3. todo \in Seq(HarborTrial!Files) /\ todo # <<>>
        BY <2>2, <4>2 DEF HarborTypes
      <4>4. f \in HarborTrial!Files
        BY <4>1, <4>3, OneLess
      <4>5. HarborTrial!Truncated(trial_files[f], HarborTrial!SeamDoor) \in FileRecords
        BY <2>2, <4>2, <4>4 DEF HarborTrial!Truncated, HarborTrial!File, FileRecords,
           HarborTrial!Forms, HarborTypes
      <4>. QED
        BY <2>2, <4>2, <4>4, <4>5 DEF HarborTypes
    <3>. QED
      BY <1>2, <3>1, <3>2
  <2>. QED
    BY <2>1, <2>2, <2>3, EmptySeq, TrialFails
<1>. QED
  BY <1>1, <1>2, ContainerKeeps, PrepareKeeps, ExecuteKeeps, ReadKeeps, RedactKeeps,
     CaptureKeeps, StageKeeps, CommitKeeps DEF HarborTrial!Next

LEMMA HarborTrialKeeps ==
  ASSUME HarborTrialInv, HarborTrial!Next \/ UNCHANGED HarborTrial!vars
  PROVE  HarborTrialInv'
<1>1. trial_request' = trial_request
  BY DEF HarborTrial!Next, HarborTrial!vars, HarborTrial!ContainerStarts,
     HarborTrial!ContainerWrites, HarborTrial!PrepareWorkspace, HarborTrial!ResolveImage,
     HarborTrial!Kill, HarborTrial!RedactFile, HarborTrial!Execute,
     HarborTrial!ExecuteRaises, HarborTrial!Inspect, HarborTrial!ReadNativeLogEscapes,
     HarborTrial!ReadLogs, HarborTrial!RedactionError, HarborTrial!Redacted,
     HarborTrial!CaptureSkips, HarborTrial!ReadRedactedLog, HarborTrial!RunStage,
     HarborTrial!Commit
<1>. QED
  BY <1>1, EvidenceKeeps DEF HarborTrialInv

LEMMA HarborTrialHolds ==
  HarborTrialInv => HarborTrial!EnvironmentHolds /\ (DaemonAnswers => HarborTrial!EvidenceIsFinal)
<1>. SUFFICES ASSUME HarborTrialInv PROVE HarborTrial!EnvironmentHolds /\ (DaemonAnswers => HarborTrial!EvidenceIsFinal)
  OBVIOUS
<1>1. HarborTrial!EnvironmentHolds
  BY Environment DEF HarborTrialInv, HarborTrial!EnvironmentHolds
<1>2. ASSUME DaemonAnswers, trial_pc = "recorded"
      PROVE  /\ container # "running"
             /\ result = "completed" /\ trial_request.otlp => shas["spans"] # Absent
             /\ \A f \in HarborTrial!Files \ HarborTrial!Binary : trial_files[f] = Absent \/ trial_files[f].secrets = {}
             /\ HarborTrial!ResolveTrajectory \in {"absent", "verified"}
             /\ HarborTrial!ResolveFlightRecorder \in {"absent", "verified"}
             /\ HarborTrial!ResolveSpans = "sha_mismatch" => HarborTrial!Hits(shas["spans"], HarborTrial!SeamDoor \ HarborTrial!EngineDoor)
             /\ HarborTrial!ResolveWorkspace \in {"absent", "verified"}
  <2>1. EvidenceInv /\ result # "infra_failed" /\ trial_pc \in Reading /\ trial_pc \in Sealing
    BY <1>2 DEF HarborTrialInv, EvidenceInv, Reading, Sealing
  <2>2. container # "running" /\ Scrubbed /\ Spans /\ Captures
    BY <2>1 DEF EvidenceInv
  <2>3. ASSUME NEW f \in {"trajectory", "flight"}
        PROVE  HarborTrial!Resolve(f) \in {"absent", "verified"}
    <3>1. Kept(f)
      BY <1>2, <2>2 DEF Captures
    <3>. QED
      BY <3>1 DEF Kept, HarborTrial!Resolve
  <2>4. HarborTrial!ResolveSpans = "sha_mismatch" => HarborTrial!Hits(shas["spans"], HarborTrial!SeamDoor \ HarborTrial!EngineDoor)
    <3>1. SpansKept
      BY <2>1, <2>2 DEF Spans
    <3>. QED
      BY <3>1 DEF SpansKept, HarborTrial!ResolveSpans, HarborTrial!Resolve
  <2>5. HarborTrial!ResolveWorkspace \in {"absent", "verified"}
    BY <2>1 DEF EvidenceInv, HarborTrial!ResolveWorkspace
  <2>. QED
    BY <2>1, <2>2, <2>3, <2>4, <2>5 DEF Scrubbed, Clean, Spans,
       HarborTrial!ResolveTrajectory, HarborTrial!ResolveFlightRecorder
<1>. QED
  BY <1>1, <1>2 DEF HarborTrial!EvidenceIsFinal

LEMMA HarborTrialStays == Spec => [](moving = "trial" => HarborTrialInv)
<1>. DEFINE Inv == moving = "trial" => HarborTrialInv
<1>1. Init => Inv
  BY HarborTrialBegins DEF Init
<1>2. Inv /\ [Next]_vars => Inv'
  <2>. SUFFICES ASSUME Inv, [Next]_vars, moving' = "trial"
                PROVE  HarborTrialInv'
    OBVIOUS
  <2>1. moving = "trial" /\ HarborTrialInv
    BY DEF Next, vars
  <2>2. HarborTrial!Next \/ UNCHANGED HarborTrial!vars
    BY <2>1 DEF Next, vars, trialVars, HarborTrial!vars
  <2>. QED
    BY <2>1, <2>2, HarborTrialKeeps
<1>. QED
  BY <1>1, <1>2, PTL DEF Spec

(* For any secrets, patterns and writes of the agent: the container sees   *)
(* the environment its request asked for, and, as long as docker inspect   *)
(* fails only for a container that is gone, what the record of a completed *)
(* trial committed to is what its workspace still holds                    *)
(* (run/engines/harbor.py, run/seam.py).                                   *)
THEOREM EvidenceStaysFinal == Spec => []HarborTrialSound
<1>1. (moving = "trial" => HarborTrialInv) => HarborTrialSound
  BY HarborTrialHolds DEF HarborTrialSound
<1>. QED
  BY <1>1, HarborTrialStays, PTL

-----------------------------------------------------------------------------
(* External anchors.                                                       *)

(* The files, and heights that are numbers.                                *)
AnchorTypes ==
  /\ Own(lines) /\ Own(store) /\ synced \in 0..Len(lines)
  /\ anchor_edits \in Nat /\ shorts \in Nat /\ torn \in BOOLEAN
  /\ anchor_pc = [a \in Anchorers |-> anchor_pc[a]] /\ rec = [a \in Anchorers |-> rec[a]]
  /\ \A k \in 1..Len(store) : store[k].height \in Nat
  /\ \A a \in Anchorers : rec[a].height \in Nat

(* What a cross-check vouched for is a chain that ends in the record's hash. *)
Vouched(x) ==
  /\ x.by.height \in Nat \ {0}
  /\ Own(x.history) /\ Len(x.history) = x.by.height /\ Anchor!Chained(x.history)
  /\ Anchor!HashLine(x.history[x.by.height]) = x.by.head_hash

(* While nobody rewrites, a record is announced by a line that is on disk; *)
(* and while no write stops short either, it is of a line that was there   *)
(* when it was computed, and cannot be lost once it is recorded.           *)
Announced(r) == \E i \in 1..synced : lines[i].event = Anchor!ChainAnchor(r)
Of(r, n) ==
  /\ r # Anchor!Corrupt /\ r.height \in 0..n
  /\ r.height > 0 => Anchor!HashLine(lines[r.height]) = r.head_hash
Unedited ==
  anchor_edits = 0 =>
  /\ Anchor!Chained(lines)
  /\ \A k \in 1..Len(store) : Announced(store[k])
  /\ \A a \in Anchorers : anchor_pc[a] = "recorded" => Announced(rec[a])
Undisturbed ==
  anchor_edits = 0 /\ shorts = 0 =>
  /\ ~torn
  /\ \A k \in 1..Len(store) : Of(store[k], synced)
  /\ \A a \in Anchorers : /\ anchor_pc[a] = "read" => Of(rec[a], Len(lines))
                          /\ anchor_pc[a] = "recorded" => Of(rec[a], synced)

AnchorInv ==
  /\ AnchorTypes
  /\ \A x \in certified : Vouched(x)
  /\ Unedited
  /\ Undisturbed

-----------------------------------------------------------------------------
(* A hash closes one history: two chains of one length with the same last  *)
(* line are the same.                                                      *)
LEMMA OneHistory ==
  ASSUME NEW s, NEW t, Own(s), Own(t), Anchor!Chained(s), Anchor!Chained(t),
         Len(s) = Len(t), Len(s) \in Nat \ {0}, s[Len(s)] = t[Len(t)]
  PROVE  s = t
<1>. DEFINE n == Len(s)
            S == {k \in 0..(n - 1) : s[n - k] = t[n - k]}
<1>1. /\ n \in Nat \ {0} /\ DOMAIN s = 1..n /\ DOMAIN t = 1..n /\ Len(t) = n /\ s[n] = t[n]
      /\ s = [i \in 1..n |-> s[i]] /\ t = [i \in 1..n |-> t[i]]
  BY DEF Own
<1>2. \A i \in 2..n : s[i].prev_hash = <<"sha256", s[i - 1]>> /\ t[i].prev_hash = <<"sha256", t[i - 1]>>
  <2>1. \A i \in 1..n : s[i].prev_hash = Anchor!PrevHashOf(s, i) /\ t[i].prev_hash = Anchor!PrevHashOf(t, i)
    BY <1>1 DEF Anchor!Chained, Anchor!BrokenLinks
  <2>2. \A i \in 2..n : i \in 1..n /\ i # 1
    BY <1>1
  <2>. QED
    BY <2>1, <2>2 DEF Anchor!PrevHashOf, Anchor!HashLine
<1>. HIDE DEF n
<1>3. 0 \in S
  BY <1>1
<1>4. ASSUME NEW k \in 0..(n - 2), k \in S
      PROVE  k + 1 \in S
  <2>1. n - k \in 2..n /\ (n - k) - 1 = n - (k + 1) /\ k + 1 \in 0..(n - 1) /\ s[n - k] = t[n - k]
    BY <1>1, <1>4
  <2>2. PICK i \in 2..n : i = n - k
    BY <2>1
  <2>3. <<"sha256", s[i - 1]>> = <<"sha256", t[i - 1]>>
    BY <1>2, <2>1, <2>2
  <2>4. s[i - 1] = t[i - 1]
    BY ONLY <2>3
  <2>. QED
    BY <2>1, <2>2, <2>4
<1>5. ASSUME NEW j \in 1..n
      PROVE  s[j] = t[j]
  <2>1. n - j \in Nat /\ n - (n - j) = j /\ n - j \in 0..(n - 1)
    BY <1>1
  <2>. DEFINE T == S \cup {n}
  <2>2. S \subseteq 0..(n - 1)
    OBVIOUS
  <2>. HIDE DEF S
  <2>3. ASSUME NEW k \in 0..(n - j), k \in T
        PROVE  k + 1 \in T
    <3>1. k \in S /\ k \in 0..(n - 1)
      BY <1>1, <2>3
    <3>2. CASE k = n - 1
      BY <1>1, <3>2
    <3>3. CASE k # n - 1
      BY <1>1, <1>4, <3>1, <3>3
    <3>. QED
      BY <3>2, <3>3
  <2>5. 0 \in T
    BY <1>3
  <2>. HIDE DEF T, S
  <2>4. n - j \in T
    BY <2>1, <2>3, <2>5, UpTo
  <2>. USE DEF T, S
  <2>. QED
    BY <1>1, <2>1, <2>4
<1>. QED
  BY <1>1, <1>5

-----------------------------------------------------------------------------
(* A ledger rewritten with all its links computed afresh is a ledger.      *)
Links(events, f) ==
  f = [n \in 0..Len(events) |->
         IF n = 0 THEN <<>> ELSE Append(f[n - 1], Anchor!Line(events[n], Anchor!HeadHash(f[n - 1])))]
LEMMA RechainedIsLinked ==
  ASSUME NEW events
  PROVE  Anchor!Rechained(events) = (CHOOSE f : Links(events, f))[Len(events)]
BY DEF Anchor!Rechained, Links
LEMMA LinksExist ==
  ASSUME NEW events, Len(events) \in Nat
  PROVE  \E f : Links(events, f)
<1>. DEFINE N == Len(events)
            Next1(k, s) == Append(s, Anchor!Line(events[k], Anchor!HeadHash(s)))
            Upto(k, f) == f = [n \in 0..k |-> IF n = 0 THEN <<>> ELSE Next1(n, f[n - 1])]
            S == {k \in Nat : \E f : Upto(k, f)}
<1>. HIDE DEF Next1
<1>1. 0 \in S
  <2>1. Upto(0, [n \in 0..0 |-> <<>>])
    OBVIOUS
  <2>. QED
    BY <2>1
<1>2. ASSUME NEW k \in Nat, k \in S
      PROVE  k + 1 \in S
  <2>1. PICK f : Upto(k, f)
    BY <1>2
  <2>. DEFINE g == [n \in 0..(k + 1) |-> IF n = k + 1 THEN Next1(k + 1, f[k]) ELSE f[n]]
  <2>2. ASSUME NEW n \in 0..(k + 1)
        PROVE  g[n] = IF n = 0 THEN <<>> ELSE Next1(n, g[n - 1])
    <3>1. \A i \in 0..k : g[i] = f[i] /\ f[i] = (IF i = 0 THEN <<>> ELSE Next1(i, f[i - 1]))
      BY <2>1
    <3>2. g[k + 1] = Next1(k + 1, f[k]) /\ k \in 0..k /\ (k + 1) - 1 = k
      OBVIOUS
    <3>. HIDE DEF g, Upto
    <3>3. CASE n = k + 1
      BY <3>1, <3>2, <3>3
    <3>4. CASE n # k + 1
      <4>1. n \in 0..k /\ (n # 0 => n - 1 \in 0..k)
        BY <3>4
      <4>. QED
        BY <3>1, <4>1
    <3>. QED
      BY <3>3, <3>4
  <2>3. Upto(k + 1, g)
    BY <2>2
  <2>. HIDE DEF g, Upto
  <2>. QED
    BY <2>3
<1>3. N \in S
  BY <1>1, <1>2, UpTo
<1>. QED
  BY <1>3 DEF Links, Next1
LEMMA RechainedOwn ==
  ASSUME NEW events, Len(events) \in Nat
  PROVE  Own(Anchor!Rechained(events)) /\ Len(Anchor!Rechained(events)) = Len(events)
<1>. DEFINE f == CHOOSE g : Links(events, g)
            S == {k \in 0..Len(events) : Own(f[k]) /\ Len(f[k]) = k}
            T == S \cup {Len(events) + 1}
<1>1. Links(events, f)
  BY LinksExist
<1>2. \A k \in 0..Len(events) :
        f[k] = IF k = 0 THEN <<>> ELSE Append(f[k - 1], Anchor!Line(events[k], Anchor!HeadHash(f[k - 1])))
  BY <1>1 DEF Links
<1>. HIDE DEF f
<1>3. 0 \in T
  <2>1. f[0] = <<>>
    BY <1>2
  <2>2. Own(<<>>) /\ Len(<<>>) = 0
    BY EmptyOwn DEF Own
  <2>. QED
    BY <2>1, <2>2
<1>4. ASSUME NEW k \in 0..Len(events), k \in T
      PROVE  k + 1 \in T
  <2>1. CASE k = Len(events)
    BY <2>1
  <2>2. CASE k # Len(events)
    <3>1. k \in S /\ k + 1 \in 0..Len(events) /\ (k + 1) - 1 = k /\ k + 1 # 0
      BY <1>4, <2>2
    <3>2. PICK s, e : s = f[k] /\ e = Anchor!Line(events[k + 1], Anchor!HeadHash(s))
      OBVIOUS
    <3>3. f[k + 1] = Append(s, e) /\ Own(s) /\ Len(s) = k
      BY <1>2, <3>1, <3>2
    <3>. DEFINE t == Append(s, e)
    <3>4. Own(t) /\ Len(t) = k + 1
      BY <3>3, OneMoreOwn
    <3>5. f[k + 1] = t
      BY <3>3
    <3>. HIDE DEF t
    <3>. QED
      BY <3>1, <3>4, <3>5
  <2>. QED
    BY <2>1, <2>2
<1>. HIDE DEF T
<1>5. Len(events) \in T
  BY <1>3, <1>4, UpTo
<1>. QED
  BY <1>5, RechainedIsLinked DEF T, f

-----------------------------------------------------------------------------
(* Appending a line to a ledger, and cutting one off behind what is on     *)
(* disk.                                                                   *)
LEMMA LineAppended ==
  ASSUME AnchorTypes, NEW event, lines' = Append(lines, Anchor!Line(event, Anchor!HeadHash(lines)))
  PROVE  /\ Own(lines') /\ Len(lines') = Len(lines) + 1 /\ Len(lines) \in Nat
         /\ \A i \in 1..Len(lines) : lines'[i] = lines[i]
         /\ lines'[Len(lines) + 1].event = event
         /\ Anchor!Chained(lines) => Anchor!Chained(lines')
<1>1. PICK s, e : s = lines /\ e = Anchor!Line(event, Anchor!HeadHash(lines))
  OBVIOUS
<1>. DEFINE t == Append(s, e)
<1>2. Own(s) /\ Len(lines) \in Nat
  BY <1>1 DEF AnchorTypes, Own
<1>3. Own(t) /\ Len(t) = Len(s) + 1 /\ (\A i \in 1..Len(s) : t[i] = s[i]) /\ t[Len(t)] = e
  BY <1>2, OneMoreOwn
<1>4. lines' = t
  BY <1>1
<1>. HIDE DEF t
<1>5. /\ Own(lines') /\ Len(lines') = Len(lines) + 1
      /\ \A i \in 1..Len(lines) : lines'[i] = lines[i]
      /\ lines'[Len(lines) + 1] = Anchor!Line(event, Anchor!HeadHash(lines))
  BY <1>1, <1>3, <1>4
<1>6. ASSUME Anchor!Chained(lines)
      PROVE  Anchor!Chained(lines')
  <2>1. \A i \in 1..Len(lines) : lines[i].prev_hash = Anchor!PrevHashOf(lines, i)
    BY <1>6 DEF Anchor!Chained, Anchor!BrokenLinks
  <2>2. ASSUME NEW i \in 1..(Len(lines) + 1)
        PROVE  lines'[i].prev_hash = Anchor!PrevHashOf(lines', i)
    <3>1. Anchor!PrevHashOf(lines', i) = Anchor!PrevHashOf(lines, i)
      <4>1. i = 1 \/ i - 1 \in 1..Len(lines)
        BY <1>2
      <4>. QED
        BY <1>5, <4>1 DEF Anchor!PrevHashOf
    <3>2. CASE i = Len(lines) + 1
      BY <1>5, <3>1, <3>2 DEF Anchor!Line, Anchor!HeadHash
    <3>3. CASE i # Len(lines) + 1
      <4>1. i \in 1..Len(lines)
        BY <1>2, <3>3
      <4>. QED
        BY <1>5, <2>1, <3>1, <4>1
    <3>. QED
      BY <3>2, <3>3
  <2>. QED
    BY <1>5, <2>2 DEF Anchor!Chained, Anchor!BrokenLinks
<1>. QED
  BY <1>2, <1>5, <1>6 DEF Anchor!Line
LEMMA LinesCut ==
  ASSUME NEW s, Own(s), NEW n \in 0..Len(s)
  PROVE  LET t == SubSeq(s, 1, n)
         IN  /\ Own(t) /\ Len(t) = n /\ \A i \in 1..n : t[i] = s[i]
             /\ Anchor!Chained(s) => Anchor!Chained(t)
<1>. DEFINE t == SubSeq(s, 1, n)
<1>1. Own(t) /\ Len(t) = n /\ (\A i \in 1..n : t[i] = s[i]) /\ Len(s) \in Nat
  <2>1. s \in Seq({s[i] : i \in DOMAIN s})
    BY DEF Own
  <2>2. /\ t \in Seq({t[i] : i \in DOMAIN t}) /\ Len(t) = n
        /\ \A i \in 1..n : t[i] = s[i]
    BY <2>1, PrefixOwn
  <2>. QED
    BY <2>1, <2>2 DEF Own
<1>. HIDE DEF t
<1>2. ASSUME Anchor!Chained(s)
      PROVE  Anchor!Chained(t)
  <2>1. \A i \in 1..Len(s) : s[i].prev_hash = Anchor!PrevHashOf(s, i)
    BY <1>2 DEF Anchor!Chained, Anchor!BrokenLinks
  <2>2. ASSUME NEW i \in 1..n
        PROVE  t[i].prev_hash = Anchor!PrevHashOf(t, i)
    <3>1. i \in 1..Len(s) /\ (i = 1 \/ i - 1 \in 1..n)
      BY <1>1
    <3>. QED
      BY <1>1, <2>1, <3>1 DEF Anchor!PrevHashOf
  <2>. QED
    BY <1>1, <2>2 DEF Anchor!Chained, Anchor!BrokenLinks
<1>. QED
  BY <1>1, <1>2 DEF t

(* What a record says of lines that are still there.                       *)
LEMMA RecordsStand ==
  ASSUME AnchorTypes, NEW n \in synced..Len(lines), Own(lines'), n \in 0..Len(lines'),
         \A i \in 1..n : lines'[i] = lines[i], synced' \in synced..Len(lines'),
         NEW r
  PROVE  /\ Announced(r) => Announced(r)'
         /\ Of(r, synced) => Of(r, synced)'
         /\ Of(r, synced) => Of(r, Len(lines))
         /\ n = Len(lines) /\ Of(r, Len(lines)) => Of(r, Len(lines))'
<1>1. synced \in Nat /\ Len(lines) \in Nat /\ synced' \in Nat /\ Len(lines') \in Nat /\ n \in Nat
  BY DEF AnchorTypes, Own
<1>2. Announced(r) => Announced(r)'
  <2>1. \A i \in 1..synced : i \in 1..synced' /\ lines'[i] = lines[i]
    BY <1>1
  <2>. QED
    BY <2>1 DEF Announced
<1>3. Of(r, synced) => Of(r, synced)' /\ Of(r, Len(lines))
  BY <1>1 DEF Of
<1>4. n = Len(lines) /\ Of(r, Len(lines)) => Of(r, Len(lines))'
  BY <1>1 DEF Of
<1>. QED
  BY <1>2, <1>3, <1>4

(* A step of another process, or a fault: the store and the records stay.  *)
LEMMA LinesMove ==
  ASSUME AnchorInv, NEW n \in synced..Len(lines), Own(lines'), n \in 0..Len(lines'),
         \A i \in 1..n : lines'[i] = lines[i], synced' \in synced..Len(lines'),
         Anchor!Chained(lines) => Anchor!Chained(lines'),
         UNCHANGED <<store, rec, anchor_edits, certified>>,
         shorts' \in Nat, shorts' = 0 => shorts = 0, torn' \in BOOLEAN, shorts' = 0 /\ ~torn => ~torn',
         \/ UNCHANGED anchor_pc /\ n = Len(lines)
         \/ anchor_pc' = [a \in Anchorers |-> "idle"]
  PROVE  AnchorInv'
<1>1. AnchorTypes'
  <2>1. anchor_pc' = [a \in Anchorers |-> anchor_pc'[a]] /\ synced' \in 0..Len(lines')
    BY DEF AnchorInv, AnchorTypes, Own
  <2>. QED
    BY <2>1 DEF AnchorInv, AnchorTypes
<1>2. \A r : /\ Announced(r) => Announced(r)'
             /\ Of(r, synced) => Of(r, synced)'
             /\ n = Len(lines) /\ Of(r, Len(lines)) => Of(r, Len(lines))'
  BY RecordsStand DEF AnchorInv
<1>3. \A a \in Anchorers : /\ anchor_pc'[a] = "recorded" => anchor_pc[a] = "recorded"
                           /\ anchor_pc'[a] = "read" => anchor_pc[a] = "read" /\ n = Len(lines)
  BY DEF AnchorInv, AnchorTypes
<1>4. Unedited'
  BY <1>2, <1>3 DEF AnchorInv, Unedited
<1>5. Undisturbed'
  BY <1>2, <1>3 DEF AnchorInv, Undisturbed
<1>. QED
  BY <1>1, <1>4, <1>5 DEF AnchorInv

(* A step of an anchorer that leaves the ledger alone.                     *)
LEMMA AnchorerMoves ==
  ASSUME AnchorInv, NEW a \in Anchorers, NEW step, NEW r, r.height \in Nat,
         anchor_pc' = [anchor_pc EXCEPT ![a] = step], rec' = [rec EXCEPT ![a] = r],
         UNCHANGED <<lines, torn, synced, anchor_edits, shorts, certified>>,
         anchor_edits = 0 /\ step = "recorded" => Announced(r),
         anchor_edits = 0 /\ shorts = 0 => (step = "read" => Of(r, Len(lines))) /\ (step = "recorded" => Of(r, synced)),
         \/ UNCHANGED store
         \/ anchor_pc[a] = "recorded" /\ store' = Append(store, rec[a])
  PROVE  AnchorInv'
<1>1. /\ anchor_pc' = [b \in Anchorers |-> anchor_pc'[b]] /\ rec' = [b \in Anchorers |-> rec'[b]]
      /\ anchor_pc'[a] = step /\ rec'[a] = r
      /\ \A b \in Anchorers : b # a => anchor_pc'[b] = anchor_pc[b] /\ rec'[b] = rec[b]
  BY DEF AnchorInv, AnchorTypes
<1>2. \A x : /\ Announced(x) => Announced(x)'
             /\ Of(x, synced) => Of(x, synced)'
             /\ Of(x, Len(lines)) => Of(x, Len(lines))'
  BY DEF Announced, Of
<1>3. /\ Own(store')
      /\ \A k \in 1..Len(store') :
           \/ k \in 1..Len(store) /\ store'[k] = store[k]
           \/ anchor_pc[a] = "recorded" /\ store'[k] = rec[a]
  <2>1. CASE UNCHANGED store
    BY <2>1 DEF AnchorInv, AnchorTypes
  <2>2. CASE anchor_pc[a] = "recorded" /\ store' = Append(store, rec[a])
    <3>1. PICK s, e : s = store /\ e = rec[a]
      OBVIOUS
    <3>2. s \in Seq({s[i] : i \in DOMAIN s}) /\ Len(s) \in Nat
      BY <3>1 DEF AnchorInv, AnchorTypes, Own
    <3>. DEFINE t == Append(s, e)
    <3>3. Own(t) /\ Len(t) = Len(s) + 1 /\ (\A i \in 1..Len(s) : t[i] = s[i]) /\ t[Len(t)] = e
      <4>1. Own(s)
        BY <3>2 DEF Own
      <4>. QED
        BY <4>1, OneMoreOwn
    <3>4. store' = t
      BY <2>2, <3>1
    <3>. HIDE DEF t
    <3>5. \A k \in 1..(Len(s) + 1) : k \in 1..Len(s) \/ k = Len(s) + 1
      BY <3>2
    <3>. QED
      BY <2>2, <3>1, <3>3, <3>4, <3>5
  <2>. QED
    BY <2>1, <2>2
<1>4. AnchorTypes'
  BY <1>1, <1>3 DEF AnchorInv, AnchorTypes
<1>5. Unedited'
  BY <1>1, <1>2, <1>3 DEF AnchorInv, Unedited
<1>6. Undisturbed'
  BY <1>1, <1>2, <1>3 DEF AnchorInv, Undisturbed
<1>. QED
  BY <1>4, <1>5, <1>6 DEF AnchorInv

(* The checkpoint of an unbroken file is of its last line, and fits it.    *)
LEMMA CheckpointFits ==
  ASSUME AnchorInv
  PROVE  /\ Anchor!Checkpoint.height \in Nat
         /\ ~torn => Of(Anchor!Checkpoint, Len(lines))
<1>1. Len(lines) \in Nat
  BY DEF AnchorInv, AnchorTypes, Own
<1>2. Anchor!Checkpoint.height \in Nat
  BY <1>1 DEF Anchor!Checkpoint, Anchor!Record
<1>3. ASSUME ~torn
      PROVE  Of(Anchor!Checkpoint, Len(lines))
  <2>1. Anchor!Checkpoint = [height |-> Len(lines), head_hash |-> Anchor!HeadHash(lines)]
    BY <1>3 DEF Anchor!Checkpoint, Anchor!Record
  <2>2. Anchor!Checkpoint # Anchor!Corrupt
    <3>1. Anchor!HeadHash(lines) = <<"genesis">> \/ Anchor!HeadHash(lines) = <<"sha256", lines[Len(lines)]>>
      BY <1>1 DEF Anchor!HeadHash, Anchor!PrevHashOf, Anchor!GENESIS_PREV_HASH,
         Anchor!HashLine
    <3>2. Anchor!HeadHash(lines) # <<"corrupt">>
      BY ONLY <3>1
    <3>. QED
      BY <2>1, <3>2 DEF Anchor!Corrupt
  <2>3. Len(lines) > 0 => Anchor!HeadHash(lines) = Anchor!HashLine(lines[Len(lines)])
    BY <1>1 DEF Anchor!HeadHash, Anchor!PrevHashOf
  <2>. QED
    BY <1>1, <2>1, <2>2, <2>3 DEF Of
<1>. QED
  BY <1>2, <1>3

-----------------------------------------------------------------------------
LEMMA AnchorBegins == Anchor!Init => AnchorInv
<1>. SUFFICES ASSUME Anchor!Init
              PROVE  AnchorInv
  OBVIOUS
<1>. USE DEF Anchor!Init
<1>1. Own(<<>>) /\ Len(<<>>) = 0
  BY EmptyOwn DEF Own
<1>2. AnchorTypes
  <2>1. Own(lines) /\ Own(store) /\ Len(lines) = 0 /\ Len(store) = 0 /\ synced \in 0..Len(lines)
    BY <1>1
  <2>2. anchor_pc = [a \in Anchorers |-> anchor_pc[a]] /\ rec = [a \in Anchorers |-> rec[a]]
    OBVIOUS
  <2>3. \A a \in Anchorers : rec[a].height \in Nat
    BY DEF Anchor!Record
  <2>4. anchor_edits \in Nat /\ shorts \in Nat /\ torn \in BOOLEAN
    OBVIOUS
  <2>. QED
    BY <2>1, <2>2, <2>3, <2>4 DEF AnchorTypes
<1>3. Unedited /\ Undisturbed
  BY <1>1 DEF Unedited, Undisturbed, Anchor!Chained, Anchor!BrokenLinks
<1>. QED
  BY <1>2, <1>3 DEF AnchorInv

LEMMA RecordKeeps ==
  ASSUME AnchorInv, NEW a \in Anchorers, Anchor!RecordChainAnchor(a)
  PROVE  AnchorInv'
<1>. DEFINE r == rec[a]
<1>1. anchor_pc[a] = "read" /\ r.height \in Nat /\ rec = [rec EXCEPT ![a] = r]
  BY DEF Anchor!RecordChainAnchor, AnchorInv, AnchorTypes
<1>2. CASE torn
  <2>1. anchor_pc' = [anchor_pc EXCEPT ![a] = "idle"] /\ rec' = [rec EXCEPT ![a] = r]
        /\ UNCHANGED <<lines, torn, synced, anchor_edits, shorts, certified, store>>
    BY <1>1, <1>2 DEF Anchor!RecordChainAnchor
  <2>. HIDE DEF r
  <2>. QED
    BY <1>1, <2>1, AnchorerMoves
<1>3. CASE ~torn
  <2>1. /\ lines' = Append(lines, Anchor!Line(Anchor!ChainAnchor(r), Anchor!HeadHash(lines))) /\ synced' = Len(lines')
        /\ anchor_pc' = [anchor_pc EXCEPT ![a] = "recorded"]
        /\ UNCHANGED <<torn, store, rec, shorts, anchor_faults, anchor_edits, certified>>
    BY <1>3 DEF Anchor!RecordChainAnchor
  <2>2. /\ Own(lines') /\ Len(lines') = Len(lines) + 1 /\ Len(lines) \in Nat
        /\ \A i \in 1..Len(lines) : lines'[i] = lines[i]
        /\ lines'[Len(lines) + 1].event = Anchor!ChainAnchor(r)
        /\ Anchor!Chained(lines) => Anchor!Chained(lines')
    BY <2>1, LineAppended DEF AnchorInv
  <2>3. \A x : /\ Announced(x) => Announced(x)'
               /\ Of(x, synced) => Of(x, synced)'
               /\ Of(x, Len(lines)) => Of(x, Len(lines))'
    <3>1. Len(lines) \in synced..Len(lines) /\ synced' \in synced..Len(lines') /\ Len(lines) \in 0..Len(lines')
      BY <2>1, <2>2 DEF AnchorInv, AnchorTypes
    <3>. QED
      BY <2>2, <3>1, RecordsStand DEF AnchorInv
  <2>4. Announced(r)'
    <3>1. Len(lines) + 1 \in 1..synced'
      BY <2>1, <2>2
    <3>. QED
      BY <2>1, <2>2, <3>1 DEF Announced
  <2>5. anchor_edits = 0 /\ shorts = 0 => Of(r, synced)'
    <3>0. anchor_edits = 0 /\ shorts = 0 => Of(r, Len(lines))
      BY <1>1 DEF AnchorInv, Undisturbed
    <3>1. anchor_edits = 0 /\ shorts = 0 => Of(r, Len(lines))'
      BY <2>1, <2>3, <3>0
    <3>. QED
      BY <2>1, <3>1 DEF Of
  <2>. HIDE DEF r
  <2>6. /\ anchor_pc' = [b \in Anchorers |-> anchor_pc'[b]] /\ anchor_pc'[a] = "recorded"
        /\ \A b \in Anchorers : b # a => anchor_pc'[b] = anchor_pc[b]
    BY <2>1 DEF AnchorInv, AnchorTypes
  <2>7. AnchorTypes'
    BY <2>1, <2>2, <2>6 DEF AnchorInv, AnchorTypes
  <2>8. Unedited'
    BY <2>1, <2>2, <2>3, <2>4, <2>6 DEF AnchorInv, Unedited, r
  <2>9. Undisturbed'
    BY <2>1, <2>3, <2>5, <2>6 DEF AnchorInv, Undisturbed, r
  <2>. QED
    BY <2>1, <2>7, <2>8, <2>9 DEF AnchorInv
<1>. QED
  BY <1>2, <1>3

(* Whatever is rewritten, the files stay files of lines and records.       *)
LEMMA RewriteKeeps == AnchorInv /\ Anchor!Rewrite => AnchorInv'
<1>. SUFFICES ASSUME AnchorInv, Anchor!Rewrite
              PROVE  AnchorInv'
  OBVIOUS
<1>1. /\ anchor_edits' = anchor_edits + 1 /\ anchor_edits \in Nat /\ anchor_edits' # 0 /\ anchor_edits' \in Nat
      /\ UNCHANGED <<torn, anchor_pc, rec, shorts, anchor_faults, certified>>
  BY DEF Anchor!Rewrite, AnchorInv, AnchorTypes
<1>2. Own(lines) /\ Own(store) /\ Len(lines) \in Nat /\ Len(store) \in Nat
  BY DEF AnchorInv, AnchorTypes, Own
<1>3. ASSUME lines' \in Anchor!Rewritten
      PROVE  Own(lines') /\ Len(lines') \in Nat
  <2>1. ASSUME NEW i \in 1..Len(lines), NEW e
        PROVE  Own(Anchor!Altered(i, e)) /\ Len(Anchor!Altered(i, e)) = Len(lines)
    <3>1. PICK s, x : s = lines /\ x = [lines[i] EXCEPT !.event = <<"event", e>>]
      OBVIOUS
    <3>2. s \in Seq({s[j] : j \in DOMAIN s}) /\ i \in DOMAIN s
      BY <1>2, <3>1 DEF Own
    <3>. DEFINE t == [s EXCEPT ![i] = x]
    <3>3. t \in Seq({s[j] : j \in DOMAIN s} \cup {x}) /\ Len(t) = Len(s)
      BY <3>2
    <3>4. t = Anchor!Altered(i, e)
      BY <3>1 DEF Anchor!Altered
    <3>. HIDE DEF t
    <3>. QED
      BY <3>1, <3>3, <3>4, OwnElements DEF Own
  <2>2. ASSUME NEW i \in 1..Len(lines), NEW e
        PROVE  Own(Anchor!Rechained(Anchor!EventsOf(Anchor!Altered(i, e))))
    <3>1. Len(Anchor!EventsOf(Anchor!Altered(i, e))) = Len(lines)
      BY <1>2, <2>1 DEF Anchor!EventsOf
    <3>. QED
      BY <1>2, <3>1, RechainedOwn
  <2>3. ASSUME NEW n \in 0..Len(lines)
        PROVE  Own(SubSeq(lines, 1, n))
    BY <1>2, LinesCut
  <2>4. \/ \E i \in 1..Len(lines), e \in Events : lines' = Anchor!Altered(i, e)
        \/ \E i \in 1..Len(lines), e \in Events : lines' = Anchor!Rechained(Anchor!EventsOf(Anchor!Altered(i, e)))
        \/ \E n \in 0..Len(lines) : lines' = SubSeq(lines, 1, n)
    BY <1>3 DEF Anchor!Rewritten
  <2>5. Own(lines')
    BY <2>1, <2>2, <2>3, <2>4
  <2>. QED
    BY <2>5 DEF Own
<1>4. ASSUME store' = SubSeq(store, 1, Len(store) - 1), store # <<>>
      PROVE  Own(store') /\ \A k \in 1..Len(store') : store'[k].height \in Nat
  <2>1. Len(store) - 1 \in 0..Len(store)
    BY <1>2, <1>4 DEF Own
  <2>2. PICK s, n : s = store /\ n = Len(s) - 1
    OBVIOUS
  <2>3. Own(s) /\ n \in 0..Len(s) /\ store' = SubSeq(s, 1, n)
    BY <1>2, <1>4, <2>1, <2>2
  <2>4. Own(store') /\ Len(store') = n /\ \A i \in 1..n : store'[i] = s[i]
    BY <2>3, LinesCut
  <2>5. \A i \in 1..n : i \in 1..Len(s)
    BY <1>2, <2>2, <2>3
  <2>. QED
    BY <2>2, <2>4, <2>5 DEF AnchorInv, AnchorTypes
<1>5. ASSUME store' = [store EXCEPT ![1] = Anchor!Corrupt], store # <<>>
      PROVE  Own(store') /\ \A k \in 1..Len(store') : store'[k].height \in Nat
  <2>1. PICK s, x : s = store /\ x = Anchor!Corrupt
    OBVIOUS
  <2>2. s \in Seq({s[j] : j \in DOMAIN s}) /\ 1 \in DOMAIN s /\ DOMAIN s = 1..Len(s)
    BY <1>2, <1>5, <2>1 DEF Own
  <2>. DEFINE t == [s EXCEPT ![1] = x]
  <2>3. /\ t \in Seq({s[j] : j \in DOMAIN s} \cup {x}) /\ Len(t) = Len(s)
        /\ \A k \in 1..Len(s) : t[k] = s[k] \/ t[k] = x
    BY <2>2
  <2>4. t = store' /\ x.height = 0
    BY <1>5, <2>1 DEF Anchor!Corrupt
  <2>. HIDE DEF t
  <2>5. Own(store')
    BY <2>3, <2>4, OwnElements DEF Own
  <2>. QED
    BY <2>1, <2>3, <2>4, <2>5 DEF AnchorInv, AnchorTypes
<1>6. AnchorTypes'
  <2>1. CASE lines' \in Anchor!Rewritten /\ synced' = Len(lines') /\ UNCHANGED store
    BY <1>1, <1>3, <2>1 DEF AnchorInv, AnchorTypes
  <2>2. CASE store # <<>> /\ UNCHANGED <<lines, synced>>
             /\ store' \in {SubSeq(store, 1, Len(store) - 1), [store EXCEPT ![1] = Anchor!Corrupt]}
    BY <1>1, <1>4, <1>5, <2>2 DEF AnchorInv, AnchorTypes
  <2>. QED
    BY <2>1, <2>2 DEF Anchor!Rewrite
<1>7. Unedited' /\ Undisturbed'
  BY <1>1 DEF Unedited, Undisturbed
<1>. QED
  BY <1>1, <1>6, <1>7 DEF AnchorInv

(* A cross-check that passes vouches for a chain under its record.         *)
LEMMA AuditKeeps == AnchorInv /\ Anchor!Audit => AnchorInv'
<1>. SUFFICES ASSUME AnchorInv, Anchor!Audit
              PROVE  AnchorInv'
  OBVIOUS
<1>1. ASSUME NEW k \in Anchor!Checkable
      PROVE  Vouched([by |-> store[k], history |-> SubSeq(lines, 1, store[k].height)])
  <2>1. PICK r, s, h : r = store[k] /\ s = lines /\ h = r.height
    OBVIOUS
  <2>2. /\ Own(s) /\ h \in 0..Len(s) /\ h \in Nat \ {0} /\ Anchor!Chained(s)
        /\ Anchor!HashLine(s[h]) = r.head_hash
    <3>1. Anchor!Chained(lines) /\ Anchor!Matches(store[k]) /\ Own(lines)
      BY DEF Anchor!Audit, Anchor!AuditOK, Anchor!VerifyChain, AnchorInv, AnchorTypes
    <3>2. store[k].height \in Nat /\ store[k].height > 0
      BY DEF AnchorInv, AnchorTypes, Anchor!Checkable
    <3>3. Len(lines) \in Nat
      BY <3>1 DEF Own
    <3>. QED
      BY <2>1, <3>1, <3>2, <3>3 DEF Anchor!Matches
  <2>. DEFINE t == SubSeq(s, 1, h)
  <2>3. Own(t) /\ Len(t) = h /\ (\A i \in 1..h : t[i] = s[i]) /\ Anchor!Chained(t)
    BY <2>2, LinesCut
  <2>. HIDE DEF t
  <2>4. Vouched([by |-> r, history |-> t])
    BY <2>1, <2>2, <2>3 DEF Vouched
  <2>. QED
    BY <2>1, <2>4 DEF t
<1>2. \A x \in certified' : Vouched(x)
  BY <1>1 DEF Anchor!Audit, AnchorInv
<1>3. UNCHANGED <<lines, torn, synced, store, anchor_pc, rec, shorts, anchor_edits>>
  BY DEF Anchor!Audit, Anchor!file
<1>4. AnchorTypes' /\ Unedited' /\ Undisturbed'
  BY <1>3 DEF AnchorInv, AnchorTypes, Unedited, Undisturbed, Announced, Of
<1>. QED
  BY <1>2, <1>4 DEF AnchorInv

LEMMA AnchorKeeps == AnchorInv /\ (Anchor!Next \/ UNCHANGED Anchor!vars) => AnchorInv'
<1>. SUFFICES ASSUME AnchorInv, Anchor!Next \/ UNCHANGED Anchor!vars
              PROVE  AnchorInv'
  OBVIOUS
<1>t. /\ Own(lines) /\ Len(lines) \in Nat /\ synced \in 0..Len(lines) /\ shorts \in Nat /\ torn \in BOOLEAN
      /\ Len(lines) \in synced..Len(lines) /\ Len(lines) \in 0..Len(lines) /\ synced \in synced..Len(lines)
  BY DEF AnchorInv, AnchorTypes, Own
<1>1. ASSUME NEW e \in Events, Anchor!AppendEvent(e)
      PROVE  AnchorInv'
  <2>1. /\ Own(lines') /\ Len(lines') = Len(lines) + 1
        /\ \A i \in 1..Len(lines) : lines'[i] = lines[i]
        /\ Anchor!Chained(lines) => Anchor!Chained(lines')
    BY <1>1, LineAppended DEF Anchor!AppendEvent, AnchorInv
  <2>2. Len(lines) \in 0..Len(lines') /\ synced \in synced..Len(lines')
    BY <1>t, <2>1
  <2>. QED
    BY <1>1, <1>t, <2>1, <2>2, LinesMove DEF Anchor!AppendEvent
<1>2. CASE Anchor!ShortWrite
  BY <1>2, <1>t, LinesMove DEF Anchor!ShortWrite
<1>3. CASE Anchor!Repair
  BY <1>3, <1>t, LinesMove DEF Anchor!Repair
<1>4. CASE Anchor!Fsync
  BY <1>4, <1>t, LinesMove DEF Anchor!Fsync
<1>5. ASSUME NEW a \in Anchorers, Anchor!VerifyFirst(a) \/ Anchor!WriteAnchor(a) \/ Anchor!Crash(a)
      PROVE  AnchorInv'
  <2>1. PICK r : r = rec[a]
    OBVIOUS
  <2>2. rec = [rec EXCEPT ![a] = r] /\ r.height \in Nat
    BY <2>1 DEF AnchorInv, AnchorTypes
  <2>3. CASE Anchor!VerifyFirst(a)
    BY <2>2, <2>3, AnchorerMoves DEF Anchor!VerifyFirst, Anchor!file
  <2>4. CASE Anchor!WriteAnchor(a)
    BY <2>1, <2>2, <2>4, AnchorerMoves DEF Anchor!WriteAnchor, Anchor!MayWrite, Anchor!file
  <2>5. CASE Anchor!Crash(a)
    BY <2>2, <2>5, AnchorerMoves DEF Anchor!Crash, Anchor!file
  <2>. QED
    BY <1>5, <2>3, <2>4, <2>5
<1>6. ASSUME NEW a \in Anchorers, Anchor!ReadLines(a)
      PROVE  AnchorInv'
  <2>1. PICK r : r = Anchor!Checkpoint
    OBVIOUS
  <2>2. r.height \in Nat /\ (anchor_edits = 0 /\ shorts = 0 => Of(r, Len(lines)))
    BY <2>1, CheckpointFits DEF AnchorInv, Undisturbed
  <2>. QED
    BY <1>6, <2>1, <2>2, AnchorerMoves DEF Anchor!ReadLines, Anchor!file
<1>7. CASE Anchor!PowerLoss
  <2>1. PICK n \in synced..Len(lines) : lines' = SubSeq(lines, 1, n) /\ synced' = n
    BY <1>7 DEF Anchor!PowerLoss
  <2>2. n \in 0..Len(lines)
    BY <1>t, <2>1
  <2>3. /\ Own(lines') /\ Len(lines') = n /\ (\A i \in 1..n : lines'[i] = lines[i])
        /\ Anchor!Chained(lines) => Anchor!Chained(lines')
    BY <1>t, <2>1, <2>2, LinesCut
  <2>4. n \in 0..Len(lines') /\ synced' \in synced..Len(lines')
    BY <1>t, <2>1, <2>2, <2>3
  <2>. QED
    BY <1>7, <1>t, <2>1, <2>3, <2>4, LinesMove DEF Anchor!PowerLoss
<1>8. CASE UNCHANGED Anchor!vars
  BY <1>8 DEF Anchor!vars, AnchorInv, AnchorTypes, Unedited, Undisturbed, Announced, Of
<1>. QED
  BY <1>1, <1>2, <1>3, <1>4, <1>5, <1>6, <1>7, <1>8, RecordKeeps, RewriteKeeps, AuditKeeps
     DEF Anchor!Next

LEMMA AnchorHolds ==
  AnchorInv => Anchor!AnchoredHistoryFixed /\ Anchor!NoOrphanCheckpoint /\ Anchor!NoFalseAlarm
<1>. SUFFICES ASSUME AnchorInv
              PROVE  Anchor!AnchoredHistoryFixed /\ Anchor!NoOrphanCheckpoint /\ Anchor!NoFalseAlarm
  OBVIOUS
<1>1. ASSUME NEW x \in certified, NEW y \in certified, x.by = y.by
      PROVE  x.history = y.history
  <2>1. PICK s, t, h : s = x.history /\ t = y.history /\ h = x.by.height
    OBVIOUS
  <2>2. /\ Own(s) /\ Own(t) /\ Anchor!Chained(s) /\ Anchor!Chained(t) /\ Len(s) = h /\ Len(t) = h
        /\ h \in Nat \ {0} /\ Anchor!HashLine(s[h]) = Anchor!HashLine(t[h])
    BY <1>1, <2>1 DEF AnchorInv, Vouched
  <2>3. <<"sha256", s[h]>> = <<"sha256", t[h]>>
    BY <2>2 DEF Anchor!HashLine
  <2>4. s[h] = t[h]
    BY ONLY <2>3
  <2>. QED
    BY <2>1, <2>2, <2>4, OneHistory
<1>2. synced \in 0..Len(lines) /\ Len(lines) \in Nat
  BY DEF AnchorInv, AnchorTypes, Own
<1>3. Anchor!NoOrphanCheckpoint
  <2>1. \A i \in 1..synced : i \in 1..Len(lines)
    BY <1>2
  <2>. QED
    BY <2>1 DEF AnchorInv, Unedited, Announced, Anchor!NoOrphanCheckpoint
<1>4. Anchor!NoFalseAlarm
  <2>. SUFFICES ASSUME anchor_edits = 0, shorts = 0, Anchor!Checkable # {}
                PROVE  Anchor!AuditOK
    BY DEF Anchor!NoFalseAlarm
  <2>1. ~torn /\ Anchor!Chained(lines) /\ \A k \in 1..Len(store) : Of(store[k], synced)
    BY DEF AnchorInv, Unedited, Undisturbed
  <2>. QED
    BY <1>2, <2>1 DEF Anchor!AuditOK, Anchor!VerifyChain, Anchor!Checkable, Anchor!Matches,
       Of
<1>. QED
  BY <1>1, <1>3, <1>4 DEF Anchor!AnchoredHistoryFixed

LEMMA AnchorStays == Spec => [](moving = "anchor" => AnchorInv)
<1>. DEFINE Inv == moving = "anchor" => AnchorInv
<1>1. Init => Inv
  BY AnchorBegins DEF Init
<1>2. Inv /\ [Next]_vars => Inv'
  <2>. SUFFICES ASSUME Inv, [Next]_vars, moving' = "anchor"
                PROVE  AnchorInv'
    OBVIOUS
  <2>1. moving = "anchor" /\ AnchorInv
    BY DEF Next, vars
  <2>2. Anchor!Next \/ UNCHANGED Anchor!vars
    BY <2>1 DEF Next, vars, anchorVars, Anchor!vars
  <2>. QED
    BY <2>1, <2>2, AnchorKeeps
<1>. QED
  BY <1>1, <1>2, PTL DEF Spec

(* For any events, anchorers, faults and rewrites, whole chains computed   *)
(* afresh included: two cross-checks that passed under one record saw the  *)
(* same history, no record is stored that the chain does not announce, and *)
(* a ledger that nobody rewrote raises no alarm (ledger/anchors.py).       *)
THEOREM AnchorsHold == Spec => []AnchorSound
<1>1. (moving = "anchor" => AnchorInv) => AnchorSound
  BY AnchorHolds DEF AnchorSound
<1>. QED
  BY <1>1, AnchorStays, PTL

-----------------------------------------------------------------------------
(* Control reuse.                                                          *)

(* A bundle has one cell a trial.                                          *)
OneCellEach(b) ==
  /\ \A c \in b.cells : c.trial \in reuse_Trials
  /\ \A c, d \in b.cells : c.trial = d.trial => c = d

(* A run that imports was told what; only what was exported is reused.     *)
Loading == {"gate", "diff", "trial", "grade"}
ReuseTypes ==
  /\ Own(target) /\ diffs = [t \in reuse_Trials |-> diffs[t]]
  /\ DOMAIN snapshot.of \subseteq reuse_Trials
  /\ bundle \in bundles \/ (bundle = ControlReuse!NoBundle /\ reuse_at \notin Loading)
  /\ \A b \in bundles : OneCellEach(b)
  /\ \A i \in 1..Len(target) : target[i].kind = "control_reused" => target[i].of \in bundles

Imported(t) == ControlReuse!ReusedAt(t) # {}

(* While an import runs, a cell of its bundle is still to be taken, or in  *)
(* hand with its snapshot stashed, or on the ledger.                       *)
Importing ==
  reuse_at \in {"diff", "trial", "grade"} =>
          /\ cells \subseteq bundle.cells
          /\ \A c \in cells : ~Imported(c.trial)
          /\ reuse_at = "trial" => /\ cell \in bundle.cells \ cells
                                   /\ ~Imported(cell.trial) /\ diffs[cell.trial] = cell.diff
          /\ \A c \in bundle.cells : c \in cells \/ (reuse_at = "trial" /\ c = cell) \/ Imported(c.trial)

ControlReuseInv ==
  /\ ReuseTypes
  /\ Importing
  /\ \A t \in reuse_Trials : \A i, j \in ControlReuse!ReusedAt(t) : i = j
  /\ \A t \in reuse_Trials : \A i \in ControlReuse!ReusedAt(t) : target[i].diff = diffs[t]
  /\ \A b \in bundles : ControlReuse!AlreadyImported(b) => \A c \in b.cells : Imported(c.trial)
  /\ reuse_at = "fresh" => \A i \in 1..Len(target) : target[i].kind # "control_reused"
  /\ \A i, j \in 1..Len(target) : i < j /\ target[i].kind = "control_reused" => target[j].kind # "trial"

-----------------------------------------------------------------------------
(* What one more event is to the positions of a trial's import.            *)
LEMMA TargetGrows ==
  ASSUME Own(target), NEW e, target' = Append(target, e)
  PROVE  /\ Own(target)' /\ Len(target') = Len(target) + 1 /\ Len(target) \in Nat
         /\ \A i \in 1..Len(target) : target'[i] = target[i]
         /\ target'[Len(target')] = e
         /\ DOMAIN target = 1..Len(target) /\ DOMAIN target' = 1..Len(target')
<1>. DEFINE t == Append(target, e)
<1>1. Own(t) /\ Len(t) = Len(target) + 1
      /\ (\A i \in 1..Len(target) : t[i] = target[i]) /\ t[Len(t)] = e
  BY OneMoreOwn
<1>2. target' = t
  OBVIOUS
<1>. HIDE DEF t
<1>. QED
  BY <1>1, <1>2 DEF Own

LEMMA OtherEvents ==
  ASSUME Own(target), NEW e, target' = Append(target, e), e.kind # "reused_trial"
  PROVE  \A t \in reuse_Trials : ControlReuse!ReusedAt(t)' = ControlReuse!ReusedAt(t)
<1>. TAKE t \in reuse_Trials
<1>1. \A i \in DOMAIN target' : i \in DOMAIN target \/ i = Len(target')
  BY TargetGrows
<1>2. \A i \in DOMAIN target : i \in DOMAIN target' /\ target'[i] = target[i]
  BY TargetGrows
<1>3. target'[Len(target')] = e
  BY TargetGrows
<1>. QED
  BY <1>1, <1>2, <1>3 DEF ControlReuse!ReusedAt

(* An event other than a cell's leaves everything but the order in place.  *)
LEMMA MarkerOrNot ==
  ASSUME Own(target), NEW b
  PROVE  ControlReuse!AlreadyImported(b) <=> \E i \in 1..Len(target) : target[i] = ControlReuse!ControlReused(b)
BY DEF ControlReuse!AlreadyImported, ControlReuse!Range, Own

LEMMA ControlReuseBegins == ControlReuse!Init => ControlReuseInv
<1>. SUFFICES ASSUME ControlReuse!Init PROVE ControlReuseInv
  OBVIOUS
<1>1. target = <<>> /\ bundles = {} /\ bundle = ControlReuse!NoBundle /\ reuse_at = "idle" /\ snapshot = ControlReuse!NoExport
      /\ diffs = [t \in reuse_Trials |-> "none"]
  BY DEF ControlReuse!Init
<1>2. Own(target) /\ Len(target) = 0
  BY <1>1, EmptyOwn DEF Own
<1>3. DOMAIN target = {} /\ 1..Len(target) = {}
  BY <1>1, <1>2
<1>4. \A t \in reuse_Trials : ControlReuse!ReusedAt(t) = {}
  BY <1>3 DEF ControlReuse!ReusedAt
<1>5. DOMAIN snapshot.of = {}
  BY <1>1 DEF ControlReuse!NoExport
<1>. QED
  BY <1>1, <1>2, <1>3, <1>4, <1>5 DEF ControlReuseInv, ReuseTypes, Importing, Loading

(* Steps that leave the target's files and its run alone.                  *)
LEMMA SourceMoves ==
  ASSUME ControlReuseInv, UNCHANGED <<target, diffs, ControlReuse!run>>,
         DOMAIN snapshot'.of \subseteq reuse_Trials, bundles \subseteq bundles',
         \A b \in bundles' \ bundles : OneCellEach(b)
  PROVE  ControlReuseInv'
<1>1. bundle' = bundle /\ cells' = cells /\ cell' = cell /\ reuse_at' = reuse_at /\ target' = target /\ diffs' = diffs
  BY DEF ControlReuse!run
<1>2. \A t : ControlReuse!ReusedAt(t)' = ControlReuse!ReusedAt(t) /\ Imported(t)' = Imported(t)
  BY <1>1 DEF ControlReuse!ReusedAt, Imported
<1>3. \A b : ControlReuse!AlreadyImported(b)' = ControlReuse!AlreadyImported(b) /\ OneCellEach(b)' = OneCellEach(b)
  BY <1>1 DEF ControlReuse!AlreadyImported, OneCellEach, ControlReuse!ControlReused
<1>4. ASSUME NEW b, ControlReuse!AlreadyImported(b)
      PROVE  b \in bundles
  <2>1. Own(target) /\ \A i \in 1..Len(target) : target[i].kind = "control_reused" => target[i].of \in bundles
    BY DEF ControlReuseInv, ReuseTypes
  <2>2. PICK i \in 1..Len(target) : target[i] = ControlReuse!ControlReused(b)
    BY <1>4, <2>1, MarkerOrNot
  <2>3. target[i].kind = "control_reused" /\ target[i].of = b
    BY <2>2 DEF ControlReuse!ControlReused
  <2>. QED
    BY <2>1, <2>3
<1>. QED
  BY <1>1, <1>2, <1>3, <1>4 DEF ControlReuseInv, ReuseTypes, Importing

(* Steps of a run that write nothing.                                      *)
LEMMA RunMoves ==
  ASSUME ControlReuseInv, UNCHANGED <<ControlReuse!source, target, diffs>>,
         bundle' \in bundles \/ (bundle' = ControlReuse!NoBundle /\ reuse_at' \notin Loading), Importing',
         reuse_at' = "fresh" => \A i \in 1..Len(target) : target[i].kind # "control_reused"
  PROVE  ControlReuseInv'
<1>1. target' = target /\ diffs' = diffs /\ bundles' = bundles /\ snapshot' = snapshot
  BY DEF ControlReuse!source
<1>2. \A t : ControlReuse!ReusedAt(t)' = ControlReuse!ReusedAt(t) /\ Imported(t)' = Imported(t)
  BY <1>1 DEF ControlReuse!ReusedAt, Imported
<1>3. \A b : ControlReuse!AlreadyImported(b)' = ControlReuse!AlreadyImported(b) /\ OneCellEach(b)' = OneCellEach(b)
  BY <1>1 DEF ControlReuse!AlreadyImported, OneCellEach, ControlReuse!ControlReused
<1>. QED
  BY <1>1, <1>2, <1>3 DEF ControlReuseInv, ReuseTypes

(* A run ends.                                                             *)
LEMMA EndKeeps ==
  ASSUME ControlReuseInv, UNCHANGED <<ControlReuse!source, target, diffs>>, ControlReuse!Ends
  PROVE  ControlReuseInv'
<1>1. reuse_at' = "idle" /\ bundle' = ControlReuse!NoBundle
  BY DEF ControlReuse!Ends
<1>2. Importing' /\ reuse_at' \notin Loading
  BY <1>1 DEF Importing, Loading
<1>. QED
  BY <1>1, <1>2, RunMoves

(* The gate opens: the cells that no event names are taken.                *)
LEMMA GateKeeps ==
  ASSUME ControlReuseInv, ControlReuse!Gate
  PROVE  ControlReuseInv'
<1>1. /\ UNCHANGED <<ControlReuse!source, target, diffs>> /\ reuse_at' = "diff" /\ bundle' = bundle
      /\ cells' = {c \in bundle.cells : c.trial \notin ControlReuse!AlreadyCells}
  BY DEF ControlReuse!Gate, ControlReuse!Go
<1>2. \A t : t \in ControlReuse!AlreadyCells <=> Imported(t)
  BY DEF ControlReuse!AlreadyCells, Imported, ControlReuse!ReusedAt, ControlReuse!Range
<1>3. \A t : Imported(t)' = Imported(t)
  BY <1>1 DEF Imported, ControlReuse!ReusedAt
<1>4. Importing'
  BY <1>1, <1>2, <1>3 DEF Importing
<1>5. bundle \in bundles
  BY DEF ControlReuse!Gate, ControlReuseInv, ReuseTypes, Loading
<1>. QED
  BY <1>1, <1>4, <1>5, RunMoves

(* A cell is taken and its snapshot stashed: no event names the one that   *)
(* was beside the ledger.                                                  *)
LEMMA StashKeeps ==
  ASSUME ControlReuseInv, NEW c \in cells, ControlReuse!StashDiff(c)
  PROVE  ControlReuseInv'
<1>1. /\ reuse_at = "diff" /\ reuse_at' = "trial" /\ cells' = cells \ {c} /\ cell' = c /\ bundle' = bundle
      /\ diffs' = [diffs EXCEPT ![c.trial] = c.diff] /\ UNCHANGED <<ControlReuse!source, target>>
  BY DEF ControlReuse!StashDiff, ControlReuse!Go
<1>2. target' = target /\ bundles' = bundles /\ snapshot' = snapshot
  BY <1>1 DEF ControlReuse!source
<1>3. \A t : ControlReuse!ReusedAt(t)' = ControlReuse!ReusedAt(t) /\ Imported(t)' = Imported(t)
  BY <1>2 DEF ControlReuse!ReusedAt, Imported
<1>4. \A b : ControlReuse!AlreadyImported(b)' = ControlReuse!AlreadyImported(b) /\ OneCellEach(b)' = OneCellEach(b)
  BY <1>2 DEF ControlReuse!AlreadyImported, OneCellEach, ControlReuse!ControlReused
<1>5. /\ c \in bundle.cells /\ ~Imported(c.trial) /\ cells \subseteq bundle.cells
      /\ \A d \in cells : ~Imported(d.trial)
      /\ \A d \in bundle.cells : d \in cells \/ Imported(d.trial)
  BY <1>1 DEF ControlReuseInv, Importing
<1>6. bundle \in bundles /\ c.trial \in reuse_Trials
  BY <1>1, <1>5 DEF ControlReuseInv, ReuseTypes, OneCellEach, Loading
<1>7. /\ diffs = [t \in reuse_Trials |-> diffs[t]] /\ diffs' = [t \in reuse_Trials |-> diffs'[t]]
      /\ diffs'[c.trial] = c.diff
      /\ \A t \in reuse_Trials : Imported(t) => diffs'[t] = diffs[t]
  <2>1. diffs = [t \in reuse_Trials |-> diffs[t]]
    BY DEF ControlReuseInv, ReuseTypes
  <2>. QED
    BY <1>1, <1>5, <1>6, <2>1
<1>8. Importing'
  BY <1>1, <1>3, <1>5, <1>7 DEF Importing
<1>9. \A t \in reuse_Trials : \A i \in ControlReuse!ReusedAt(t)' : target'[i].diff = diffs'[t]
  BY <1>2, <1>3, <1>7 DEF ControlReuseInv, Imported
<1>10. ReuseTypes'
  BY <1>1, <1>2, <1>4, <1>6, <1>7 DEF ControlReuseInv, ReuseTypes
<1>. QED
  BY <1>1, <1>2, <1>3, <1>4, <1>8, <1>9, <1>10 DEF ControlReuseInv

(* An event that is not a cell's trial.                                    *)
LEMMA EventKeeps ==
  ASSUME ControlReuseInv, NEW e, target' = Append(target, e), e.kind # "reused_trial",
         UNCHANGED <<ControlReuse!source, diffs, bundle>>, Importing', reuse_at' # "fresh" \/ (reuse_at = "fresh" /\ e.kind # "control_reused"),
         e.kind = "trial" => reuse_at = "fresh", reuse_at \in Loading \/ reuse_at' \notin Loading,
         e.kind = "control_reused" => e.of \in bundles,
         \A b \in bundles : e = ControlReuse!ControlReused(b) => \A c \in b.cells : Imported(c.trial)
  PROVE  ControlReuseInv'
<1>0. Own(target)
  BY DEF ControlReuseInv, ReuseTypes
<1>1. /\ Own(target)' /\ Len(target') = Len(target) + 1 /\ Len(target) \in Nat
      /\ \A i \in 1..Len(target) : target'[i] = target[i]
      /\ target'[Len(target')] = e
      /\ \A i \in 1..Len(target') : i \in 1..Len(target) \/ i = Len(target')
  BY <1>0, TargetGrows
<1>2. \A t \in reuse_Trials : ControlReuse!ReusedAt(t)' = ControlReuse!ReusedAt(t) /\ (Imported(t)' <=> Imported(t))
  BY <1>0, OtherEvents DEF Imported
<1>3. \A t \in reuse_Trials : ControlReuse!ReusedAt(t) \subseteq 1..Len(target)
  BY <1>0 DEF Own, ControlReuse!ReusedAt
<1>4. bundles' = bundles /\ diffs' = diffs /\ bundle' = bundle /\ snapshot' = snapshot
  BY DEF ControlReuse!source
<1>5. ReuseTypes'
  <2>1. \A b : OneCellEach(b)' = OneCellEach(b)
    BY DEF OneCellEach
  <2>. QED
    BY <1>1, <1>4, <2>1 DEF ControlReuseInv, ReuseTypes
<1>6. \A t \in reuse_Trials : \A i, j \in ControlReuse!ReusedAt(t)' : i = j
  BY <1>2 DEF ControlReuseInv
<1>7. \A t \in reuse_Trials : \A i \in ControlReuse!ReusedAt(t)' : target'[i].diff = diffs'[t]
  BY <1>1, <1>2, <1>3, <1>4 DEF ControlReuseInv
<1>8. ASSUME NEW b \in bundles, ControlReuse!AlreadyImported(b)'
      PROVE  \A c \in b.cells : Imported(c.trial)'
  <2>1. PICK i \in 1..Len(target') : target'[i] = ControlReuse!ControlReused(b)
    BY <1>1, <1>8, MarkerOrNot DEF ControlReuse!AlreadyImported, ControlReuse!Range, Own,
       ControlReuse!ControlReused
  <2>2. ControlReuse!AlreadyImported(b) \/ e = ControlReuse!ControlReused(b)
    BY <1>0, <1>1, <2>1, MarkerOrNot
  <2>3. \A c \in b.cells : Imported(c.trial)
    BY <2>2 DEF ControlReuseInv
  <2>4. \A c \in b.cells : c.trial \in reuse_Trials
    BY DEF ControlReuseInv, ReuseTypes, OneCellEach
  <2>. QED
    BY <1>2, <2>3, <2>4
<1>9. reuse_at' = "fresh" => \A i \in 1..Len(target') : target'[i].kind # "control_reused"
  BY <1>1 DEF ControlReuseInv
<1>10. \A i, j \in 1..Len(target') :
         i < j /\ target'[i].kind = "control_reused" => target'[j].kind # "trial"
  <2>. SUFFICES ASSUME NEW i \in 1..Len(target'), NEW j \in 1..Len(target'), i < j,
                       target'[i].kind = "control_reused", target'[j].kind = "trial"
                PROVE  FALSE
    OBVIOUS
  <2>1. i \in 1..Len(target) /\ target[i].kind = "control_reused"
    BY <1>1
  <2>2. CASE j \in 1..Len(target)
    BY <1>1, <2>1, <2>2 DEF ControlReuseInv
  <2>3. CASE j = Len(target')
    BY <1>1, <2>1, <2>3 DEF ControlReuseInv
  <2>. QED
    BY <1>1, <2>2, <2>3
<1>. QED
  BY <1>4, <1>5, <1>6, <1>7, <1>8, <1>9, <1>10 DEF ControlReuseInv

(* The event of the cell in hand: the first of its trial, and of the       *)
(* snapshot that was stashed.                                              *)
LEMMA CellKeeps ==
  ASSUME ControlReuseInv, ControlReuse!RecordReusedTrial
  PROVE  ControlReuseInv'
<1>u. PICK u : u = cell.trial
  OBVIOUS
<1>. DEFINE e == ControlReuse!ReusedTrial(cell)
<1>1. /\ reuse_at = "trial" /\ target' = Append(target, e)
      /\ UNCHANGED <<ControlReuse!source, diffs, cells, bundle>> /\ reuse_at' \in {"grade", "diff"}
  BY DEF ControlReuse!RecordReusedTrial, ControlReuse!Go
<1>2. e.kind = "reused_trial" /\ e.trial = u /\ e.diff = cell.diff
  BY <1>u DEF ControlReuse!ReusedTrial
<1>3. cell \in bundle.cells \ cells /\ ~Imported(u) /\ diffs[u] = cell.diff
  BY <1>1, <1>u DEF ControlReuseInv, Importing
<1>4. u \in reuse_Trials /\ bundle \in bundles /\ OneCellEach(bundle)
  BY <1>1, <1>3, <1>u DEF ControlReuseInv, ReuseTypes, OneCellEach, Loading
<1>. HIDE DEF e
<1>0. Own(target)
  BY DEF ControlReuseInv, ReuseTypes
<1>5. /\ Own(target)' /\ Len(target') = Len(target) + 1 /\ Len(target) \in Nat
      /\ \A i \in 1..Len(target) : target'[i] = target[i]
      /\ target'[Len(target')] = e
      /\ \A i \in 1..Len(target') : i \in 1..Len(target) \/ i = Len(target')
      /\ DOMAIN target = 1..Len(target) /\ DOMAIN target' = 1..Len(target')
  BY <1>0, <1>1, TargetGrows
<1>6. \A i \in 1..Len(target) : i \in 1..Len(target') /\ i # Len(target')
  BY <1>5
<1>7. ControlReuse!ReusedAt(u)' = {Len(target')}
  <2>1. ControlReuse!ReusedAt(u) = {}
    BY <1>3 DEF Imported
  <2>2. Len(target') \in ControlReuse!ReusedAt(u)'
    BY <1>2, <1>5 DEF ControlReuse!ReusedAt
  <2>3. ASSUME NEW i \in ControlReuse!ReusedAt(u)', i # Len(target')
        PROVE  FALSE
    BY <1>5, <2>1, <2>3 DEF ControlReuse!ReusedAt
  <2>. QED
    BY <2>2, <2>3
<1>8. ASSUME NEW t \in reuse_Trials \ {u}
      PROVE  ControlReuse!ReusedAt(t)' = ControlReuse!ReusedAt(t)
  <2>1. ASSUME NEW i \in ControlReuse!ReusedAt(t)' PROVE i \in ControlReuse!ReusedAt(t)
    BY <1>2, <1>5, <2>1 DEF ControlReuse!ReusedAt
  <2>2. ASSUME NEW i \in ControlReuse!ReusedAt(t) PROVE i \in ControlReuse!ReusedAt(t)'
    BY <1>5, <1>6, <2>2 DEF ControlReuse!ReusedAt
  <2>. QED
    BY <2>1, <2>2
<1>9. \A t \in reuse_Trials : Imported(t)' <=> Imported(t) \/ t = u
  BY <1>7, <1>8 DEF Imported
<1>10. bundles' = bundles /\ diffs' = diffs /\ bundle' = bundle /\ snapshot' = snapshot /\ cells' = cells
  BY <1>1 DEF ControlReuse!source
<1>11. ReuseTypes'
  <2>1. \A b : OneCellEach(b)' = OneCellEach(b)
    BY DEF OneCellEach
  <2>. QED
    BY <1>2, <1>4, <1>5, <1>10, <2>1 DEF ControlReuseInv, ReuseTypes
<1>12. Importing'
  <2>1. /\ cells \subseteq bundle.cells /\ \A c \in cells : ~Imported(c.trial)
        /\ \A c \in bundle.cells : c \in cells \/ c = cell \/ Imported(c.trial)
    BY <1>1 DEF ControlReuseInv, Importing
  <2>2. \A c \in bundle.cells : c.trial \in reuse_Trials /\ (c.trial = u <=> c = cell)
    BY <1>3, <1>4, <1>u DEF OneCellEach
  <2>3. \A c \in cells : c \in bundle.cells /\ c # cell
    BY <1>3, <2>1
  <2>4. \A c \in cells : ~Imported(c.trial)'
    BY <1>9, <2>1, <2>2, <2>3
  <2>5. \A c \in bundle.cells : c \in cells \/ Imported(c.trial)'
    BY <1>9, <2>1, <2>2
  <2>6. reuse_at' # "trial"
    BY <1>1
  <2>. QED
    BY <1>10, <2>1, <2>4, <2>5, <2>6 DEF Importing
<1>13. \A t \in reuse_Trials : \A i, j \in ControlReuse!ReusedAt(t)' : i = j
  BY <1>7, <1>8 DEF ControlReuseInv
<1>14. \A t \in reuse_Trials : \A i \in ControlReuse!ReusedAt(t)' : target'[i].diff = diffs'[t]
  <2>1. ASSUME NEW t \in reuse_Trials \ {u}, NEW i \in ControlReuse!ReusedAt(t)'
        PROVE  target'[i].diff = diffs'[t]
    <3>1. i \in ControlReuse!ReusedAt(t) /\ i \in 1..Len(target)
      BY <1>5, <1>8, <2>1 DEF ControlReuse!ReusedAt
    <3>. QED
      BY <1>5, <1>10, <3>1 DEF ControlReuseInv
  <2>2. target'[Len(target')].diff = diffs'[u]
    BY <1>2, <1>3, <1>5, <1>10
  <2>3. \A i \in ControlReuse!ReusedAt(u)' : target'[i].diff = diffs'[u]
    BY <1>7, <2>2
  <2>. QED
    BY <2>1, <2>3
<1>15. ASSUME NEW b \in bundles, ControlReuse!AlreadyImported(b)'
       PROVE  \A c \in b.cells : Imported(c.trial)'
  <2>1. PICK i \in 1..Len(target') : target'[i] = ControlReuse!ControlReused(b)
    BY <1>5, <1>15 DEF ControlReuse!AlreadyImported, ControlReuse!Range,
       ControlReuse!ControlReused
  <2>2. i \in 1..Len(target)
    BY <1>2, <1>5, <2>1 DEF ControlReuse!ControlReused
  <2>3. ControlReuse!AlreadyImported(b)
    BY <1>0, <1>5, <2>1, <2>2, MarkerOrNot
  <2>4. \A c \in b.cells : c.trial \in reuse_Trials /\ Imported(c.trial)
    BY <2>3 DEF ControlReuseInv, ReuseTypes, OneCellEach
  <2>. QED
    BY <1>9, <2>4
<1>16. \A i, j \in 1..Len(target') :
         i < j /\ target'[i].kind = "control_reused" => target'[j].kind # "trial"
  <2>. SUFFICES ASSUME NEW i \in 1..Len(target'), NEW j \in 1..Len(target'), i < j,
                       target'[i].kind = "control_reused", target'[j].kind = "trial"
                PROVE  FALSE
    OBVIOUS
  <2>1. i \in 1..Len(target) /\ j \in 1..Len(target)
    BY <1>2, <1>5
  <2>. QED
    BY <1>5, <2>1 DEF ControlReuseInv
<1>. QED
  BY <1>1, <1>10, <1>11, <1>12, <1>13, <1>14, <1>15, <1>16 DEF ControlReuseInv

(* The import goes on when a grade was written.                            *)
LEMMA InHandMoves ==
  ASSUME ControlReuseInv, NEW e, target' = Append(target, e), e.kind # "reused_trial",
         reuse_at = "grade", reuse_at' = "diff", UNCHANGED <<bundle, cells>>
  PROVE  Importing'
<1>1. Own(target) /\ \A c \in bundle.cells : c.trial \in reuse_Trials
  BY DEF ControlReuseInv, ReuseTypes, OneCellEach, Loading
<1>2. \A t \in reuse_Trials : Imported(t)' <=> Imported(t)
  BY <1>1, OtherEvents DEF Imported
<1>3. /\ cells \subseteq bundle.cells /\ \A c \in cells : ~Imported(c.trial)
      /\ \A c \in bundle.cells : c \in cells \/ Imported(c.trial)
  BY DEF ControlReuseInv, Importing
<1>4. \A c \in cells : ~Imported(c.trial)'
  BY <1>1, <1>2, <1>3
<1>5. \A c \in bundle.cells : c \in cells \/ Imported(c.trial)'
  BY <1>1, <1>2, <1>3
<1>. QED
  BY <1>3, <1>4, <1>5 DEF Importing

LEMMA ControlReuseKeeps ==
  ASSUME ControlReuseInv, ControlReuse!Next \/ UNCHANGED ControlReuse!vars
  PROVE  ControlReuseInv'
<1>0. /\ \A b \in bundles : OneCellEach(b)
      /\ DOMAIN snapshot.of \subseteq reuse_Trials /\ DOMAIN ControlReuse!NoExport.of = {}
      /\ bundle \in bundles \/ (bundle = ControlReuse!NoBundle /\ reuse_at \notin Loading)
      /\ Importing
      /\ reuse_at = "fresh" => \A i \in 1..Len(target) : target[i].kind # "control_reused"
  BY DEF ControlReuseInv, ReuseTypes, ControlReuse!NoExport
<1>1. ASSUME NEW t \in reuse_Trials, ControlReuse!TrialEnds(t) \/ ControlReuse!IsGraded(t) \/ ControlReuse!Reclaim(t)
      PROVE  ControlReuseInv'
  BY <1>0, <1>1, SourceMoves DEF ControlReuse!TrialEnds, ControlReuse!IsGraded,
     ControlReuse!Reclaim
<1>2. CASE ControlReuse!ReadTrials
  <2>1. DOMAIN snapshot'.of \subseteq reuse_Trials
    BY <1>2 DEF ControlReuse!ReadTrials, ControlReuse!TrialsNow
  <2>. QED
    BY <1>2, <2>1, SourceMoves DEF ControlReuse!ReadTrials
<1>3. CASE ControlReuse!ReadGrades
  <2>1. DOMAIN snapshot'.of \subseteq reuse_Trials
    BY <1>0, <1>3 DEF ControlReuse!ReadGrades
  <2>. QED
    BY <1>3, <2>1, SourceMoves DEF ControlReuse!ReadGrades
<1>4. CASE ControlReuse!Seal
  <2>. DEFINE cs == {[trial |-> t, grade |-> snapshot.of[t], diff |-> ControlReuse!Diff(t)] : t \in DOMAIN snapshot.of}
  <2>1. PICK b : b = [head |-> Len(reuse_ledger), cells |-> cs]
    OBVIOUS
  <2>2. bundles' = bundles \cup {b} /\ snapshot' = ControlReuse!NoExport /\ UNCHANGED <<target, diffs, ControlReuse!run>>
    BY <1>4, <2>1 DEF ControlReuse!Seal
  <2>3. OneCellEach(b)
    BY <1>0, <2>1 DEF OneCellEach
  <2>. QED
    BY <1>0, <2>2, <2>3, SourceMoves
<1>5. CASE ControlReuse!Start
  <2>1. /\ reuse_at' \in {"arms", "gate"} /\ UNCHANGED <<ControlReuse!source, target, diffs>>
        /\ bundle' \in bundles \/ (bundle' = ControlReuse!NoBundle /\ reuse_at' = "arms")
    BY <1>5 DEF ControlReuse!Start
  <2>2. Importing'
    BY <2>1 DEF Importing
  <2>. QED
    BY <2>1, <2>2, RunMoves DEF Loading
<1>6. CASE ControlReuse!SkipImported
  <2>1. reuse_at' = "arms" /\ UNCHANGED <<ControlReuse!source, target, diffs, bundle>>
    BY <1>6 DEF ControlReuse!SkipImported, ControlReuse!Go
  <2>2. Importing'
    BY <2>1 DEF Importing
  <2>. QED
    BY <1>0, <2>1, <2>2, RunMoves DEF Loading
<1>7. CASE ControlReuse!Refuse \/ ControlReuse!EndRun
  BY <1>7, EndKeeps DEF ControlReuse!Refuse, ControlReuse!EndRun
<1>8. CASE ControlReuse!RecordReusedGrade
  <2>. DEFINE e == ControlReuse!ReusedGrade(cell)
  <2>1. /\ target' = Append(target, e) /\ reuse_at = "grade" /\ reuse_at' = "diff"
        /\ UNCHANGED <<ControlReuse!source, diffs, bundle, cells>>
    BY <1>8 DEF ControlReuse!RecordReusedGrade, ControlReuse!Go
  <2>2. e.kind = "reused_grade" /\ \A b : e # ControlReuse!ControlReused(b)
    BY DEF ControlReuse!ReusedGrade, ControlReuse!ControlReused
  <2>. HIDE DEF e
  <2>3. Importing'
    BY <1>0, <2>1, <2>2, InHandMoves
  <2>. QED
    BY <2>1, <2>2, <2>3, EventKeeps DEF Loading
<1>9. CASE ControlReuse!RecordControlReused
  <2>. DEFINE e == ControlReuse!ControlReused(bundle)
  <2>1. /\ target' = Append(target, e) /\ reuse_at = "diff" /\ cells = {} /\ reuse_at' = "arms"
        /\ UNCHANGED <<ControlReuse!source, diffs, bundle>>
    BY <1>9 DEF ControlReuse!RecordControlReused, ControlReuse!Go
  <2>2. e.kind = "control_reused" /\ e.of = bundle /\ \A b : e = ControlReuse!ControlReused(b) => b = bundle
    BY DEF ControlReuse!ControlReused
  <2>. HIDE DEF e
  <2>3. Importing' /\ \A c \in bundle.cells : Imported(c.trial)
    BY <1>0, <2>1 DEF Importing
  <2>. QED
    BY <1>0, <2>1, <2>2, <2>3, EventKeeps DEF Loading
<1>10. CASE ControlReuse!DropReusedArms
  <2>1. CASE "control" \in ControlReuse!ReusedArms
    BY <1>10, <2>1, EndKeeps DEF ControlReuse!DropReusedArms
  <2>2. CASE "control" \notin ControlReuse!ReusedArms
    <3>1. reuse_at' = "fresh" /\ UNCHANGED <<ControlReuse!source, target, diffs, bundle>>
      BY <1>10, <2>2 DEF ControlReuse!DropReusedArms, ControlReuse!Go
    <3>2. \A i \in 1..Len(target) : target[i].kind # "control_reused"
      BY <2>2 DEF ControlReuse!ReusedArms, ControlReuse!Range, ControlReuseInv, ReuseTypes,
         Own
    <3>3. Importing'
      BY <3>1 DEF Importing
    <3>. QED
      BY <1>0, <3>1, <3>2, <3>3, RunMoves DEF Loading
  <2>. QED
    BY <2>1, <2>2
<1>11. ASSUME NEW t \in reuse_Trials, ControlReuse!RunFresh(t)
       PROVE  ControlReuseInv'
  <2>. DEFINE e == ControlReuse!TrialEvent(t)
  <2>1. target' = Append(target, e) /\ reuse_at = "fresh" /\ UNCHANGED <<ControlReuse!source, diffs, ControlReuse!run>>
    BY <1>11 DEF ControlReuse!RunFresh
  <2>2. e.kind = "trial" /\ \A b : e # ControlReuse!ControlReused(b)
    BY DEF ControlReuse!TrialEvent, ControlReuse!ControlReused
  <2>. HIDE DEF e
  <2>3. Importing' /\ reuse_at' = "fresh" /\ bundle' = bundle
    BY <2>1 DEF Importing, ControlReuse!run
  <2>. QED
    BY <2>1, <2>2, <2>3, EventKeeps DEF Loading
<1>12. CASE ControlReuse!Drift
  BY <1>0, <1>12, SourceMoves DEF ControlReuse!Drift, ControlReuse!source
<1>13. CASE UNCHANGED ControlReuse!vars
  BY <1>0, <1>13, SourceMoves DEF ControlReuse!vars, ControlReuse!source
<1>14. CASE \E c \in cells : ControlReuse!StashDiff(c)
  BY <1>14, StashKeeps
<1>. QED
  BY <1>1, <1>2, <1>3, <1>4, <1>5, <1>6, <1>7, <1>8, <1>9, <1>10, <1>11, <1>12, <1>13,
     <1>14, GateKeeps, CellKeeps DEF ControlReuse!Next

LEMMA ControlReuseHolds == ControlReuseInv => ControlReuse!AttestedImport /\ ControlReuse!NoFreshControl
<1>. SUFFICES ASSUME ControlReuseInv PROVE ControlReuse!AttestedImport /\ ControlReuse!NoFreshControl
  OBVIOUS
<1>1. ASSUME NEW b \in bundles, ControlReuse!AlreadyImported(b), NEW c \in b.cells
      PROVE  \E i \in ControlReuse!ReusedAt(c.trial) : ControlReuse!ReusedAt(c.trial) = {i} /\ target[i].diff = diffs[c.trial]
  <2>1. c.trial \in reuse_Trials /\ Imported(c.trial)
    BY <1>1 DEF ControlReuseInv, ReuseTypes, OneCellEach
  <2>2. PICK i : i \in ControlReuse!ReusedAt(c.trial)
    BY <2>1 DEF Imported
  <2>3. ControlReuse!ReusedAt(c.trial) = {i}
    BY <2>1, <2>2 DEF ControlReuseInv
  <2>. QED
    BY <2>1, <2>2, <2>3 DEF ControlReuseInv
<1>2. DOMAIN target = 1..Len(target)
  BY DEF ControlReuseInv, ReuseTypes, Own
<1>3. ControlReuse!NoFreshControl
  BY <1>2 DEF ControlReuse!NoFreshControl, ControlReuseInv
<1>. QED
  BY <1>1, <1>3 DEF ControlReuse!AttestedImport

LEMMA ControlReuseStays == Spec => [](moving = "reuse" => ControlReuseInv)
<1>. DEFINE Inv == moving = "reuse" => ControlReuseInv
<1>1. Init => Inv
  BY ControlReuseBegins DEF Init
<1>2. Inv /\ [Next]_vars => Inv'
  <2>. SUFFICES ASSUME Inv, [Next]_vars, moving' = "reuse"
                PROVE  ControlReuseInv'
    OBVIOUS
  <2>1. moving = "reuse" /\ ControlReuseInv
    BY DEF Next, vars
  <2>2. ControlReuse!Next \/ UNCHANGED ControlReuse!vars
    BY <2>1 DEF Next, vars, reuseVars, ControlReuse!vars, ControlReuse!source, ControlReuse!run
  <2>. QED
    BY <2>1, <2>2, ControlReuseKeeps
<1>. QED
  BY <1>1, <1>2, PTL DEF Spec

(* For any trials, exports and kills between two writes of an import: of   *)
(* every bundle the target says it reused, each cell is on its ledger      *)
(* exactly once with the snapshot that lies beside it, and once the control*)
(* is reused no later event runs it again (run/reuse.py, run/api.py).      *)
THEOREM ReuseIsAttested == Spec => []ReuseSound
<1>1. (moving = "reuse" => ControlReuseInv) => ReuseSound
  BY ControlReuseHolds DEF ReuseSound
<1>. QED
  BY <1>1, ControlReuseStays, PTL
=============================================================================
