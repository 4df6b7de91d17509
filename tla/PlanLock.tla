------------------------------ MODULE PlanLock ------------------------------
(***************************************************************************)
(* src/harness/plan/lock.py: lock_experiment, run by any number of planners*)
(* on one ledger, and assert_lock, which every later stage calls first.    *)
(*                                                                         *)
(* A planner checks that the ledger holds no lock, takes an flock on the   *)
(* guard file <ledger>.planlock, checks again and appends the lock event.  *)
(* The guard is unlinked once the event is in, so later planners may lock  *)
(* another inode under the same name: an flock belongs to the inode.       *)
(* An append is one step here (module Ledger shows why it may be).         *)
(***************************************************************************)
EXTENDS Naturals, Sequences, FiniteSets

CONSTANTS Planners,    \* processes running `bench plan`
          Stages,      \* processes running a later stage (run, grade, judge...)
          Specs,       \* contents experiment.yaml may have
          Passing,     \* those that pass the parse, platform and power gates
          MaxEdits,    \* bound: edits of experiment.yaml
          MaxFaults    \* bound: crashes and failed appends

PlanLockAssumption ==
  /\ Passing \subseteq Specs /\ Specs # {}
  /\ MaxEdits \in Nat /\ MaxFaults \in Nat

VARIABLES
  spec,      \* the bytes of experiment.yaml
  locks,     \* spec_sha256 of the experiment_locked events, in ledger order
  guard,     \* the inode the name <ledger>.planlock leads to, 0 for none
  created,   \* inodes the name has had so far
  pc,        \* where each planner is inside lock_experiment
  parsed,    \* the spec each planner parsed and hashed
  gfd,       \* the inode each planner has open
  flocked,   \* the planners that hold the flock of the inode they have open
  stage,     \* where each stage is: idle, inside assert_lock, or running
  found,     \* the lock events each stage read
  view,      \* the spec each stage runs
  edits, faults

planning == <<pc, parsed, gfd, flocked>>
staging  == <<stage, found, view>>
vars == <<spec, locks, guard, created, pc, parsed, gfd, flocked,
          stage, found, view, edits, faults>>

Init ==
  /\ spec \in Specs
  /\ locks = <<>>
  /\ guard = 0 /\ created = 0
  /\ pc = [p \in Planners |-> "idle"]
  /\ parsed = [p \in Planners |-> spec]
  /\ gfd = [p \in Planners |-> 0]
  /\ flocked = {}
  /\ stage = [s \in Stages |-> "idle"]
  /\ found = [s \in Stages |-> <<>>]
  /\ view = [s \in Stages |-> spec]
  /\ edits = 0 /\ faults = 0

-----------------------------------------------------------------------------
(* lock_experiment.                                                        *)

Goto(p, where) == pc' = [pc EXCEPT ![p] = where]

(* finally: LOCK_UN and close, however the block was left.                 *)
Close_KeepsLock(p) == Goto(p, "idle") /\ UNCHANGED flocked
Close(p) == Goto(p, "idle") /\ flocked' = flocked \ {p}

(* parse_and_hash_spec: one read serves the hash and the parsed spec.      *)
ParseSpec(p) ==
  /\ pc[p] = "idle"
  /\ parsed' = [parsed EXCEPT ![p] = spec]
  /\ Goto(p, "parsed")
  /\ UNCHANGED <<spec, locks, guard, created, gfd, flocked, staging, edits, faults>>

(* The gates that read the spec, and the outer check_single_lock. A        *)
(* refusal ends the call.                                                  *)
Preflight(p) ==
  /\ pc[p] = "parsed"
  /\ Goto(p, IF parsed[p] \in Passing /\ locks = <<>> THEN "cleared" ELSE "idle")
  /\ UNCHANGED <<spec, locks, guard, created, parsed, gfd, flocked, staging, edits, faults>>

(* os.open(guard, O_WRONLY | O_CREAT)                                      *)
OpenGuard(p) ==
  /\ pc[p] = "cleared"
  /\ IF guard = 0
     THEN created' = created + 1 /\ guard' = created'
     ELSE UNCHANGED <<guard, created>>
  /\ gfd' = [gfd EXCEPT ![p] = guard']
  /\ Goto(p, "opened")
  /\ UNCHANGED <<spec, locks, parsed, flocked, staging, edits, faults>>

FlockFree(p) == \A q \in flocked : gfd[q] # gfd[p]
Flock(p) ==
  /\ pc[p] = "opened" /\ FlockFree(p)
  /\ flocked' = flocked \cup {p}
  /\ Goto(p, "flocked")
  /\ UNCHANGED <<spec, locks, guard, created, parsed, gfd, staging, edits, faults>>

(* check_single_lock again, under the flock.                               *)
Recheck(p) ==
  /\ pc[p] = "flocked"
  /\ IF locks = <<>> THEN Goto(p, "rechecked") /\ UNCHANGED flocked ELSE Close(p)
  /\ UNCHANGED <<spec, locks, guard, created, parsed, gfd, staging, edits, faults>>

(* record_experiment_locked                                                *)
LockedSha_Reread(p) == spec
LockedSha(p) == parsed[p]
RecordLock(p) ==
  /\ pc[p] = "rechecked"
  /\ locks' = Append(locks, LockedSha(p))
  /\ Goto(p, "recorded")
  /\ UNCHANGED <<spec, guard, created, parsed, gfd, flocked, staging, edits, faults>>

RecordFails(p) ==
  /\ pc[p] = "rechecked" /\ faults < MaxFaults
  /\ faults' = faults + 1
  /\ Close(p)
  /\ UNCHANGED <<spec, locks, guard, created, parsed, gfd, staging, edits>>

(* guard.unlink: only after a successful append, whatever inode is there.  *)
MayUnlink_Early(p) == pc[p] \in {"flocked", "recorded"}
MayUnlink(p) == pc[p] = "recorded"
Unlink(p) ==
  /\ MayUnlink(p) /\ guard' = 0
  /\ Goto(p, IF pc[p] = "recorded" THEN "unlinked" ELSE pc[p])
  /\ UNCHANGED <<spec, locks, created, parsed, gfd, flocked, staging, edits, faults>>

Finish(p) ==
  /\ pc[p] = "unlinked"
  /\ Close(p)
  /\ UNCHANGED <<spec, locks, guard, created, parsed, gfd, staging, edits, faults>>

(* The process dies: the kernel closes its descriptor.                     *)
Crash(p) ==
  /\ pc[p] # "idle" /\ faults < MaxFaults
  /\ faults' = faults + 1
  /\ Goto(p, "idle") /\ flocked' = flocked \ {p}
  /\ UNCHANGED <<spec, locks, guard, created, parsed, gfd, staging, edits>>

-----------------------------------------------------------------------------
(* assert_lock.                                                            *)

FindLocks(s) ==
  /\ stage[s] = "idle" /\ Len(locks) = 1
  /\ found' = [found EXCEPT ![s] = locks]
  /\ stage' = [stage EXCEPT ![s] = "found"]
  /\ UNCHANGED <<spec, locks, guard, created, planning, view, edits, faults>>

(* One read of the spec: compared with the recorded sha, and parsed.       *)
ReadSpec(s) ==
  /\ stage[s] = "found"
  /\ view' = [view EXCEPT ![s] = spec]
  /\ stage' = [stage EXCEPT ![s] = IF spec = found[s][1] THEN "asserted" ELSE "idle"]
  /\ UNCHANGED <<spec, locks, guard, created, planning, found, edits, faults>>

(* The caller goes on with LockView.spec, not with the file.               *)
RunSpec_Reread(s) == spec
RunSpec(s) == view[s]
RunStage(s) ==
  /\ stage[s] = "asserted"
  /\ view' = [view EXCEPT ![s] = RunSpec(s)]
  /\ stage' = [stage EXCEPT ![s] = "running"]
  /\ UNCHANGED <<spec, locks, guard, created, planning, found, edits, faults>>

EndStage(s) ==
  /\ stage[s] = "running"
  /\ stage' = [stage EXCEPT ![s] = "idle"]
  /\ UNCHANGED <<spec, locks, guard, created, planning, found, view, edits, faults>>

(* Somebody edits experiment.yaml, before or after it is locked.           *)
EditSpec ==
  /\ edits < MaxEdits
  /\ edits' = edits + 1
  /\ spec' \in Specs \ {spec}
  /\ UNCHANGED <<locks, guard, created, planning, staging, faults>>

Advance(p) == \/ Preflight(p) \/ OpenGuard(p) \/ Recheck(p) \/ RecordLock(p)
              \/ RecordFails(p) \/ Unlink(p) \/ Finish(p)
Assert(s)  == FindLocks(s) \/ ReadSpec(s) \/ RunStage(s) \/ EndStage(s)

Next ==
  \/ \E p \in Planners : ParseSpec(p) \/ Flock(p) \/ Advance(p) \/ Crash(p)
  \/ \E s \in Stages : Assert(s)
  \/ EditSpec

Spec == Init /\ [][Next]_vars

-----------------------------------------------------------------------------
Steps == {"idle", "parsed", "cleared", "opened", "flocked", "rechecked",
          "recorded", "unlinked"}
TypeOK ==
  /\ spec \in Specs
  /\ locks \in Seq(Specs)
  /\ created \in Nat /\ guard \in 0..created
  /\ pc \in [Planners -> Steps]
  /\ parsed \in [Planners -> Specs]
  /\ gfd \in [Planners -> 0..created]
  /\ flocked \subseteq Planners
  /\ stage \in [Stages -> {"idle", "found", "asserted", "running"}]
  /\ found \in [Stages -> Seq(Specs)]
  /\ view \in [Stages -> Specs]
  /\ edits \in 0..MaxEdits /\ faults \in 0..MaxFaults

(* lock.py PL-3: "exactly one lock per ledger", however many planners race *)
(* through the outer check, the guard, its unlinking and its re-creation.  *)
AtMostOneLock == Len(locks) <= 1

(* PL-2: what is locked is what was checked - the sha on the ledger is of  *)
(* bytes that passed the gates, although the file may change in between.   *)
LockPassedGates == \A i \in 1..Len(locks) : locks[i] \in Passing

(* PRA-M1: a stage runs the locked spec, never one swapped in between the  *)
(* sha check and the use.                                                  *)
RunsLockedSpec ==
  \A s \in Stages : stage[s] = "running" => locks = <<view[s]>>

(* Every planner that reaches the guard comes back from it, refused or     *)
(* with the lock recorded: nobody is left waiting on an inode whose holder *)
(* is gone.                                                                *)
PlannersFinish == \A p \in Planners : pc[p] = "opened" ~> pc[p] = "idle"
=============================================================================
