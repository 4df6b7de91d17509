--------------------------- MODULE ReadThenAppend ---------------------------
(***************************************************************************)
(* The two commands that gate an append on one read of the ledger: a human *)
(* reviewer's verdicts and reveals (Review), with nothing between the read *)
(* and the append, and `bench plan` (PlanLock), which reads again under    *)
(* the flock of a guard file. They share no state: `moving` says which of  *)
(* them runs, the other stays where it starts.                             *)
(***************************************************************************)
EXTENDS Review

CONSTANTS c1, c2, Planners, Stages, Specs, Passing, MaxEdits, MaxPlanFaults

(* One of up to five agreements is sampled, ceil(0.2 n): which one is the  *)
(* seed's choice, and a different one once there are more to choose from.  *)
Sampled == [s \in SUBSET Comparisons |->
             IF s = {} THEN {} ELSE IF c2 \in s THEN {c2} ELSE s]

(* What the judge finds of c1 puts it in every queue; c2 agrees.           *)
Unjudged == [c \in Comparisons |-> IF c = c1 THEN {"transient"} ELSE {"agrees"}]

VARIABLES moving, spec, locks, guard, created, pc, parsed, gfd, flocked,
          stage, found, view, edits, planFaults

Plan == INSTANCE PlanLock WITH faults <- planFaults, MaxFaults <- MaxPlanFaults

planVars == <<spec, locks, guard, created, pc, parsed, gfd, flocked,
              stage, found, view, edits, planFaults>>

EitherInit ==
  /\ Init /\ Plan!Init
  /\ \/ moving = "plan"
     \/ moving = "review" /\ spec \in Passing
EitherNext ==
  /\ UNCHANGED moving
  /\ \/ moving = "plan" /\ Plan!Next /\ UNCHANGED vars
     \/ moving = "review" /\ Next /\ UNCHANGED planVars

eitherVars == <<moving, vars, planVars>>
EitherSpec == EitherInit /\ [][EitherNext]_eitherVars

(* A planner that has begun keeps running, and flock wakes its waiters.    *)
EitherFairSpec ==
  /\ EitherSpec
  /\ \A p \in Planners :
       WF_eitherVars(Plan!Advance(p) /\ UNCHANGED <<moving, vars>>)
         /\ SF_eitherVars(Plan!Flock(p) /\ UNCHANGED <<moving, vars>>)

(* Every planner that reaches the guard comes back from it, refused or     *)
(* with the lock recorded: nobody is left waiting on an inode whose holder *)
(* is gone (plan/lock.py).                                                 *)
PlannersFinish == Plan!PlannersFinish
=============================================================================
