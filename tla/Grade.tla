------------------------------- MODULE Grade -------------------------------
(***************************************************************************)
(* `bench grade`, src/harness/grade: a pass reads which trials are         *)
(* settled (api.py), then gives every other trial one event, a grade or a  *)
(* refusal to grade (deterministic.py), out of what the grading container  *)
(* did (runners.py, isolation.py). Refusals are terminal, but for a grader *)
(* that could not be run; an operator may name terminal ones to be tried   *)
(* again. Passes may overlap, die and be repeated, while `bench run`       *)
(* appends trials and docker comes and goes.                               *)
(***************************************************************************)
EXTENDS Naturals, Sequences, FiniteSetsExt, Functions

CONSTANTS Trials,        \* trials of the experiment
          KnownTasks,    \* those whose task is in the committed task file
          WithArtifacts, \* those whose record names an artifacts path
          Graders,       \* processes that run `bench grade`
          Named,         \* what --retry-terminal may name, a set of sets of trials
          Outcomes,      \* what an attempt with a container may come to
          MaxPasses      \* bound: passes

Transient == {"grader_unavailable"}
Terminal == {"unknown_task", "artifacts_missing", "workspace_missing", "holdout_results_missing",
             "container_failure", "malformed_holdout_output", "plugin_error"}

ASSUME GradeAssumption ==
  /\ KnownTasks \subseteq Trials /\ WithArtifacts \subseteq Trials
  /\ Named \subseteq SUBSET Trials
  /\ Outcomes \subseteq {"grade"} \cup Terminal \cup Transient
  /\ MaxPasses \in Nat

VARIABLES
  ledger,   \* trials and the events about them, in order
  pc,       \* where a pass is
  skip,     \* what it does not grade
  retry,    \* the trials the operator named, then the refusals they override
  todo,     \* the trials it has still to answer for, by their positions
  began,    \* how much of the ledger it read when it began
  covered,  \* how much of it the passes that came to their end had read
  passes

pass == <<pc, skip, retry, todo, began>>
vars == <<ledger, pass, covered, passes>>

Init ==
  /\ ledger = <<>>
  /\ pc = [g \in Graders |-> "idle"]
  /\ skip = [g \in Graders |-> {}]
  /\ retry = [g \in Graders |-> <<>>]
  /\ todo = [g \in Graders |-> {}]
  /\ began = [g \in Graders |-> 0]
  /\ covered = 0 /\ passes = 0

-----------------------------------------------------------------------------
(* The ledger. A line stands for its hash, so override_of is a position;   *)
(* zero means none. `seen` is what the pass had read, for the properties.  *)

TrialEvent(t) == [kind |-> "trial", trial |-> t]
GradeEvent(t, result, override, seen) ==
  [kind |-> IF result = "grade" THEN "grade" ELSE "cant_grade",
   trial |-> t, reason |-> result, over |-> override, seen |-> seen]

IsAnswer(ev) == ev.kind \in {"grade", "cant_grade"}
IsTerminalRefusal(ev) == ev.kind = "cant_grade" /\ ev.reason \notin Transient
Settles(ev) == ev.kind = "grade" \/ IsTerminalRefusal(ev)

Positions(t, P(_)) == {i \in DOMAIN ledger : ledger[i].trial = t /\ P(ledger[i])}
Graded(t) == Positions(t, LAMBDA ev : ev.kind = "grade")
TerminalRefusals(t) == Positions(t, IsTerminalRefusal)

CompletedTrials_GradedOnly == {t \in Trials : Graded(t) # {}}
CompletedTrials == {t \in Trials : Positions(t, Settles) # {}}

TrialsNow == {i \in DOMAIN ledger : ledger[i].kind = "trial"}
Pending_Known(g) == {i \in TrialsNow : ledger[i].trial \in KnownTasks \ skip[g]}
Pending(g) == {i \in TrialsNow : ledger[i].trial \notin skip[g]}

-----------------------------------------------------------------------------
(* One attempt. The task and the artifacts are looked at before the        *)
(* container; `docker run` without a daemon exits 125 (the grader is not   *)
(* available) or, as a grader that ran and failed would, 1.                *)

GradeTrial(t) ==
  IF t \notin KnownTasks THEN {"unknown_task"}
  ELSE IF t \notin WithArtifacts THEN {"artifacts_missing"}
  ELSE Outcomes

-----------------------------------------------------------------------------
(* A pass.                                                                 *)

OverrideOf(g, t) == IF t \in DOMAIN retry[g] THEN retry[g][t] ELSE 0

Enter(g, here) == pc' = [pc EXCEPT ![g] = here]
Leave(g) ==
  /\ Enter(g, "idle")
  /\ skip' = [skip EXCEPT ![g] = {}] /\ retry' = [retry EXCEPT ![g] = <<>>]
  /\ todo' = [todo EXCEPT ![g] = {}] /\ began' = [began EXCEPT ![g] = 0]

Begin(g) ==
  /\ pc[g] = "idle" /\ passes < MaxPasses
  /\ passes' = passes + 1
  /\ skip' = [skip EXCEPT ![g] = CompletedTrials]
  /\ began' = [began EXCEPT ![g] = Len(ledger)]
  /\ \E named \in Named :
       /\ retry' = [retry EXCEPT ![g] = [t \in named |-> 0]]
       /\ Enter(g, IF named = {} THEN "preflight" ELSE "resolve")
  /\ UNCHANGED <<ledger, todo, covered>>

MayOverride_Graded(t) == TerminalRefusals(t) # {}
MayOverride(t) == Graded(t) = {} /\ TerminalRefusals(t) # {}
Overridden(t) == Max(TerminalRefusals(t))

(* --retry-terminal: each trial named must have been refused for good and  *)
(* not be graded.                                                          *)
ResolveOverrides(g) ==
  /\ pc[g] = "resolve"
  /\ \A t \in DOMAIN retry[g] : MayOverride(t)
  /\ retry' = [retry EXCEPT ![g] = [t \in DOMAIN retry[g] |-> Overridden(t)]]
  /\ skip' = [skip EXCEPT ![g] = @ \ DOMAIN retry[g]]
  /\ Enter(g, "preflight")
  /\ UNCHANGED <<ledger, todo, began, covered, passes>>

RefuseOverrides(g) ==
  /\ pc[g] = "resolve"
  /\ \E t \in DOMAIN retry[g] : ~MayOverride(t)
  /\ Leave(g)
  /\ UNCHANGED <<ledger, covered, passes>>

(* The probe finds docker up and the pass grades, or down and it marks;    *)
(* either way it lists the trials now.                                     *)
Preflight(g) ==
  /\ pc[g] = "preflight"
  /\ todo' = [todo EXCEPT ![g] = Pending(g)]
  /\ Enter(g, "grade") \/ Enter(g, "mark")
  /\ UNCHANGED <<ledger, skip, retry, began, covered, passes>>

(* The trials are answered for in the order of the ledger.                 *)
Comes(g, i) == i \in todo[g] /\ \A j \in todo[g] : i <= j
Answer(g, i, result) ==
  /\ ledger' = Append(ledger, GradeEvent(ledger[i].trial, result, OverrideOf(g, ledger[i].trial), began[g]))
  /\ todo' = [todo EXCEPT ![g] = @ \ {i}]
  /\ UNCHANGED <<pc, skip, retry, began, covered, passes>>

MarkUnavailable(g) ==
  /\ pc[g] = "mark"
  /\ \E i \in todo[g] : Comes(g, i) /\ Answer(g, i, "grader_unavailable")

Attempt(g) ==
  /\ pc[g] = "grade"
  /\ \E i \in todo[g] : Comes(g, i) /\ \E result \in GradeTrial(ledger[i].trial) : Answer(g, i, result)

Finish(g) ==
  /\ pc[g] \in {"mark", "grade"} /\ todo[g] = {}
  /\ covered' = Max({covered, began[g]})
  /\ Leave(g)
  /\ UNCHANGED <<ledger, passes>>

Dies(g) ==
  /\ pc[g] # "idle"
  /\ Leave(g)
  /\ UNCHANGED <<ledger, covered, passes>>

-----------------------------------------------------------------------------
(* `bench run`.                                                            *)

TrialEnds(t) ==
  /\ Positions(t, LAMBDA ev : ev.kind = "trial") = {}
  /\ ledger' = Append(ledger, TrialEvent(t))
  /\ UNCHANGED <<pass, covered, passes>>

Next ==
  \/ \E g \in Graders : \/ Begin(g) \/ ResolveOverrides(g) \/ RefuseOverrides(g) \/ Preflight(g)
                        \/ MarkUnavailable(g) \/ Attempt(g) \/ Finish(g) \/ Dies(g)
  \/ \E t \in Trials : TrialEnds(t)

Spec == Init /\ [][Next]_vars

-----------------------------------------------------------------------------
(* A pass has nothing to do with what it skips.                            *)
TypeOK ==
  /\ \A i \in DOMAIN ledger :
       /\ ledger[i].kind \in {"trial", "grade", "cant_grade"} /\ ledger[i].trial \in Trials
       /\ IsAnswer(ledger[i]) =>
            /\ ledger[i].reason \in IF ledger[i].kind = "grade" THEN {"grade"}
                                ELSE Terminal \cup Transient
            /\ ledger[i].over \in 0..i - 1 /\ ledger[i].seen \in 0..i - 1
  /\ pc \in [Graders -> {"idle", "resolve", "preflight", "mark", "grade"}]
  /\ skip \in [Graders -> SUBSET Trials]
  /\ \A g \in Graders :
       /\ DOMAIN retry[g] \subseteq Trials
       /\ todo[g] \subseteq Pending(g)
       /\ began[g] \in 0..Len(ledger)
  /\ covered \in 0..Len(ledger) /\ passes \in 0..MaxPasses

(* Between the events about one trial, what passes had read explains why a *)
(* second one was appended: no event follows a grade or a terminal refusal *)
(* but of a pass that began before it was there, or one that was told to   *)
(* try the trial again (api.py, the skip set and --retry-terminal).        *)
SecondOutcomesExplained ==
  \A j \in DOMAIN ledger : IsAnswer(ledger[j]) =>
    \A i \in Positions(ledger[j].trial, Settles) :
      i < j => ledger[j].seen < i \/ ledger[j].over # 0

(* An event that overrides names the latest terminal refusal of that very  *)
(* trial its pass could know, and its pass could know of no grade: a grade *)
(* is never overridden, nor an old refusal in place of the last one.       *)
OverridesAreEarned ==
  \A j \in DOMAIN ledger : IsAnswer(ledger[j]) /\ ledger[j].over # 0 =>
    /\ ledger[j].over \in Positions(ledger[j].trial, IsTerminalRefusal) /\ ledger[j].over < j
    /\ \A i \in Positions(ledger[j].trial, Settles) : i <= ledger[j].seen => i <= ledger[j].over
    /\ \A i \in Graded(ledger[j].trial) : i > ledger[j].seen

(* A pass that came to its end has left no trial it could see without an   *)
(* event: also a trial of a task nobody knows, or whose artifacts or       *)
(* workspace are gone, or that met a docker that was down.                 *)
NoTrialUnanswered ==
  \A i \in 1..covered : ledger[i].kind = "trial" =>
    Positions(ledger[i].trial, IsAnswer) # {}
=============================================================================
