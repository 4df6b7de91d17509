------------------------------- MODULE Corpus -------------------------------
(***************************************************************************)
(* The curation of an internal corpus: `bench corpus mine | approve |      *)
(* baseline | admit | subset | calibrate`.                                 *)
(*                                                                         *)
(* Two records disagree after a crash: the manifest, a JSON file every     *)
(* command loads, changes in memory and writes back whole and without a    *)
(* lock, and the ledger, which is append-only. Commands run in processes   *)
(* of their own; any of them may be killed between two of its writes, and  *)
(* the last write may fail.                                                *)
(***************************************************************************)
EXTENDS Naturals, Sequences, FiniteSetsExt

CONSTANTS
  Cands,      \* candidate ids
  Shas,       \* content shas, one per version of a candidate
  People,     \* actors: miners, approvers and holders of a signing key
  Curators,   \* the ids the keyring registers, each with a key of its own
  Procs,      \* command processes
  MaxEvents,  \* bound: length of the ledger
  MaxStarts,  \* bound: commands that load the manifest
  Absent      \* Python's None, and "no such entry"

CorpusAssumption == Curators \subseteq People /\ MaxEvents \in Nat /\ MaxStarts \in Nat

VARIABLES
  manifest,   \* the file on disk: its entries, calibration status and subset
  ledger,     \* the events of the corpus commands
  files,      \* per candidate: the reviewed file and its embedded copy
  staged,     \* history: every <<candidate, sha, miner>> ever staged
  cmd,        \* per process: the command it runs, what it loaded, its step
  starts      \* counts the commands started, for the bound

vars == <<manifest, ledger, files, staged, cmd, starts>>

(* An entry's status and marks as in TaskEntry. A drawn subset is written   *)
(* the same whether or not its draw went to a ledger; the model remembers.  *)
Entry(s, who) == [sha |-> s, status |-> "pending-curation",
                  miner |-> who, canary |-> Absent]
NoManifest == [tasks |-> [c \in Cands |-> Absent], status |-> "none", subset |-> "none"]
Idle == [verb |-> "idle"]

Init ==
  /\ manifest = NoManifest
  /\ ledger = <<>>
  /\ files = [c \in Cands |-> [reviewed |-> Absent, embedded |-> Absent]]
  /\ staged = {}
  /\ cmd = [p \in Procs |-> Idle]
  /\ starts = 0

Record(e) == Len(ledger) < MaxEvents /\ ledger' = Append(ledger, e)
Start(p, state) ==
  /\ cmd[p] = Idle /\ cmd' = [cmd EXCEPT ![p] = state]
  /\ starts < MaxStarts /\ starts' = starts + 1
Goto(p, state) == cmd' = [cmd EXCEPT ![p] = state] /\ UNCHANGED starts
Finish(p) == Goto(p, Idle)
At(p, verb, step) == cmd[p].verb = verb /\ cmd[p].step = step
(* registry.save: the whole in-memory manifest replaces the file. *)
Save(p, m) == manifest' = m /\ Finish(p)

(***************************************************************************)
(* mine: the candidate file is written before the manifest is read, and    *)
(* stays when staging is refused.                                          *)
(***************************************************************************)
StageCandidate(m, c, s, who) == [m EXCEPT !.tasks[c] = Entry(s, who)]
Mine(p, c, s, who) ==
  /\ files' = [files EXCEPT ![c].reviewed = s]
  /\ IF manifest.tasks[c] # Absent
     THEN cmd[p] = Idle /\ UNCHANGED <<cmd, starts, staged>>
     ELSE /\ Start(p, [verb |-> "mine", step |-> "save",
                       man |-> StageCandidate(manifest, c, s, who)])
          /\ staged' = staged \cup {<<c, s, who>>}
  /\ UNCHANGED <<manifest, ledger>>
MineSave(p) ==
  /\ At(p, "mine", "save")
  /\ Save(p, cmd[p].man)
  /\ UNCHANGED <<ledger, files, staged>>

(***************************************************************************)
(* approve and baseline append one event each. An approver's name is what  *)
(* the command line says; the signature is by whoever holds the key.       *)
(***************************************************************************)
SignApproval(c, s, approver, holder) ==
  [approver |-> approver, key |-> holder, payload |-> <<c, s, approver>>]
VerifyApproval(a, key, c, s) == a.key = key /\ a.payload = <<c, s, a.approver>>
CurationApproval(c, s, approver, holder) ==
  [type |-> "curation_approval", cand |-> c, sha |-> s,
   sig |-> SignApproval(c, s, approver, holder)]
Approve(c, s, approver, holder) ==
  /\ s # Absent
  /\ Record(CurationApproval(c, s, approver, holder))
  /\ UNCHANGED <<manifest, files, staged, cmd, starts>>

(* flake_baseline: k zero-tolerance runs; an outage ledgers nothing, so    *)
(* the event carries one of two verdicts.                                  *)
FlakeBaseline(s, verdict) == [type |-> "flake_baseline", sha |-> s, verdict |-> verdict]
Baseline(s, verdict) ==
  /\ s # Absent
  /\ Record(FlakeBaseline(s, verdict))
  /\ UNCHANGED <<manifest, files, staged, cmd, starts>>

(* The last event of a kind that is about this version.                    *)
Approvals(c, s) ==
  {i \in DOMAIN ledger :
     /\ ledger[i].type = "curation_approval"
     /\ ledger[i].cand = c /\ ledger[i].sha = s}
ApprovalFor(c, s) ==
  IF Approvals(c, s) = {} THEN Absent ELSE ledger[Max(Approvals(c, s))].sig
Baselines(s) ==
  {i \in DOMAIN ledger : ledger[i].type = "flake_baseline" /\ ledger[i].sha = s}
HasCleanBaseline(s) ==
  Baselines(s) # {} /\ ledger[Max(Baselines(s))].verdict = "clean"

(***************************************************************************)
(* admit: load, check against the ledger, append, persist.                 *)
(***************************************************************************)
AdmitLoad(p, c, s, withFile) ==
  /\ withFile => files[c].reviewed # Absent
  /\ Start(p, [verb |-> "admit", step |-> "check", man |-> manifest, cand |-> c,
               sha |-> s, content |-> IF withFile THEN files[c].reviewed ELSE Absent])
  /\ UNCHANGED <<manifest, ledger, files, staged>>

(* The approval binds an identity: the key is the one registered for the   *)
(* approver it names, and the approver is not the recorded miner.          *)
CuratedBy_AnyHolder(a, c, s, miner) ==
  /\ a # Absent /\ a.approver \in Curators /\ a.payload = <<c, s, a.approver>>
  /\ miner # Absent /\ a.approver # miner
CuratedBy(a, c, s, miner) ==
  /\ a # Absent
  /\ a.approver \in Curators
  /\ VerifyApproval(a, a.approver, c, s)
  /\ miner # Absent /\ a.approver # miner
Admissible(x) ==
  LET t == x.man.tasks[x.cand]
  IN  /\ t # Absent /\ t.status # "admitted" /\ t.sha = x.sha
      /\ x.content \in {Absent, x.sha}
      /\ CuratedBy(ApprovalFor(x.cand, x.sha), x.cand, x.sha, t.miner)
      /\ HasCleanBaseline(x.sha)
Admit(m, c, content) ==
  [m EXCEPT !.tasks[c] = [m.tasks[c] EXCEPT !.status = "admitted", !.canary = content]]
AdmitCheck(p) ==
  /\ At(p, "admit", "check")
  /\ IF Admissible(cmd[p])
     THEN Goto(p, [cmd[p] EXCEPT
            !.step = "record", !.man = Admit(@, cmd[p].cand, cmd[p].content)])
     ELSE Finish(p)
  /\ UNCHANGED <<manifest, ledger, files, staged>>
TaskAdmitted(x) == [type |-> "task_admitted", cand |-> x.cand, sha |-> x.sha]
AdmitRecord(p) ==
  /\ At(p, "admit", "record")
  /\ Record(TaskAdmitted(cmd[p]))
  /\ Goto(p, [cmd[p] EXCEPT !.step = "persist"])
  /\ UNCHANGED <<manifest, files, staged>>
(* admit_with_persistence, phase 2: the embedded copy, then the manifest.  *)
AdmitEmbed(p) ==
  /\ At(p, "admit", "persist") /\ cmd[p].content # Absent
  /\ files' = [files EXCEPT ![cmd[p].cand].embedded = cmd[p].sha]
  /\ Goto(p, [cmd[p] EXCEPT !.content = Absent])
  /\ UNCHANGED <<manifest, ledger, staged>>
AdmitSave(p) ==
  /\ At(p, "admit", "persist") /\ cmd[p].content = Absent
  /\ Save(p, cmd[p].man)
  /\ UNCHANGED <<ledger, files, staged>>

(***************************************************************************)
(* subset and calibrate: load, ledger, save. `corpus subset` is given a    *)
(* ledger or is not; without one it only saves.                            *)
(***************************************************************************)
Advance(m, kind) ==
  [m EXCEPT !.status = IF kind = "full" THEN "full-run-validated"
                       ELSE IF @ = "none" THEN "subset-validated" ELSE @]
Calibrate(p, kind) ==
  /\ Start(p, [verb |-> "calibrate", step |-> "record", kind |-> kind,
               man |-> Advance(manifest, kind)])
  /\ UNCHANGED <<manifest, ledger, files, staged>>
Subset(p) ==
  /\ \E c \in Cands : manifest.tasks[c] # Absent
  /\ \E draw \in {"ledgered", "unledgered"} :
       Start(p, [verb |-> "subset", kind |-> Absent,
                 step |-> IF draw = "ledgered" THEN "record" ELSE "save",
                 man |-> [manifest EXCEPT !.subset = draw]])
  /\ UNCHANGED <<manifest, ledger, files, staged>>
CalibrationRun(x) == [type |-> "calibration_run", kind |-> x.kind, status |-> x.man.status]
SubsetDraw == [type |-> "subset_draw"]
LifecycleRecord(p) ==
  /\ \/ At(p, "calibrate", "record") /\ Record(CalibrationRun(cmd[p]))
     \/ At(p, "subset", "record") /\ Record(SubsetDraw)
  /\ Goto(p, [cmd[p] EXCEPT !.step = "save"])
  /\ UNCHANGED <<manifest, files, staged>>
LifecycleSave(p) ==
  /\ At(p, "calibrate", "save") \/ At(p, "subset", "save")
  /\ Save(p, cmd[p].man)
  /\ UNCHANGED <<ledger, files, staged>>

(* A kill, or (at a save) the OSError that admit reports and swallows.     *)
Die(p) ==
  /\ cmd[p] # Idle /\ Finish(p)
  /\ UNCHANGED <<manifest, ledger, files, staged>>

(* Bound: approvals and baselines are of versions somebody has mined.      *)
Next ==
  \/ \E c \in Cands, a, h \in People : Approve(c, files[c].reviewed, a, h)
  \/ \E c \in Cands, v \in {"clean", "quarantined"} : Baseline(files[c].reviewed, v)
  \/ \E p \in Procs :
       \/ \E c \in Cands, s \in Shas, who \in People : Mine(p, c, s, who)
       \/ \E c \in Cands, s \in Shas, b \in BOOLEAN : AdmitLoad(p, c, s, b)
       \/ \E kind \in {"subset", "full"} : Calibrate(p, kind)
       \/ MineSave(p) \/ AdmitCheck(p) \/ AdmitRecord(p) \/ AdmitEmbed(p)
       \/ AdmitSave(p) \/ Subset(p) \/ LifecycleRecord(p) \/ LifecycleSave(p)
       \/ Die(p)
Spec == Init /\ [][Next]_vars

Recorded(type) == {ledger[i] : i \in {j \in DOMAIN ledger : ledger[j].type = type}}
Admissions == {<<e.cand, e.sha>> : e \in Recorded("task_admitted")}

(***************************************************************************)
(* Every task_admitted event follows a curator's own signature for that    *)
(* version and a clean baseline of it, and somebody other than the signer  *)
(* staged that version: no order of commands, no relabelled approval and   *)
(* no concurrent staging admits a task its miner approved (admit.py,       *)
(* D-P4-3, D-P7-3).                                                        *)
(***************************************************************************)
AdmissionEarned ==
  \A i \in DOMAIN ledger : ledger[i].type = "task_admitted" =>
    LET c == ledger[i].cand
        s == ledger[i].sha
    IN  /\ \E j \in 1..(i - 1) :
             /\ ledger[j].type = "curation_approval"
             /\ ledger[j].cand = c /\ ledger[j].sha = s
             /\ ledger[j].sig.approver \in Curators
             /\ ledger[j].sig.key = ledger[j].sig.approver
             /\ \E who \in People \ {ledger[j].sig.approver} : <<c, s, who>> \in staged
        /\ \E j \in 1..(i - 1) :
             ledger[j].type = "flake_baseline" /\ ledger[j].sha = s
             /\ ledger[j].verdict = "clean"

(***************************************************************************)
(* What the manifest and the embedded copies claim was recorded first: an  *)
(* admitted entry, a calibration status and a subset drawn under a ledger  *)
(* all have their event, whichever commands overlapped, died or overwrote  *)
(* each other's manifest (api.py CO-9: "an interrupted run cannot leave    *)
(* the manifest showing a draw the chain never recorded"; a draw without   *)
(* --ledger is shown and recorded nowhere).                                *)
(***************************************************************************)
ManifestFollowsChain ==
  /\ \A c \in Cands :
       /\ manifest.tasks[c] # Absent /\ manifest.tasks[c].status = "admitted" =>
            <<c, manifest.tasks[c].sha>> \in Admissions
       /\ files[c].embedded # Absent => <<c, files[c].embedded>> \in Admissions
  /\ manifest.status = "full-run-validated" =>
       \E e \in Recorded("calibration_run") : e.kind = "full"
  /\ manifest.status # "none" => Recorded("calibration_run") # {}
  /\ manifest.subset = "ledgered" => Recorded("subset_draw") # {}

(* admit.py PRA-M11: "one attempted operation must be one admission": a    *)
(* candidate's version is admitted once. The manifest, not the ledger, is  *)
(* asked, so a re-run after a failed save records the admission again.     *)
OneAdmission ==
  \A i, j \in DOMAIN ledger :
    /\ ledger[i].type = "task_admitted" /\ ledger[j].type = "task_admitted"
    /\ ledger[i].cand = ledger[j].cand /\ ledger[i].sha = ledger[j].sha
    => i = j
=============================================================================
