------------------------------ MODULE Evidence ------------------------------
(***************************************************************************)
(* The parts of the harness that decide by a computation of what they are  *)
(* given and keep no state. Each is a module of operators; a behaviour     *)
(* here puts one question to one of them, chosen among the cases that the  *)
(* module lists, and the invariants say what its answer owes. This module  *)
(* has the parts that clean a text (blind/), weigh the evidence against a  *)
(* trial (forensics/, contamination/) or grade it (grade/), beside others. *)
(***************************************************************************)
EXTENDS Naturals

CONSTANTS Null,         \* absent, not measured
          Refused,      \* an error raised instead of an answer
          Gone,         \* no file, no directory
          Ngram,        \* bound: the tokens of one overlap window
          OtherCases    \* the questions put to each of the other subjects

VARIABLES subject, question

asking == <<subject, question>>

Blind         == INSTANCE Blind
Fence         == INSTANCE GradeFence
Forensics     == INSTANCE Forensics
Contamination == INSTANCE Contamination WITH Window <- Ngram

OwnSubjects == {"blinding", "forensics", "contamination", "grading"}

ASSUME EvidenceAssumption ==
  /\ DOMAIN OtherCases \cap OwnSubjects = {}
  /\ Contamination!WindowAssumption
  /\ Null \notin Blind!Reasons   \* what is absent is no reason, no input
  /\ Null \notin Forensics!GapReasons
  /\ Null \notin Forensics!StepPairs /\ Null \notin Forensics!MetricPairs
  /\ Null \notin Fence!TRANSIENT_CANT_GRADE /\ Null \notin Fence!Dirs
  /\ Null \notin Contamination!TasksSeen /\ Null \notin Contamination!Copies

Cases(s) ==
  CASE s = "blinding"      -> Blind!BlindCases
    [] s = "forensics"     -> Forensics!ForensicsCases
    [] s = "contamination" -> Contamination!ContaminationCases
    [] s = "grading"       -> Fence!GradeFenceCases
    [] OTHER               -> OtherCases[s]

Unasked == subject \in OwnSubjects \cup DOMAIN OtherCases /\ question = Null
Ask ==
  /\ question = Null
  /\ question' \in Cases(subject)
  /\ UNCHANGED subject
Questions == Unasked /\ [][Ask]_asking

Asked(s) == subject = s /\ question # Null

-----------------------------------------------------------------------------
(* Nothing that leaves the blinding code names an arm, and it refuses what *)
(* it cannot clean (blind/core.py, judge/packet.py).                       *)
BlindingSound == Asked("blinding") => Blind!BlindSound(question)

(* Evidence against a trial: bytes that lost their commitment are silent,  *)
(* every absence is named, no measurement is made of what is missing       *)
(* (forensics/, contamination/).                                           *)
EvidenceSound ==
  /\ Asked("forensics")     => Forensics!ForensicsSound(question)
  /\ Asked("contamination") => Contamination!ContaminationSound(question)

(* A holdout's verdict is the fence's and not the tested code's, whatever  *)
(* it prints; a refusal is transient exactly when the grader could not be  *)
(* run; a baseline is decided by runs, not by outages (grade/).            *)
GradingSound == Asked("grading") => Fence!GradeFenceSound(question)
=============================================================================
