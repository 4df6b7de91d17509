---------------------------- MODULE BlindReview ----------------------------
(***************************************************************************)
(* What src/harness/review promises of one comparison when up to Parallel  *)
(* requests are handled at a time: it is unblinded only after a human      *)
(* verdict and its process is scored only after the unblinding ("capture,  *)
(* then reveal", "process follows verdict + reveal"), and each request     *)
(* that passed its gates side by side with the first appends its own       *)
(* event. For Parallel = 1 that is record.py's word: one verdict, which is *)
(* blind, then one reveal.                                                 *)
(***************************************************************************)
EXTENDS Naturals

CONSTANTS Comparisons, Parallel

VARIABLES verdicts,   \* human verdicts on each comparison
          reveals,    \* unblindings of each comparison
          scores      \* human process scores of each comparison

vars == <<verdicts, reveals, scores>>

Init == verdicts = [c \in Comparisons |-> 0] /\ reveals = verdicts /\ scores = verdicts

Capture(c) ==
  /\ verdicts[c] < Parallel
  /\ verdicts' = [verdicts EXCEPT ![c] = @ + 1]
  /\ UNCHANGED <<reveals, scores>>

Reveal(c) ==
  /\ verdicts[c] > 0 /\ reveals[c] < Parallel
  /\ reveals' = [reveals EXCEPT ![c] = @ + 1]
  /\ UNCHANGED <<verdicts, scores>>

ScoreProcess(c) ==
  /\ reveals[c] > 0
  /\ scores' = [scores EXCEPT ![c] = @ + 1]
  /\ UNCHANGED <<verdicts, reveals>>

Next == \E c \in Comparisons : Capture(c) \/ Reveal(c) \/ ScoreProcess(c)
Spec == Init /\ [][Next]_vars
=============================================================================
