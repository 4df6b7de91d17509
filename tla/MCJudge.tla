------------------------------ MODULE MCJudge ------------------------------
EXTENDS Judge

(* Two native pairs, and a reused control for the first of them.           *)
SomePairs == [native |-> {1, 2}, reused |-> {1}]

(* Answers that agree, disagree or lack evidence once combined, and one    *)
(* failure of each sort.                                                   *)
SomeAnswers ==
  {Reply("1", TRUE), Reply("1", FALSE), Reply("2", FALSE), Reply("CANT_JUDGE", FALSE),
   Reply("parse", FALSE), Reply("refusal", FALSE)}
=============================================================================
