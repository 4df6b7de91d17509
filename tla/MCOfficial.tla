----------------------------- MODULE MCOfficial -----------------------------
EXTENDS Official

CONSTANTS t1, t2, core, other, ours, foreign, none

Manifest(c, tasks) == [corpus |-> c, admits |-> tasks]
SomeManifests == {none, Manifest(core, {t1, t2}), Manifest(core, {t1}), Manifest(other, {t1, t2})}

Trial(t) == [kind |-> "trial", task |-> t]
Verdict(r) == [kind |-> "judge_verdict", rubric |-> r]
Calibration(s) == [kind |-> "calibration_run", corpus |-> core, status |-> s]
Probe(found) == [kind |-> "contamination_probe", found |-> found]

(* A run and its verdict, the corpus not yet calibrated.                   *)
Begun == <<Trial(t1), Verdict(ours)>>
Others == {Trial(t2), Verdict(foreign), Calibration("full-run-validated"),
           Calibration("subset-validated"), Probe({}), Probe({"alarm"}), Probe({"asymmetry"})}

(* The selfcheck needs two results, and one more changes the method.       *)
Selected == [d \in 0..20 |-> IF d <= 2 THEN "percentile" ELSE "bca"]
=============================================================================
