--------------------------- MODULE MCRunSchedule ---------------------------
(* Instances of RunSchedule small enough for TLC.                          *)
EXTENDS RunSchedule

(* Every way an attempt can end, with a cost and without. (RunAssumption   *)
(* checks that module Trial can end in each; a cost of 0 is like none.)    *)
AllAttempts ==
  {Ended("not_started", Null), Ended("adapter_fault", Null), Ended("post_engine", 1),
   Ended("infra", 1), Ended("infra", Null), Ended("proxy_dead", 1),
   Ended("recorded", 1), Ended("recorded", Null)}
=============================================================================
