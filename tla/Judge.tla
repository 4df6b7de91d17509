------------------------------- MODULE Judge -------------------------------
(***************************************************************************)
(* `bench judge`, src/harness/judge: one process pairs the trials of the   *)
(* ledger (assemble.py), asks a provider about each pair in both orders    *)
(* (client.py), and appends one verdict a comparison under a token ceiling *)
(* (session.py): a pass over the native pairs, then one over the pairs     *)
(* with a reused control (reuse.py). It may die anywhere and be run again, *)
(* while `bench run` completes more pairs.                                 *)
(***************************************************************************)
EXTENDS Naturals, Sequences, FiniteSets, SequencesExt

CONSTANTS Pairs,          \* the (task, repetition) keys of each kind, numbered in order
          Orders,         \* "both" or "single"
          Ceiling,        \* judge.token_ceiling
          Usage,          \* tokens a call may report; 0 stands for no report
          Answers,        \* what a call may come to: a set of Replies
          Leaks,          \* keys whose packet names an arm or holds a secret
          MaxTransients,  \* bound: transient verdicts
          MaxStops,       \* bound: sessions stopped at the ceiling
          MaxFaults       \* bound: deaths of the process

KindsJudged == {"native", "reused"}

Reply(says, cites) == [says |-> says, cites |-> cites]
TransientFailures == {"timeout", "provider_error", "parse"}
TerminalFailures == {"refusal", "context_overflow"}
Replies == {Reply(says, cites) : says \in {"1", "2", "TIE", "CANT_JUDGE"}, cites \in BOOLEAN}
           \cup {Reply(says, FALSE) : says \in TransientFailures \cup TerminalFailures}

ASSUME JudgeAssumption ==
  /\ Pairs \in [KindsJudged -> SUBSET (Nat \ {0})]
  /\ Ceiling \in Nat \ {0} /\ {MaxTransients, MaxStops, MaxFaults} \subseteq Nat
  /\ Orders \in {"both", "single"}
  /\ Usage \subseteq Nat /\ Usage # {} /\ IsFiniteSet(Usage)
  /\ Answers \subseteq Replies /\ Leaks \subseteq Nat \ {0}

VARIABLES
  ledger,       \* verdicts and ceiling stops, in order
  ready,        \* per kind, the keys with both their trials on the ledger
  pass,         \* the pass of the running session, "none" when none runs
  queue,        \* the comparisons it has still to judge
  accumulated,  \* its running total of tokens
  judging,      \* the comparison in judge_pair, 0 if none
  calls,        \* the calls answered for it, in order
  faults

session == <<pass, queue, accumulated, judging, calls>>
vars == <<ledger, ready, session, faults>>

Init ==
  /\ ledger = <<>>
  /\ ready = [kind \in KindsJudged |-> {}]
  /\ pass = "none" /\ queue = {} /\ accumulated = 0 /\ judging = 0 /\ calls = <<>>
  /\ faults = 0

-----------------------------------------------------------------------------
(* The ledger. A verdict also carries what its calls said.                 *)

TokensOf(s, positions) == SumFunction([k \in positions |-> s[k].tokens])

Stop == [kind |-> "stop", of |-> 0, winner |-> "-", reason |-> "-", tokens |-> 0, said |-> <<>>]
Verdict(winner, reason, cs) ==
  [kind |-> pass, of |-> judging, winner |-> winner, reason |-> reason,
   tokens |-> TokensOf(cs, DOMAIN cs),
   said |-> [k \in DOMAIN cs |-> cs[k].says]]

IsTransient(ev) == ev.winner = "CANT_JUDGE" /\ ev.reason \in TransientFailures

Tokens(kinds) == TokensOf(ledger, {k \in DOMAIN ledger : ledger[k].kind \in kinds})
SeedAccumulated_Native == Tokens({"native"})
SeedAccumulated == Tokens(KindsJudged)

AlreadyJudged_Once(kind) == {ledger[k].of : k \in {k \in DOMAIN ledger : ledger[k].kind = kind}}
AlreadyJudged_Never(kind) == {}
AlreadyJudged(kind) ==
  {ledger[k].of : k \in {k \in DOMAIN ledger : ledger[k].kind = kind /\ ~IsTransient(ledger[k])}}

-----------------------------------------------------------------------------
(* judge_pair. Position 1 holds response A in the first call, B in the     *)
(* second; a call that fails ends the comparison at once.                  *)

Calls == IF Orders = "both" THEN 2 ELSE 1

PosToArm_Unswapped(order, says) == IF says = "1" THEN "A" ELSE "B"
PosToArm(order, says) == IF (says = "1") = (order = 1) THEN "A" ELSE "B"

MapCall(cs, order) ==
  IF cs[order].says \in {"1", "2"} THEN PosToArm(order, cs[order].says) ELSE cs[order].says

Combine(cs) ==
  LET winners == {MapCall(cs, order) : order \in DOMAIN cs}
      cited == \E order \in DOMAIN cs : cs[order].cites
  IN  IF "CANT_JUDGE" \in winners THEN Verdict("CANT_JUDGE", "judge_cant_judge", cs)
      ELSE IF winners \in {{"A"}, {"B"}}
           THEN IF cited THEN Verdict(CHOOSE w \in winners : TRUE, "-", cs)
                ELSE Verdict("CANT_JUDGE", "malformed", cs)
           ELSE Verdict("TIE", "-", cs)

(* Appending the verdict of judge_pair also ends the loop's iteration.     *)
Conclude(verdict) ==
  /\ IsTransient(verdict) => Len(SelectSeq(ledger, IsTransient)) < MaxTransients
  /\ ledger' = Append(ledger, verdict)
  /\ accumulated' = accumulated + verdict.tokens
  /\ judging' = 0 /\ calls' = <<>>
  /\ UNCHANGED <<ready, pass, queue, faults>>

Leak ==
  /\ judging \in Leaks
  /\ Conclude(Verdict("CANT_JUDGE", "leak", <<>>))

(* An answered call, with the usage it reports.                            *)
CallAnswered ==
  /\ judging # 0 /\ judging \notin Leaks /\ Len(calls) < Calls
  /\ \E reply \in Answers, tokens \in Usage :
       /\ reply.says \notin TransientFailures \cup TerminalFailures
       /\ calls' = Append(calls, [says |-> reply.says, cites |-> reply.cites, tokens |-> tokens])
  /\ UNCHANGED <<ledger, ready, pass, queue, accumulated, judging, faults>>

(* A call that fails, or whose text is no verdict: whatever it cost is not *)
(* known, and the calls before it are all that the verdict sums.           *)
CallFailed ==
  /\ judging # 0 /\ judging \notin Leaks /\ Len(calls) < Calls
  /\ \E reply \in Answers :
       /\ reply.says \in TransientFailures \cup TerminalFailures
       /\ Conclude(Verdict("CANT_JUDGE", reply.says, calls))

CombineCalls ==
  /\ judging # 0 /\ Len(calls) = Calls
  /\ Conclude(Combine(calls))

-----------------------------------------------------------------------------
(* The session.                                                            *)

Remaining(kind) == ready[kind] \ AlreadyJudged(kind)

Begin ==
  /\ pass = "none"
  /\ Len(SelectSeq(ledger, LAMBDA ev : ev = Stop)) < MaxStops
  /\ pass' = "native"
  /\ queue' = Remaining("native")
  /\ accumulated' = SeedAccumulated
  /\ UNCHANGED <<ledger, ready, judging, calls, faults>>

ReachedCeiling_ReuseAsksFirst ==
  accumulated >= Ceiling \/ (pass = "reused" /\ accumulated + Calls > Ceiling)
ReachedCeiling == accumulated >= Ceiling

StartComparison ==
  /\ pass # "none" /\ judging = 0
  /\ ~ReachedCeiling
  /\ \E c \in queue :
       /\ \A d \in queue : c <= d
       /\ judging' = c /\ queue' = queue \ {c}
  /\ UNCHANGED <<ledger, ready, pass, accumulated, calls, faults>>

SessionEnds ==
  /\ pass' = "none" /\ queue' = {} /\ accumulated' = 0 /\ judging' = 0 /\ calls' = <<>>

(* Refusing to start one more comparison ends the session: after a native  *)
(* stop the reused pass is skipped.                                        *)
StopAtCeiling ==
  /\ pass # "none" /\ judging = 0 /\ queue # {}
  /\ ReachedCeiling
  /\ ledger' = Append(ledger, Stop)
  /\ SessionEnds
  /\ UNCHANGED <<ready, faults>>

(* The reused pass continues with the native pass's running total.         *)
Carried == accumulated
ReusedPass ==
  /\ pass = "native" /\ judging = 0 /\ queue = {}
  /\ pass' = "reused"
  /\ queue' = Remaining("reused")
  /\ accumulated' = Carried
  /\ UNCHANGED <<ledger, ready, judging, calls, faults>>

Finish ==
  /\ pass = "reused" /\ judging = 0 /\ queue = {}
  /\ SessionEnds
  /\ UNCHANGED <<ledger, ready, faults>>

(* The process is killed, or a snapshot of a reused control turns out to   *)
(* be missing or modified: what was asked and not yet appended is lost.    *)
Dies ==
  /\ pass # "none" /\ faults < MaxFaults
  /\ faults' = faults + 1
  /\ SessionEnds
  /\ UNCHANGED <<ledger, ready>>

(* bench run: the second trial of a key is on the ledger.                  *)
PairCompletes(kind, c) ==
  /\ c \notin ready[kind]
  /\ ready' = [ready EXCEPT ![kind] = @ \cup {c}]
  /\ UNCHANGED <<ledger, session, faults>>

Progress ==
  \/ Begin \/ StartComparison \/ StopAtCeiling \/ ReusedPass \/ Finish
  \/ Leak \/ CallAnswered \/ CallFailed \/ CombineCalls

Next ==
  \/ Progress
  \/ Dies
  \/ \E kind \in KindsJudged : \E c \in Pairs[kind] : PairCompletes(kind, c)

(* The loop runs on while the process lives, and the operator runs         *)
(* bench judge again until nothing is left for it to do.                   *)
Spec == Init /\ [][Next]_vars /\ WF_vars(Progress)

-----------------------------------------------------------------------------
IsVerdict(ev) == ev.kind \in KindsJudged

TypeOK ==
  /\ \A ev \in ToSet(ledger) :
       IF IsVerdict(ev)
       THEN /\ ev.of \in Pairs[ev.kind] /\ ev.tokens \in Nat /\ Len(ev.said) <= Calls
            /\ ev.winner \in {"A", "B", "TIE", "CANT_JUDGE"}
       ELSE ev = Stop
  /\ \A kind \in KindsJudged : ready[kind] \subseteq Pairs[kind]
  /\ pass \in KindsJudged \cup {"none"}
  /\ pass = "none" => judging = 0 /\ queue = {}
  /\ pass # "none" => queue \cup ({judging} \ {0}) \subseteq ready[pass]
  /\ accumulated \in Nat /\ Len(calls) <= Calls /\ faults \in 0..MaxFaults

(* AC-8 with PRA-M13: whatever sessions die and resume, a comparison has   *)
(* one conclusive verdict of a kind, and everything before it was          *)
(* transient.                                                              *)
OneConclusion ==
  \A i, j \in DOMAIN ledger :
    (i < j /\ IsVerdict(ledger[i]) /\ ledger[i].kind = ledger[j].kind
     /\ ledger[i].of = ledger[j].of) => IsTransient(ledger[i])

(* F-M-J3: over both kinds and over every session, the tokens on the       *)
(* ledger stay within one comparison of the ceiling.                       *)
CeilingHolds == Tokens(KindsJudged) < Ceiling + Calls * Max(Usage)

(* A stop at the ceiling is final: no later session of either pass judges  *)
(* anything more.                                                          *)
StopIsFinal ==
  \A i, j \in DOMAIN ledger : (i < j /\ ledger[i].kind = "stop") => ~IsVerdict(ledger[j])

(* D003: with both orders, a winner is the response preferred in both of   *)
(* its positions; who answers by position ties with himself.               *)
PositionBiasTies ==
  \A ev \in ToSet(ledger) : (ev.winner \in {"A", "B"} /\ Orders = "both") =>
    ev.said = IF ev.winner = "A" THEN <<"1", "2">> ELSE <<"2", "1">>

(* Every pair is concluded at last, transient failures and deaths          *)
(* notwithstanding, unless the ceiling stopped the judge.                  *)
Concluded ==
  \/ \E ev \in ToSet(ledger) : ev.kind = "stop"
  \/ \A kind \in KindsJudged : \A c \in ready[kind] :
       \E ev \in ToSet(ledger) : ev.kind = kind /\ ev.of = c /\ ~IsTransient(ev)
EventuallyConcluded == <>[]Concluded
=============================================================================
