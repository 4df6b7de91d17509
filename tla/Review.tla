------------------------------- MODULE Review -------------------------------
(***************************************************************************)
(* Blinded human review, src/harness/review: `bench review build`          *)
(* (build.py, sample.py) puts comparisons in front of a reviewer; verdicts *)
(* and reveals (record.py) come from the CLI or from the threads of the    *)
(* reviewer's server (serve.py, a ThreadingHTTPServer), process scores     *)
(* (process/score.py) from the CLI; and the judge may judge again what it  *)
(* could not judge at first. They share nothing but the ledger, and none   *)
(* of them holds a lock between reading it and appending to it.            *)
(***************************************************************************)
EXTENDS Naturals, Sequences, SequencesExt, FiniteSets

CONSTANTS Comparisons,
          Handlers,     \* threads or processes serving the reviewer
          Winner,       \* what the judge may find of each comparison
          Floor,        \* the seeded floor: which of a set of agreements are sampled
          MaxRetries,   \* bound: transient verdicts on a comparison
          MaxRequests,  \* bound: verdicts, reveals and scores asked for
          MaxFaults     \* bound: builds cut short

(* Beside the holdouts, a verdict agrees or differs (CANT_JUDGE differs    *)
(* too), and a CANT_JUDGE may be transient.                                *)
Winners == {"agrees", "differs", "transient"}

ASSUME ReviewAssumption ==
  /\ Winner \in [Comparisons -> SUBSET Winners]
  /\ Floor \in [SUBSET Comparisons -> SUBSET Comparisons]
  /\ \A s \in SUBSET Comparisons : Floor[s] \subseteq s /\ (Floor[s] = {} <=> s = {})
  /\ {MaxRetries, MaxRequests, MaxFaults} \subseteq Nat

VARIABLES
  ledger,    \* the events review reads, in order
  request,   \* what each handler is about to append: {}, or one event
  building,  \* a build: {}, or the one batch being built
  todo,      \* its comparisons still to be looked at
  faults

vars == <<ledger, request, building, todo, faults>>

Init ==
  /\ ledger = <<>>
  /\ request = [h \in Handlers |-> {}]
  /\ building = {} /\ todo = {}
  /\ faults = 0

-----------------------------------------------------------------------------
(* Events, and the questions record.py asks of a ledger.                   *)

JudgeVerdict(c, winner) == [kind |-> "judge_verdict", of |-> c, winner |-> winner]
PacketBuilt(c) == [kind |-> "review_packet_built", of |-> c]
Batch(cs) == [kind |-> "review_batch", ids |-> cs]
HumanVerdict(c) == [kind |-> "human_verdict", of |-> c]
ProcessScore(c) == [kind |-> "process_score", of |-> c]

Reveal(c) == [kind |-> "reveal", of |-> c]

Is(ev, kind, c) == ev.kind = kind /\ ev.of = c
Count(l, kind, c) == Cardinality({k \in DOMAIN l : Is(l[k], kind, c)})
Exists(l, kind, c) == \E k \in DOMAIN l : Is(l[k], kind, c)

(* _batch_for: the latest batch that contains the comparison.              *)
BatchesOf(l, c) == SelectSeq(l, LAMBDA ev : ev.kind = "review_batch" /\ c \in ev.ids)
BatchFor(l, c) == IF BatchesOf(l, c) = <<>> THEN {} ELSE Last(BatchesOf(l, c)).ids

-----------------------------------------------------------------------------
(* The judge: one verdict per comparison, and another while the last was   *)
(* transient (judge/session.py _already_judged).                           *)

JudgedFor(l, c) == \E k \in DOMAIN l : Is(l[k], "judge_verdict", c) /\ l[k].winner # "transient"

Judge(c) ==
  /\ ~JudgedFor(ledger, c)
  /\ \E w \in Winner[c] :
       /\ w = "transient" => Count(ledger, "judge_verdict", c) < MaxRetries
       /\ ledger' = Append(ledger, JudgeVerdict(c, w))
  /\ UNCHANGED <<request, building, todo, faults>>

-----------------------------------------------------------------------------
(* bench review build.                                                     *)

(* select_for_review: one record for every judge verdict on the ledger;    *)
(* all that disagree or could not be judged, and the floor of the rest.    *)
Judged(l, winners) ==
  {c \in Comparisons : \E w \in winners : JudgeVerdict(c, w) \in ToSet(l)}
Mandatory(l) == Judged(l, {"differs", "transient"})
Selected(l) == Mandatory(l) \cup Floor[Judged(l, {"agrees"})]

Select ==
  /\ building = {} /\ Selected(ledger) # {}
  /\ building' = {Selected(ledger)}
  /\ todo' = Selected(ledger)
  /\ UNCHANGED <<ledger, request, faults>>

(* One packet event per comparison, once and for all.                      *)
BuildItem(c) ==
  /\ c \in todo
  /\ todo' = todo \ {c}
  /\ ledger' = IF Exists(ledger, "review_packet_built", c) THEN ledger
               ELSE Append(ledger, PacketBuilt(c))
  /\ UNCHANGED <<request, building, faults>>

(* The queue as a unit; an identical re-selection appends nothing.         *)
LatestBatch(l) ==
  LET batches == SelectSeq(l, LAMBDA ev : ev.kind = "review_batch")
  IN  IF batches = <<>> THEN {} ELSE Last(batches).ids

BatchReady_Early == TRUE
BatchReady == todo = {}
RecordBatch ==
  \E ids \in building :
    /\ BatchReady
    /\ ledger' = IF LatestBatch(ledger) = ids THEN ledger ELSE Append(ledger, Batch(ids))
    /\ building' = {} /\ todo' = {}
    /\ UNCHANGED <<request, faults>>

BuildDies ==
  /\ building # {} /\ faults < MaxFaults
  /\ faults' = faults + 1
  /\ building' = {} /\ todo' = {}
  /\ UNCHANGED <<ledger, request>>

-----------------------------------------------------------------------------
(* A request: the gates, over one read of the ledger, and then the append. *)
(* A request that is refused changes nothing.                              *)

MayCapture_Again(l, c) ==
  /\ Exists(l, "review_packet_built", c) /\ Exists(l, "judge_verdict", c)
  /\ ~Exists(l, "reveal", c)
MayCapture(l, c) ==
  /\ Exists(l, "review_packet_built", c) /\ Exists(l, "judge_verdict", c)
  /\ ~Exists(l, "reveal", c)
  /\ ~Exists(l, "human_verdict", c)

MayReveal(l, c) ==
  /\ ~Exists(l, "reveal", c)
  /\ Exists(l, "human_verdict", c)
  /\ Exists(l, "review_packet_built", c)
  /\ \A d \in BatchFor(l, c) : Exists(l, "human_verdict", d)

MayScore(l, c) == Exists(l, "reveal", c)

Answers == {"human_verdict", "reveal", "process_score"}
RequestsLeft ==
  Len(SelectSeq(ledger, LAMBDA ev : ev.kind \in Answers))
    + Cardinality({h \in Handlers : request[h] # {}}) < MaxRequests

Ask(h, ev) ==
  /\ request[h] = {} /\ RequestsLeft
  /\ request' = [request EXCEPT ![h] = {ev}]
  /\ UNCHANGED <<ledger, building, todo, faults>>

AskCapture(h, c) == MayCapture(ledger, c) /\ Ask(h, HumanVerdict(c))
AskReveal(h, c) == MayReveal(ledger, c) /\ Ask(h, Reveal(c))
AskScore(h, c) == MayScore(ledger, c) /\ Ask(h, ProcessScore(c))

Answer(h) ==
  \E ev \in request[h] :
    /\ ledger' = Append(ledger, ev)
    /\ request' = [request EXCEPT ![h] = {}]
    /\ UNCHANGED <<building, todo, faults>>

Next ==
  \/ \E c \in Comparisons : Judge(c) \/ BuildItem(c)
  \/ Select \/ RecordBatch \/ BuildDies
  \/ \E h \in Handlers :
       \/ \E c \in Comparisons : AskCapture(h, c) \/ AskReveal(h, c) \/ AskScore(h, c)
       \/ Answer(h)

Spec == Init /\ [][Next]_vars

-----------------------------------------------------------------------------
(* Comparison by comparison, capture comes before reveal and reveal before *)
(* the process score, and a comparison gets no more verdicts, and no more  *)
(* reveals, than requests are handled in parallel (record.py RV-1, RV-8,   *)
(* AC-4; process/score.py).                                                *)
Blind == INSTANCE BlindReview WITH
  Parallel <- Cardinality(Handlers),
  verdicts <- [c \in Comparisons |-> Count(ledger, "human_verdict", c)],
  reveals <- [c \in Comparisons |-> Count(ledger, "reveal", c)],
  scores <- [c \in Comparisons |-> Count(ledger, "process_score", c)]
CaptureThenReveal == Blind!Spec

(* record.py RV-1: "exactly one human verdict per comparison". The gate    *)
(* reads the ledger before the append, and nothing keeps two threads of    *)
(* the server, or it and the CLI, apart.                                   *)
OneVerdict == \A c \in Comparisons : Count(ledger, "human_verdict", c) <= 1

Positions(kind) == {k \in 1..Len(ledger) : ledger[k].kind = kind}

(* A queue can always be finished, and its reveals unlocked: whatever      *)
(* builds and reviewers interleave or die, each comparison of a recorded   *)
(* batch carries its verdict or can still be given one - it has its packet *)
(* event, a judge verdict, and was not unblinded first.                    *)
QueuesCanFinish ==
  \A k \in Positions("review_batch") : \A c \in ledger[k].ids :
    Exists(ledger, "human_verdict", c) \/ MayCapture(ledger, c)
=============================================================================
