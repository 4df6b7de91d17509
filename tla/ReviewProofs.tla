---------------------------- MODULE ReviewProofs ----------------------------
(***************************************************************************)
(* Proofs about Review, for any comparisons, judge, floor and number of    *)
(* builds, requests and deaths: queues can be finished whoever serves the  *)
(* reviewer, and any finite number of handlers implements BlindReview.     *)
(***************************************************************************)
EXTENDS Review, SequenceLemmas

Typed(l) == l \in Seq({l[k] : k \in DOMAIN l})

(* What an append changes of the questions asked of a ledger.              *)
LEMMA Grown ==
  ASSUME NEW l, Typed(l), NEW e
  PROVE  /\ Typed(Append(l, e)) /\ Len(Append(l, e)) = Len(l) + 1 /\ Len(l) \in Nat
         /\ DOMAIN l = 1..Len(l) /\ DOMAIN Append(l, e) = 1..(Len(l) + 1)
         /\ \A k \in 1..Len(l) : Append(l, e)[k] = l[k]
         /\ Append(l, e)[Len(l) + 1] = e
<1> DEFINE q == Append(l, e)
<1>1. /\ q \in Seq({q[i] : i \in DOMAIN q}) /\ Len(q) = Len(l) + 1
      /\ \A k \in 1..Len(l) : q[k] = l[k]
      /\ q[Len(q)] = e
  BY AppendOwn DEF Typed
<1>2. Len(l) \in Nat /\ DOMAIN l = 1..Len(l)
  BY DEF Typed
<1>3. DOMAIN q = 1..Len(q)
  BY <1>1
<1>. HIDE DEF q
<1>4. Typed(q) /\ DOMAIN q = 1..(Len(l) + 1) /\ q[Len(l) + 1] = e
  BY <1>1, <1>3 DEF Typed
<1>. QED  BY <1>1, <1>2, <1>4 DEF q

LEMMA ExistsGrown ==
  ASSUME NEW l, Typed(l), NEW e, NEW kind, NEW c
  PROVE  Exists(Append(l, e), kind, c) <=> (Exists(l, kind, c) \/ Is(e, kind, c))
<1> DEFINE q == Append(l, e)
<1>1. /\ Len(l) \in Nat /\ DOMAIN l = 1..Len(l) /\ DOMAIN q = 1..(Len(l) + 1)
      /\ \A k \in 1..Len(l) : q[k] = l[k]
      /\ q[Len(l) + 1] = e
  BY Grown
<1>. HIDE DEF q
<1>2. \A k \in 1..(Len(l) + 1) : k \in 1..Len(l) \/ k = Len(l) + 1
  BY <1>1
<1>3. ASSUME Exists(q, kind, c) PROVE Exists(l, kind, c) \/ Is(e, kind, c)
  BY <1>1, <1>2, <1>3 DEF Exists
<1>4. ASSUME Exists(l, kind, c) PROVE Exists(q, kind, c)
  <2>1. PICK k \in 1..Len(l) : Is(l[k], kind, c)
    BY <1>1, <1>4 DEF Exists
  <2>2. k \in 1..(Len(l) + 1) /\ q[k] = l[k]
    BY <1>1
  <2>. QED  BY <1>1, <2>1, <2>2 DEF Exists
<1>5. ASSUME Is(e, kind, c) PROVE Exists(q, kind, c)
  <2>1. Len(l) + 1 \in 1..(Len(l) + 1)
    BY <1>1
  <2>. QED  BY <1>1, <1>5, <2>1 DEF Exists
<1>. QED  BY <1>3, <1>4, <1>5 DEF q

LEMMA CountGrown ==
  ASSUME NEW l, Typed(l), NEW e, NEW kind, NEW c
  PROVE  /\ Count(l, kind, c) \in Nat
         /\ Exists(l, kind, c) <=> Count(l, kind, c) # 0
         /\ Count(Append(l, e), kind, c) = IF Is(e, kind, c) THEN Count(l, kind, c) + 1
                                           ELSE Count(l, kind, c)
<1> DEFINE q == Append(l, e)
           P == {k \in 1..Len(l) : Is(l[k], kind, c)}
           R == {k \in 1..(Len(l) + 1) : Is(q[k], kind, c)}
<1>1. /\ Len(l) \in Nat /\ DOMAIN l = 1..Len(l) /\ DOMAIN q = 1..(Len(l) + 1)
      /\ \A k \in 1..Len(l) : q[k] = l[k]
      /\ q[Len(l) + 1] = e
  BY Grown
<1>2. Count(l, kind, c) = Cardinality(P) /\ Count(q, kind, c) = Cardinality(R)
  BY <1>1 DEF Count
<1>3. IsFiniteSet(P) /\ Cardinality(P) \in Nat
  <2>1. IsFiniteSet(1..Len(l))
    BY <1>1, FS_Interval
  <2>. QED  BY <2>1, FS_Subset, FS_CardinalityType
<1>4. Exists(l, kind, c) <=> P # {}
  BY <1>1 DEF Exists
<1>5. P = {} <=> Cardinality(P) = 0
  BY <1>3, FS_EmptySet
<1>6. R = IF Is(e, kind, c) THEN P \cup {Len(l) + 1} ELSE P
  BY <1>1
<1>7. Len(l) + 1 \notin P
  BY <1>1
<1>8. Cardinality(P \cup {Len(l) + 1}) = Cardinality(P) + 1
  BY <1>3, <1>7, FS_AddElement
<1>. HIDE DEF P, R
<1>. QED  BY <1>2, <1>3, <1>4, <1>5, <1>6, <1>8 DEF q

-----------------------------------------------------------------------------
(* Queues. A comparison gets into one because it was judged, and into a    *)
(* recorded one after its packet event; nothing is ever taken back, and it *)
(* is unblinded only once its verdict is there, and scored only after that.*)
Judgeable(l, c) == Exists(l, "review_packet_built", c) /\ Exists(l, "judge_verdict", c)

Sound(l) ==
  /\ Typed(l)
  /\ \A c : Exists(l, "reveal", c) => Exists(l, "human_verdict", c)
  /\ \A k \in 1..Len(l) : l[k].kind = "review_batch" => \A c \in l[k].ids : Judgeable(l, c)

Prepared(l, b, t) ==
  \A ids \in b : \A c \in ids :
    /\ Exists(l, "judge_verdict", c)
    /\ c \notin t => Exists(l, "review_packet_built", c)

Asked(l, r) ==
  \A h \in Handlers : \A ev \in r[h] :
    /\ ev.kind \in Answers /\ ev.of \in Comparisons
    /\ ev.kind = "reveal" => Exists(l, "human_verdict", ev.of)
    /\ ev.kind = "process_score" => Exists(l, "reveal", ev.of)

QueueInv ==
  /\ Sound(ledger) /\ Prepared(ledger, building, todo) /\ Asked(ledger, request)
  /\ request = [h \in Handlers |-> request[h]]

(* Everything that is known of a ledger is known of a longer one.          *)
LEMMA QueueGrows ==
  ASSUME Sound(ledger), NEW e,
         e.kind = "reveal" => Exists(ledger, "human_verdict", e.of),
         e.kind = "review_batch" => \A c \in e.ids : Judgeable(ledger, c)
  PROVE  /\ Sound(Append(ledger, e))
         /\ \A b, t : Prepared(ledger, b, t) => Prepared(Append(ledger, e), b, t)
         /\ \A r : Asked(ledger, r) => Asked(Append(ledger, e), r)
<1> DEFINE q == Append(ledger, e)
<1>0. Typed(ledger)
  BY DEF Sound
<1>1. /\ Typed(q) /\ Len(q) = Len(ledger) + 1 /\ Len(ledger) \in Nat
      /\ \A k \in 1..Len(ledger) : q[k] = ledger[k]
      /\ q[Len(ledger) + 1] = e
  BY <1>0, Grown
<1>2. \A kind, c : Exists(q, kind, c) <=> (Exists(ledger, kind, c) \/ Is(e, kind, c))
  BY <1>0, ExistsGrown
<1>. HIDE DEF q
<1>3. \A c : Judgeable(ledger, c) => Judgeable(q, c)
  BY <1>2 DEF Judgeable
<1>4. Sound(q)
  <2>1. \A c : Exists(q, "reveal", c) => Exists(q, "human_verdict", c)
    BY <1>2 DEF Sound, Is
  <2>2. ASSUME NEW k \in 1..Len(q), q[k].kind = "review_batch", NEW c \in q[k].ids
        PROVE  Judgeable(q, c)
    <3>1. CASE k \in 1..Len(ledger)
      <4>1. q[k] = ledger[k]
        BY <1>1, <3>1
      <4>. QED  BY <1>3, <2>2, <3>1, <4>1 DEF Sound
    <3>2. CASE k = Len(ledger) + 1
      BY <1>1, <1>3, <2>2, <3>2
    <3>. QED  BY <1>1, <3>1, <3>2
  <2>. QED  BY <1>1, <2>1, <2>2 DEF Sound
<1>5. \A b, t : Prepared(ledger, b, t) => Prepared(q, b, t)
  BY <1>2 DEF Prepared
<1>6. \A r : Asked(ledger, r) => Asked(q, r)
  BY <1>2 DEF Asked
<1>. QED  BY <1>4, <1>5, <1>6 DEF q

LEMMA InitQueue == Init => QueueInv
<1> SUFFICES ASSUME Init PROVE QueueInv
  OBVIOUS
<1>1. Typed(ledger) /\ Len(ledger) = 0 /\ DOMAIN ledger = {}
  BY EmptyOwn DEF Init, Typed
<1>2. Sound(ledger)
  BY <1>1 DEF Sound, Exists
<1>. QED  BY <1>2 DEF Init, QueueInv, Prepared, Asked

(* What a build selects has been judged.                                   *)
LEMMA SelectedJudged ==
  ASSUME NEW c \in Selected(ledger)
  PROVE  Exists(ledger, "judge_verdict", c)
<1>1. PICK ws : c \in Judged(ledger, ws)
  <2>1. Judged(ledger, {"agrees"}) \in SUBSET Comparisons
    BY DEF Judged
  <2>2. Floor[Judged(ledger, {"agrees"})] \subseteq Judged(ledger, {"agrees"})
    BY <2>1, ReviewAssumption
  <2>. QED  BY <2>2 DEF Selected, Mandatory
<1>2. PICK w : JudgeVerdict(c, w) \in ToSet(ledger)
  BY <1>1 DEF Judged
<1>3. PICK k \in DOMAIN ledger : ledger[k] = JudgeVerdict(c, w)
  BY <1>2 DEF ToSet
<1>. QED  BY <1>3 DEF Exists, Is, JudgeVerdict

LEMMA StepQueue == QueueInv /\ [Next]_vars => QueueInv'
<1> SUFFICES ASSUME QueueInv, [Next]_vars PROVE QueueInv'
  OBVIOUS
<1>0. /\ Sound(ledger) /\ Prepared(ledger, building, todo) /\ Asked(ledger, request)
      /\ request = [h \in Handlers |-> request[h]]
  BY DEF QueueInv
<1>1. ASSUME NEW c \in Comparisons, Judge(c) PROVE QueueInv'
  <2>1. PICK w : ledger' = Append(ledger, JudgeVerdict(c, w))
    BY <1>1 DEF Judge
  <2>2. JudgeVerdict(c, w).kind = "judge_verdict"
    BY DEF JudgeVerdict
  <2>3. UNCHANGED <<request, building, todo>>
    BY <1>1 DEF Judge
  <2>4. Sound(ledger') /\ Prepared(ledger', building, todo) /\ Asked(ledger', request)
    BY <1>0, <2>1, <2>2, QueueGrows
  <2>. QED  BY <1>0, <2>3, <2>4 DEF QueueInv
<1>2. ASSUME NEW c \in Comparisons, BuildItem(c) PROVE QueueInv'
  <2>1. UNCHANGED <<request, building>> /\ todo' = todo \ {c}
    BY <1>2 DEF BuildItem
  <2>2. /\ Sound(ledger') /\ Prepared(ledger', building, todo) /\ Asked(ledger', request)
        /\ Exists(ledger', "review_packet_built", c)
    <3>1. CASE Exists(ledger, "review_packet_built", c)
      <4>1. ledger' = ledger
        BY <1>2, <3>1 DEF BuildItem
      <4>. QED  BY <1>0, <3>1, <4>1
    <3>2. CASE ~Exists(ledger, "review_packet_built", c)
      <4>1. ledger' = Append(ledger, PacketBuilt(c))
        BY <1>2, <3>2 DEF BuildItem
      <4>2. Is(PacketBuilt(c), "review_packet_built", c) /\ PacketBuilt(c).kind = "review_packet_built"
        BY DEF Is, PacketBuilt
      <4>3. Exists(ledger', "review_packet_built", c)
        BY <1>0, <4>1, <4>2, ExistsGrown DEF Sound
      <4>. QED  BY <1>0, <4>1, <4>2, <4>3, QueueGrows
    <3>. QED  BY <3>1, <3>2
  <2>3. Prepared(ledger', building', todo')
    BY <2>1, <2>2 DEF Prepared
  <2>. QED  BY <1>0, <2>1, <2>2, <2>3 DEF QueueInv
<1>3. CASE Select
  <2>1. /\ UNCHANGED <<ledger, request>> /\ building' = {Selected(ledger)} /\ todo' = Selected(ledger)
    BY <1>3 DEF Select
  <2>2. Prepared(ledger, {Selected(ledger)}, Selected(ledger))
    BY SelectedJudged DEF Prepared
  <2>. QED  BY <1>0, <2>1, <2>2 DEF QueueInv
<1>4. CASE RecordBatch
  <2>1. PICK ids \in building :
          /\ todo = {}
          /\ ledger' = IF LatestBatch(ledger) = ids THEN ledger ELSE Append(ledger, Batch(ids))
          /\ building' = {} /\ request' = request
    BY <1>4 DEF RecordBatch, BatchReady
  <2>2. Batch(ids).kind = "review_batch" /\ Batch(ids).ids = ids
    BY DEF Batch
  <2>3. \A c \in ids : Judgeable(ledger, c)
    BY <1>0, <2>1 DEF Prepared, Judgeable
  <2>4. Sound(ledger') /\ Asked(ledger', request)
    <3>1. CASE ledger' = ledger
      BY <1>0, <3>1
    <3>2. CASE ledger' = Append(ledger, Batch(ids))
      BY <1>0, <2>2, <2>3, <3>2, QueueGrows
    <3>. QED  BY <2>1, <3>1, <3>2
  <2>. QED  BY <1>0, <2>1, <2>4 DEF QueueInv, Prepared
<1>5. CASE BuildDies
  BY <1>0, <1>5 DEF BuildDies, QueueInv, Prepared
<1>6. ASSUME NEW h \in Handlers, NEW c \in Comparisons,
             AskCapture(h, c) \/ AskReveal(h, c) \/ AskScore(h, c)
      PROVE  QueueInv'
  <2>1. PICK ev : /\ Ask(h, ev) /\ ev.kind \in Answers /\ ev.of = c
                  /\ ev.kind = "reveal" => Exists(ledger, "human_verdict", c)
                  /\ ev.kind = "process_score" => Exists(ledger, "reveal", c)
    BY <1>6 DEF AskCapture, AskReveal, AskScore, HumanVerdict, Reveal, ProcessScore, MayReveal,
       MayScore, Answers
  <2>2. UNCHANGED <<ledger, building, todo>> /\ request' = [request EXCEPT ![h] = {ev}]
    BY <2>1 DEF Ask
  <2>3. Asked(ledger, request')
    BY <1>0, <2>1, <2>2 DEF Asked
  <2>4. request' = [g \in Handlers |-> request'[g]]
    BY <1>0, <2>2
  <2>. QED  BY <1>0, <2>2, <2>3, <2>4 DEF QueueInv
<1>7. ASSUME NEW h \in Handlers, Answer(h) PROVE QueueInv'
  <2>1. PICK ev \in request[h] : ledger' = Append(ledger, ev)
    BY <1>7 DEF Answer
  <2>2. UNCHANGED <<building, todo>> /\ request' = [request EXCEPT ![h] = {}]
    BY <1>7 DEF Answer
  <2>3. ev.kind \in Answers /\ (ev.kind = "reveal" => Exists(ledger, "human_verdict", ev.of))
    BY <1>0, <2>1 DEF Asked
  <2>4. Sound(ledger') /\ Prepared(ledger', building, todo) /\ Asked(ledger', request)
    BY <1>0, <2>1, <2>3, QueueGrows DEF Answers
  <2>5. Asked(ledger', request')
    BY <1>0, <2>2, <2>4 DEF Asked
  <2>6. request' = [g \in Handlers |-> request'[g]]
    BY <1>0, <2>2
  <2>. QED  BY <2>2, <2>4, <2>5, <2>6 DEF QueueInv
<1>8. CASE UNCHANGED vars
  BY <1>0, <1>8 DEF vars, QueueInv
<1>. QED  BY <1>1, <1>2, <1>3, <1>4, <1>5, <1>6, <1>7, <1>8 DEF Next

(* Whoever serves the reviewer, and whatever builds and answers interleave *)
(* or die, no recorded queue can get stuck (review/build.py, record.py).   *)
THEOREM QueuesStayFinishable == Spec => []QueuesCanFinish
<1>1. QueueInv => QueuesCanFinish
  BY DEF QueueInv, Sound, QueuesCanFinish, Positions, Judgeable, MayCapture
<1>. QED  BY <1>1, InitQueue, StepQueue, PTL DEF Spec

-----------------------------------------------------------------------------
(* Handlers in parallel. Each holds one request at most, and asks for a    *)
(* verdict or a reveal only while there is none: the events of a kind and  *)
(* the handlers about to append another are never more than the handlers.  *)
Captured(l) == [c \in Comparisons |-> Count(l, "human_verdict", c)]
Revealed(l) == [c \in Comparisons |-> Count(l, "reveal", c)]
Scored(l) == [c \in Comparisons |-> Count(l, "process_score", c)]

Asking(r, kind, c) == {h \in Handlers : \E ev \in r[h] : Is(ev, kind, c)}
Bounded(l, r, kind, c) ==
  Count(l, kind, c) + Cardinality(Asking(r, kind, c)) <= Cardinality(Handlers)
Room(l, r) ==
  \A c \in Comparisons : Bounded(l, r, "human_verdict", c) /\ Bounded(l, r, "reveal", c)

BlindInv == QueueInv /\ Room(ledger, request)

LEMMA AskingFinite ==
  ASSUME IsFiniteSet(Handlers), NEW r, NEW kind, NEW c
  PROVE  /\ IsFiniteSet(Asking(r, kind, c)) /\ Cardinality(Asking(r, kind, c)) \in Nat
         /\ Cardinality(Handlers) \in Nat
         /\ Cardinality(Asking(r, kind, c)) <= Cardinality(Handlers)
<1>1. Asking(r, kind, c) \in SUBSET Handlers
  BY DEF Asking
<1>2. /\ IsFiniteSet(Asking(r, kind, c))
      /\ Cardinality(Asking(r, kind, c)) <= Cardinality(Handlers)
  BY <1>1, FS_Subset
<1>. QED  BY <1>2, FS_CardinalityType

(* A step of a build or of the judge, in the eyes of BlindReview: its      *)
(* event counts for nothing here.                                          *)
LEMMA QuietStep ==
  ASSUME BlindInv, request' = request,
         ledger' = ledger \/ \E e : e.kind \notin Answers /\ ledger' = Append(ledger, e)
  PROVE  /\ UNCHANGED <<Captured(ledger), Revealed(ledger), Scored(ledger)>>
         /\ Room(ledger', request')
<1>1. Typed(ledger) /\ Room(ledger, request)
  BY DEF BlindInv, QueueInv, Sound
<1>2. \A kind \in Answers : \A c : Count(ledger', kind, c) = Count(ledger, kind, c)
  <2>1. CASE ledger' = ledger
    BY <2>1
  <2>2. ASSUME NEW e, e.kind \notin Answers, ledger' = Append(ledger, e),
               NEW kind \in Answers, NEW c
        PROVE  Count(ledger', kind, c) = Count(ledger, kind, c)
    <3>1. ~Is(e, kind, c)
      BY <2>2 DEF Is
    <3>. QED  BY <1>1, <2>2, <3>1, CountGrown
  <2>. QED  BY <2>1, <2>2
<1>3. /\ \A c : Count(ledger', "human_verdict", c) = Count(ledger, "human_verdict", c)
      /\ \A c : Count(ledger', "reveal", c) = Count(ledger, "reveal", c)
      /\ \A c : Count(ledger', "process_score", c) = Count(ledger, "process_score", c)
  BY <1>2 DEF Answers
<1>4. Room(ledger', request')
  BY <1>1, <1>3 DEF Room, Bounded
<1>. QED  BY <1>3, <1>4 DEF Captured, Revealed, Scored

(* A handler that asks for a verdict or a reveal found none.               *)
LEMMA AskStep ==
  ASSUME IsFiniteSet(Handlers), BlindInv, NEW h \in Handlers, NEW ev,
         request[h] = {}, request' = [request EXCEPT ![h] = {ev}],
         ev.kind \in {"human_verdict", "reveal"} => ~Exists(ledger, ev.kind, ev.of)
  PROVE  Room(ledger, request')
<1>1. Typed(ledger) /\ Room(ledger, request) /\ request = [g \in Handlers |-> request[g]]
  BY DEF BlindInv, QueueInv, Sound
<1>2. request'[h] = {ev} /\ \A g \in Handlers \ {h} : request'[g] = request[g]
  BY <1>1
<1>3. ASSUME NEW kind \in {"human_verdict", "reveal"}, NEW c, Bounded(ledger, request, kind, c)
      PROVE  Bounded(ledger, request', kind, c)
  <2>1. CASE Is(ev, kind, c)
    <3>1. Count(ledger, kind, c) = 0
      BY <1>1, <2>1, CountGrown DEF Is
    <3>. QED  BY <3>1, AskingFinite DEF Bounded
  <2>2. CASE ~Is(ev, kind, c)
    <3>1. Asking(request', kind, c) = Asking(request, kind, c)
      BY <1>2, <2>2 DEF Asking
    <3>. QED  BY <1>3, <3>1 DEF Bounded
  <2>. QED  BY <2>1, <2>2
<1>. QED  BY <1>1, <1>3 DEF Room

(* An answer, in the eyes of BlindReview.                                  *)
LEMMA AnswerStep ==
  ASSUME IsFiniteSet(Handlers), BlindInv, NEW h \in Handlers, NEW ev \in request[h],
         ledger' = Append(ledger, ev), request' = [request EXCEPT ![h] = {}]
  PROVE  /\ Room(ledger', request')
         /\ Blind!Capture(ev.of) \/ Blind!Reveal(ev.of) \/ Blind!ScoreProcess(ev.of)
<1> DEFINE c == ev.of
<1>1. /\ Typed(ledger) /\ ev.kind \in Answers /\ c \in Comparisons /\ Room(ledger, request)
      /\ ev.kind = "reveal" => Exists(ledger, "human_verdict", c)
      /\ ev.kind = "process_score" => Exists(ledger, "reveal", c)
      /\ request = [g \in Handlers |-> request[g]]
  BY DEF BlindInv, QueueInv, Sound, Asked
<1>2. \A kind, d : /\ Count(ledger, kind, d) \in Nat
                   /\ Exists(ledger, kind, d) <=> Count(ledger, kind, d) # 0
                   /\ Count(ledger', kind, d) = IF Is(ev, kind, d) THEN Count(ledger, kind, d) + 1
                                                ELSE Count(ledger, kind, d)
  BY <1>1, CountGrown
<1>3. ASSUME NEW kind, NEW d, Bounded(ledger, request, kind, d)
      PROVE  /\ Bounded(ledger', request', kind, d)
             /\ Is(ev, kind, d) => Count(ledger, kind, d) < Cardinality(Handlers)
  <2>1. Asking(request', kind, d) = Asking(request, kind, d) \ {h}
    BY <1>1 DEF Asking
  <2>2. /\ IsFiniteSet(Asking(request, kind, d)) /\ Cardinality(Asking(request, kind, d)) \in Nat
        /\ Cardinality(Handlers) \in Nat
    BY AskingFinite
  <2>3. Cardinality(Asking(request', kind, d)) =
          IF h \in Asking(request, kind, d) THEN Cardinality(Asking(request, kind, d)) - 1
          ELSE Cardinality(Asking(request, kind, d))
    BY <2>1, <2>2, FS_RemoveElement
  <2>4. Is(ev, kind, d) => h \in Asking(request, kind, d)
    BY DEF Asking
  <2>5. h \in Asking(request, kind, d) => Cardinality(Asking(request, kind, d)) # 0
    BY <2>2, FS_EmptySet
  <2>6. CASE Is(ev, kind, d)
    BY <1>2, <1>3, <2>2, <2>3, <2>4, <2>5, <2>6 DEF Bounded
  <2>7. CASE ~Is(ev, kind, d)
    <3>1. Cardinality(Asking(request', kind, d)) <= Cardinality(Asking(request, kind, d))
      BY <2>2, <2>3
    <3>2. Count(ledger', kind, d) = Count(ledger, kind, d) /\ Count(ledger, kind, d) \in Nat
      BY <1>2, <2>7
    <3>3. Cardinality(Asking(request', kind, d)) \in Nat
      BY AskingFinite
    <3>. QED  BY <1>3, <2>2, <2>7, <3>1, <3>2, <3>3 DEF Bounded
  <2>. QED  BY <2>6, <2>7
<1>4. Room(ledger', request')
  BY <1>1, <1>3 DEF Room
<1>5. /\ ev.kind = "human_verdict" => Count(ledger, "human_verdict", c) < Cardinality(Handlers)
      /\ ev.kind = "reveal" => Count(ledger, "reveal", c) < Cardinality(Handlers)
  BY <1>1, <1>3 DEF Room, Is
<1>6. CASE ev.kind = "human_verdict"
  <2>1. \A d : /\ Count(ledger', "human_verdict", d) =
                    IF d = c THEN Count(ledger, "human_verdict", d) + 1
                    ELSE Count(ledger, "human_verdict", d)
               /\ Count(ledger', "reveal", d) = Count(ledger, "reveal", d)
               /\ Count(ledger', "process_score", d) = Count(ledger, "process_score", d)
    BY <1>2, <1>6 DEF Is
  <2>2. Captured(ledger') = [Captured(ledger) EXCEPT ![c] = @ + 1]
    BY <1>1, <2>1 DEF Captured
  <2>3. Revealed(ledger') = Revealed(ledger) /\ Scored(ledger') = Scored(ledger)
    BY <2>1 DEF Revealed, Scored
  <2>. QED  BY <1>1, <1>4, <1>5, <1>6, <2>2, <2>3 DEF Blind!Capture, Captured, Revealed, Scored
<1>7. CASE ev.kind = "reveal"
  <2>1. \A d : /\ Count(ledger', "reveal", d) = IF d = c THEN Count(ledger, "reveal", d) + 1
                                                ELSE Count(ledger, "reveal", d)
               /\ Count(ledger', "human_verdict", d) = Count(ledger, "human_verdict", d)
               /\ Count(ledger', "process_score", d) = Count(ledger, "process_score", d)
    BY <1>2, <1>7 DEF Is
  <2>2. Revealed(ledger') = [Revealed(ledger) EXCEPT ![c] = @ + 1]
    BY <1>1, <2>1 DEF Revealed
  <2>3. Captured(ledger') = Captured(ledger) /\ Scored(ledger') = Scored(ledger)
    BY <2>1 DEF Captured, Scored
  <2>4. Count(ledger, "human_verdict", c) > 0
    BY <1>1, <1>2, <1>7
  <2>. QED  BY <1>1, <1>4, <1>5, <1>7, <2>2, <2>3, <2>4 DEF Blind!Reveal, Captured, Revealed, Scored
<1>8. CASE ev.kind = "process_score"
  <2>1. \A d : /\ Count(ledger', "process_score", d) = IF d = c THEN Count(ledger, "process_score", d) + 1
                                                       ELSE Count(ledger, "process_score", d)
               /\ Count(ledger', "human_verdict", d) = Count(ledger, "human_verdict", d)
               /\ Count(ledger', "reveal", d) = Count(ledger, "reveal", d)
    BY <1>2, <1>8 DEF Is
  <2>2. Scored(ledger') = [Scored(ledger) EXCEPT ![c] = @ + 1]
    BY <1>1, <2>1 DEF Scored
  <2>3. Captured(ledger') = Captured(ledger) /\ Revealed(ledger') = Revealed(ledger)
    BY <2>1 DEF Captured, Revealed
  <2>4. Count(ledger, "reveal", c) > 0
    BY <1>1, <1>2, <1>8
  <2>. QED  BY <1>1, <1>4, <2>2, <2>3, <2>4 DEF Blind!ScoreProcess, Captured, Revealed, Scored
<1>. QED  BY <1>1, <1>6, <1>7, <1>8 DEF Answers

LEMMA InitBlind ==
  ASSUME IsFiniteSet(Handlers), Init
  PROVE  BlindInv /\ Blind!Init
<1>1. QueueInv
  BY InitQueue
<1>2. \A kind, c : Count(ledger, kind, c) = 0
  <2>1. Typed(ledger)
    BY <1>1 DEF QueueInv, Sound
  <2>2. \A kind, c : ~Exists(ledger, kind, c)
    BY EmptyOwn DEF Init, Exists
  <2>. QED  BY <2>1, <2>2, CountGrown
<1>3. Room(ledger, request)
  BY <1>2, AskingFinite DEF Room, Bounded
<1>. QED  BY <1>1, <1>2, <1>3 DEF BlindInv, Blind!Init

LEMMA StepBlind ==
  ASSUME IsFiniteSet(Handlers), BlindInv, [Next]_vars
  PROVE  BlindInv' /\ [Blind!Next]_(Blind!vars)
<1>0. QueueInv /\ QueueInv' /\ Typed(ledger) /\ request = [h \in Handlers |-> request[h]]
  BY StepQueue DEF BlindInv, QueueInv, Sound
<1>1. ASSUME request' = request,
             ledger' = ledger \/ \E e : e.kind \notin Answers /\ ledger' = Append(ledger, e)
      PROVE  BlindInv' /\ [Blind!Next]_(Blind!vars)
  <2>1. /\ UNCHANGED <<Captured(ledger), Revealed(ledger), Scored(ledger)>>
        /\ Room(ledger', request')
    BY <1>1, QuietStep
  <2>2. UNCHANGED Blind!vars
    BY <2>1 DEF Blind!vars, Captured, Revealed, Scored
  <2>. QED  BY <1>0, <2>1, <2>2 DEF BlindInv
<1>2. ASSUME NEW c \in Comparisons, Judge(c) PROVE BlindInv' /\ [Blind!Next]_(Blind!vars)
  <2>1. PICK w : ledger' = Append(ledger, JudgeVerdict(c, w))
    BY <1>2 DEF Judge
  <2>2. JudgeVerdict(c, w).kind \notin Answers
    BY DEF JudgeVerdict, Answers
  <2>3. request' = request
    BY <1>2 DEF Judge
  <2>. QED  BY <1>1, <2>1, <2>2, <2>3
<1>3. ASSUME NEW c \in Comparisons, BuildItem(c) PROVE BlindInv' /\ [Blind!Next]_(Blind!vars)
  <2>1. ledger' = ledger \/ ledger' = Append(ledger, PacketBuilt(c))
    BY <1>3 DEF BuildItem
  <2>2. PacketBuilt(c).kind \notin Answers
    BY DEF PacketBuilt, Answers
  <2>3. request' = request
    BY <1>3 DEF BuildItem
  <2>. QED  BY <1>1, <2>1, <2>2, <2>3
<1>4. CASE RecordBatch
  <2>1. PICK ids : ledger' = ledger \/ ledger' = Append(ledger, Batch(ids))
    BY <1>4 DEF RecordBatch
  <2>2. Batch(ids).kind \notin Answers
    BY DEF Batch, Answers
  <2>3. request' = request
    BY <1>4 DEF RecordBatch
  <2>. QED  BY <1>1, <2>1, <2>2, <2>3
<1>5. CASE Select \/ BuildDies \/ UNCHANGED vars
  BY <1>1, <1>5 DEF Select, BuildDies, vars
<1>6. ASSUME NEW h \in Handlers, NEW c \in Comparisons,
             AskCapture(h, c) \/ AskReveal(h, c) \/ AskScore(h, c)
      PROVE  BlindInv' /\ [Blind!Next]_(Blind!vars)
  <2>1. PICK ev : /\ Ask(h, ev)
                  /\ ev.kind \in {"human_verdict", "reveal"} => ~Exists(ledger, ev.kind, ev.of)
    BY <1>6 DEF AskCapture, AskReveal, AskScore, HumanVerdict, Reveal, ProcessScore, MayCapture, MayReveal
  <2>2. /\ ledger' = ledger /\ request[h] = {} /\ request' = [request EXCEPT ![h] = {ev}]
    BY <2>1 DEF Ask
  <2>3. Room(ledger', request')
    BY <2>1, <2>2, AskStep
  <2>4. UNCHANGED Blind!vars
    BY <2>2 DEF Blind!vars
  <2>. QED  BY <1>0, <2>3, <2>4 DEF BlindInv
<1>7. ASSUME NEW h \in Handlers, Answer(h) PROVE BlindInv' /\ [Blind!Next]_(Blind!vars)
  <2>1. PICK ev \in request[h] : ledger' = Append(ledger, ev)
    BY <1>7 DEF Answer
  <2>2. request' = [request EXCEPT ![h] = {}]
    BY <1>7 DEF Answer
  <2>3. /\ Room(ledger', request')
        /\ Blind!Capture(ev.of) \/ Blind!Reveal(ev.of) \/ Blind!ScoreProcess(ev.of)
    BY <2>1, <2>2, AnswerStep
  <2>4. ev.of \in Comparisons
    BY <1>0, <2>1 DEF QueueInv, Asked
  <2>5. Blind!Next
    BY <2>3, <2>4 DEF Blind!Next
  <2>. QED  BY <1>0, <2>3, <2>5 DEF BlindInv
<1>. QED  BY <1>2, <1>3, <1>4, <1>5, <1>6, <1>7 DEF Next

(* Capture, then reveal, then score, comparison by comparison, with no     *)
(* more verdicts and no more reveals of one than there are handlers: with  *)
(* any finite number of them in parallel, and whatever builds and the      *)
(* judge do meanwhile, Review implements BlindReview (review/record.py,    *)
(* review/serve.py, process/score.py).                                     *)
THEOREM HandlersKeepCaptureThenReveal ==
  ASSUME IsFiniteSet(Handlers)
  PROVE  Spec => CaptureThenReveal
<1>1. Init => BlindInv /\ Blind!Init
  BY InitBlind
<1>2. BlindInv /\ [Next]_vars => BlindInv' /\ [Blind!Next]_(Blind!vars)
  BY StepBlind
<1>. QED  BY <1>1, <1>2, PTL DEF Spec, CaptureThenReveal, Blind!Spec

(* What record.py says, "exactly one human verdict per comparison", holds  *)
(* while one request is handled at a time.                                 *)
THEOREM OneHandlerOneVerdict ==
  ASSUME IsFiniteSet(Handlers), Cardinality(Handlers) <= 1
  PROVE  Spec => []OneVerdict
<1>1. Init => BlindInv
  BY InitBlind
<1>2. BlindInv /\ [Next]_vars => BlindInv'
  BY StepBlind
<1>3. ASSUME BlindInv PROVE OneVerdict
  <2>1. ASSUME NEW c \in Comparisons PROVE Count(ledger, "human_verdict", c) <= 1
    <3>1. Typed(ledger) /\ Bounded(ledger, request, "human_verdict", c)
      BY <1>3 DEF BlindInv, QueueInv, Sound, Room
    <3>2. Count(ledger, "human_verdict", c) \in Nat
      BY <3>1, CountGrown
    <3>. QED  BY <3>1, <3>2, AskingFinite DEF Bounded
  <2>. QED  BY <2>1 DEF OneVerdict
<1>. QED  BY <1>1, <1>2, <1>3, PTL DEF Spec
=============================================================================
