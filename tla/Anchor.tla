------------------------------- MODULE Anchor -------------------------------
(***************************************************************************)
(* src/harness/ledger/anchors.py and ledger/api.py anchor: checkpoints of  *)
(* the ledger's head in a store outside the experiment, taken while other  *)
(* processes append, and the cross-check of the ledger against them.       *)
(*                                                                         *)
(* append_event is one step here (module Ledger shows why it may be), but  *)
(* its fsync is not: until then a line can be lost with the power. Someone *)
(* with the user's rights may rewrite the ledger, whole chain included;    *)
(* anchoring exists to make that evident.                                  *)
(***************************************************************************)
EXTENDS Chain, FiniteSets

CONSTANTS Events,        \* ordinary events other processes append
          Anchorers,     \* processes running `bench anchor`
          MaxLines,      \* bound: the ledger's length
          MaxAnchors,    \* bound: records in the anchor store
          MaxShort,      \* bound: short writes
          MaxFaults,     \* bound: crashes and power losses
          MaxEdits       \* bound: rewrites of the ledger or of the store

AnchorAssumption ==
  {MaxLines, MaxAnchors, MaxShort, MaxFaults, MaxEdits} \subseteq Nat

VARIABLES
  lines, torn, synced,   \* ledger.ndjson, as in module Ledger
  store,                 \* the anchor store: one record per line
  pc, rec,               \* each anchorer: where it is, and the checkpoint it computed
  shorts, faults, edits, \* how often each disturbance has happened
  certified              \* what passing cross-checks vouched for (observation only)

file == <<lines, torn, synced>>
vars == <<lines, torn, synced, store, pc, rec, shorts, faults, edits, certified>>

Record(height, hash) == [height |-> height, head_hash |-> hash]
Corrupt     == [height |-> 0, head_hash |-> <<"corrupt">>]
PartialLine == [event |-> <<"partial">>, prev_hash |-> <<"unreadable">>]
ChainAnchor(r) == <<"chain_anchor", r.height, r.head_hash>>

Init ==
  /\ lines = <<>> /\ torn = FALSE /\ synced = 0
  /\ store = <<>>
  /\ pc = [a \in Anchorers |-> "idle"]
  /\ rec = [a \in Anchorers |-> Record(0, GENESIS_PREV_HASH)]
  /\ shorts = 0 /\ faults = 0 /\ edits = 0
  /\ certified = {}

-----------------------------------------------------------------------------
(* The other processes: an append in full, one that stops short (the tail  *)
(* is then cut off by hand), and the fsync that follows the write.         *)
AppendEvent(e) ==
  /\ ~torn /\ Len(lines) < MaxLines
  /\ lines' = Append(lines, Line(<<"event", e>>, HeadHash(lines)))
  /\ UNCHANGED <<torn, synced, store, pc, rec, shorts, faults, edits, certified>>

ShortWrite ==
  /\ ~torn /\ shorts < MaxShort
  /\ torn' = TRUE
  /\ shorts' = shorts + 1
  /\ UNCHANGED <<lines, synced, store, pc, rec, faults, edits, certified>>

Repair ==
  /\ torn
  /\ torn' = FALSE
  /\ UNCHANGED <<lines, synced, store, pc, rec, shorts, faults, edits, certified>>

Fsync ==
  /\ synced < Len(lines)
  /\ synced' = Len(lines)
  /\ UNCHANGED <<lines, torn, store, pc, rec, shorts, faults, edits, certified>>

-----------------------------------------------------------------------------
(* bench anchor. anchor_record reads the file twice: once to verify the    *)
(* chain, and again for the lines it checkpoints.                          *)
VerifyFirst(a) ==
  /\ pc[a] = "idle" /\ Len(store) < MaxAnchors
  /\ VerifyChain(lines, torn)
  /\ pc' = [pc EXCEPT ![a] = "verified"]
  /\ UNCHANGED <<file, store, rec, shorts, faults, edits, certified>>

Checkpoint ==
  IF torn THEN Record(Len(lines) + 1, HashLine(PartialLine))
          ELSE Record(Len(lines), HeadHash(lines))
ReadLines(a) ==
  /\ pc[a] = "verified"
  /\ rec' = [rec EXCEPT ![a] = Checkpoint]
  /\ pc' = [pc EXCEPT ![a] = "read"]
  /\ UNCHANGED <<file, store, shorts, faults, edits, certified>>

(* record_chain_anchor: append_event, fsync included, or its refusal of a  *)
(* torn file.                                                              *)
RecordChainAnchor(a) ==
  /\ pc[a] = "read"
  /\ IF torn
     THEN /\ pc' = [pc EXCEPT ![a] = "idle"]
          /\ UNCHANGED <<lines, synced>>
     ELSE /\ Len(lines) < MaxLines
          /\ lines' = Append(lines, Line(ChainAnchor(rec[a]), HeadHash(lines)))
          /\ synced' = Len(lines')
          /\ pc' = [pc EXCEPT ![a] = "recorded"]
  /\ UNCHANGED <<torn, store, rec, shorts, faults, edits, certified>>

(* write_anchor: the external write comes after the ledger's.              *)
MayWrite(a) == pc[a] = "recorded"
WriteAnchor(a) ==
  /\ MayWrite(a) /\ Len(store) < MaxAnchors
  /\ store' = Append(store, rec[a])
  /\ pc' = [pc EXCEPT ![a] = "idle"]
  /\ UNCHANGED <<file, rec, shorts, faults, edits, certified>>

-----------------------------------------------------------------------------
(* Faults.                                                                 *)
Crash(a) ==
  /\ pc[a] # "idle" /\ faults < MaxFaults
  /\ faults' = faults + 1
  /\ pc' = [pc EXCEPT ![a] = "idle"]
  /\ UNCHANGED <<file, store, rec, shorts, edits, certified>>

PowerLoss ==
  /\ faults < MaxFaults
  /\ faults' = faults + 1
  /\ \E n \in synced..Len(lines) :
       /\ lines' = SubSeq(lines, 1, n)
       /\ synced' = n
  /\ pc' = [a \in Anchorers |-> "idle"]
  /\ UNCHANGED <<torn, store, rec, shorts, edits, certified>>

(* Rewriting the ledger with any editor: one line changed, or lines cut    *)
(* off, and the links after it left as they were or all computed afresh.   *)
Rechained(events) ==
  LET f[n \in 0..Len(events)] ==
        IF n = 0 THEN <<>> ELSE Append(f[n - 1], Line(events[n], HeadHash(f[n - 1])))
  IN  f[Len(events)]
EventsOf(s) == [i \in 1..Len(s) |-> s[i].event]

Altered(i, e) == [lines EXCEPT ![i].event = <<"event", e>>]
Rewritten ==
  {Altered(i, e) : i \in 1..Len(lines), e \in Events}
  \cup {Rechained(EventsOf(Altered(i, e))) : i \in 1..Len(lines), e \in Events}
  \cup {SubSeq(lines, 1, n) : n \in 0..Len(lines)}

Rewrite ==
  /\ edits < MaxEdits
  /\ edits' = edits + 1
  /\ \/ /\ lines' \in Rewritten
        /\ synced' = Len(lines')
        /\ UNCHANGED store
     \/ /\ store # <<>>
        /\ store' \in {SubSeq(store, 1, Len(store) - 1), [store EXCEPT ![1] = Corrupt]}
        /\ UNCHANGED <<lines, synced>>
  /\ UNCHANGED <<torn, pc, rec, shorts, faults, certified>>

-----------------------------------------------------------------------------
(* verify_against_anchor: the chain itself, then every record against the  *)
(* line at its height. Records of height 0 are passed over, and a store    *)
(* with nothing else in it is a failure.                                   *)
Checkable == {k \in 1..Len(store) : store[k].height > 0}
Matches(r) == r.height <= Len(lines) /\ HashLine(lines[r.height]) = r.head_hash

AuditOK_ChainUnread ==
  /\ \A k \in 1..Len(store) : store[k] # Corrupt
  /\ Checkable # {}
  /\ \A k \in Checkable : Matches(store[k])
AuditOK ==
  /\ VerifyChain(lines, torn)
  /\ \A k \in 1..Len(store) : store[k] # Corrupt
  /\ Checkable # {}
  /\ \A k \in Checkable : Matches(store[k])

(* A passing cross-check vouches, per record, for the lines below it.      *)
Audit ==
  /\ AuditOK
  /\ certified' = certified \cup
       {[by |-> store[k], history |-> SubSeq(lines, 1, store[k].height)] : k \in Checkable}
  /\ certified' # certified
  /\ UNCHANGED <<file, store, pc, rec, shorts, faults, edits>>

Next ==
  \/ \E e \in Events : AppendEvent(e)
  \/ ShortWrite \/ Repair \/ Fsync
  \/ \E a \in Anchorers : VerifyFirst(a) \/ ReadLines(a) \/ RecordChainAnchor(a)
                          \/ WriteAnchor(a) \/ Crash(a)
  \/ PowerLoss
  \/ Rewrite
  \/ Audit

Spec == Init /\ [][Next]_vars

-----------------------------------------------------------------------------
(* verify_against_anchor: "already-anchored history has not been           *)
(* rewritten". Two cross-checks that pass under one record saw the same    *)
(* history below it, however the ledger was edited in between - the whole  *)
(* chain recomputed included.                                              *)
AnchoredHistoryFixed ==
  \A x, y \in certified : x.by = y.by => x.history = y.history

(* ledger/api.py anchor: "a crash between leaves an in-chain record, never *)
(* an orphaned checkpoint". While nobody rewrites the ledger, every record *)
(* in the store is announced by a chain_anchor event in it.                *)
NoOrphanCheckpoint ==
  edits = 0 => \A k \in 1..Len(store) :
                 \E i \in 1..Len(lines) : lines[i].event = ChainAnchor(store[k])

(* The cross-check raises no false alarm: a ledger nobody rewrote passes,  *)
(* appends during anchoring, crashes and lost unsynced lines included. (A  *)
(* write that stops short between the two reads of anchor_record can leave *)
(* a checkpoint of the half line, hence shorts = 0.)                       *)
NoFalseAlarm ==
  edits = 0 /\ shorts = 0 /\ Checkable # {} => AuditOK
=============================================================================
