------------------------------- MODULE Ledger -------------------------------
(***************************************************************************)
(* src/harness/ledger/chain.py append_event, run by any number of bench    *)
(* processes on one ledger.ndjson, and src/harness/ledger/query.py         *)
(* tail_events, run by observers of the same file.                         *)
(*                                                                         *)
(* The file is a sequence of newline-terminated lines and perhaps an       *)
(* unterminated tail (torn). A write appends at the end of the file, so a  *)
(* write onto a torn tail completes the torn line: the two run together.   *)
(* Lines that were written but not fsynced may be lost with the power.     *)
(***************************************************************************)
EXTENDS Chain, FiniteSets

CONSTANTS Writers,      \* processes that append; an event is its writer's name
          Pollers,      \* observers that poll tail_events with a cursor
          NoOne,        \* the flock's holder when it is free
          MaxLines,     \* bound: appends are attempted while the file has room
          MaxFaults     \* bound: crashes, short writes and power losses together

ASSUME LedgerAssumption ==
  /\ NoOne \notin Writers
  /\ MaxLines \in Nat
  /\ MaxFaults \in Nat

VARIABLES
  lines,     \* the complete lines of the file, in order
  torn,      \* the file ends in an unterminated partial line
  synced,    \* how many lines are known to be on disk
  holder,    \* who holds the exclusive flock
  pc,        \* where each writer is inside append_event
  head,      \* the prev_hash each writer computed for its line
  cursor,    \* each poller's next offset
  yielded,   \* what each poller has been given since it started
  faults,    \* faults so far
  acked      \* lines whose append_event returned (observation only)

file == <<lines, torn, synced>>
writers == <<holder, pc, head, acked>>
pollers == <<cursor, yielded>>
vars == <<lines, torn, synced, holder, pc, head, cursor, yielded, faults, acked>>

InFlight == {w \in Writers : pc[w] # "idle"}
Room     == Len(lines) + Cardinality(InFlight) < MaxLines

Init ==
  /\ lines = <<>> /\ torn = FALSE /\ synced = 0
  /\ holder = NoOne
  /\ pc = [w \in Writers |-> "idle"]
  /\ head = [w \in Writers |-> GENESIS_PREV_HASH]
  /\ cursor = [p \in Pollers |-> 0]
  /\ yielded = [p \in Pollers |-> <<>>]
  /\ faults = 0
  /\ acked = {}

-----------------------------------------------------------------------------
(* append_event, step by step. Leave is the finally block: the lock is     *)
(* dropped and the descriptor closed however the call ends.                *)

Leave_KeepsLock(w) == pc' = [pc EXCEPT ![w] = "idle"] /\ UNCHANGED holder
Leave(w) ==
  /\ pc' = [pc EXCEPT ![w] = "idle"]
  /\ holder' = IF holder = w THEN NoOne ELSE holder

(* os.open(path, O_WRONLY | O_CREAT | O_APPEND)                            *)
OpenFile(w) ==
  /\ pc[w] = "idle" /\ Room
  /\ pc' = [pc EXCEPT ![w] = "opened"]
  /\ UNCHANGED <<file, holder, head, acked, pollers, faults>>

(* fcntl.flock(fd, LOCK_EX): waits for whoever holds it.                   *)
LockFree_Ignored == TRUE
LockFree == holder = NoOne
Lock(w) ==
  /\ pc[w] = "opened" /\ LockFree
  /\ holder' = w
  /\ pc' = [pc EXCEPT ![w] = "locked"]
  /\ UNCHANGED <<file, head, acked, pollers, faults>>

(* _refuse_truncated_final_line: a torn file is refused, not appended to.  *)
Refused_Never == FALSE
Refused == torn
CheckFinalLine(w) ==
  /\ pc[w] = "locked"
  /\ IF Refused THEN Leave(w)
                ELSE pc' = [pc EXCEPT ![w] = "checked"] /\ UNCHANGED holder
  /\ UNCHANGED <<file, head, acked, pollers, faults>>

(* stored["prev_hash"] = head_hash(path)                                   *)
ReadHead(w) ==
  /\ pc[w] = "checked"
  /\ head' = [head EXCEPT ![w] = HeadHash(lines)]
  /\ pc' = [pc EXCEPT ![w] = "headed"]
  /\ UNCHANGED <<file, holder, acked, pollers, faults>>

(* The one os.write of the whole line, newline included.                   *)
Write(w) ==
  /\ pc[w] = "headed"
  /\ lines' = Append(lines, IF torn THEN SplicedLine ELSE Line(w, head[w]))
  /\ torn' = FALSE
  /\ pc' = [pc EXCEPT ![w] = "written"]
  /\ UNCHANGED <<synced, holder, head, acked, pollers, faults>>

(* The write stops short (disk full): the caller gets OSError, and what    *)
(* was written stays in the file as an unterminated tail.                  *)
ShortWrite(w) ==
  /\ pc[w] = "headed" /\ faults < MaxFaults
  /\ torn' = TRUE
  /\ faults' = faults + 1
  /\ Leave(w)
  /\ UNCHANGED <<lines, synced, head, acked, pollers>>

(* os.fsync(fd) flushes the file, so lines of crashed writers too.         *)
Flushed_Nothing == synced
Flushed == Len(lines)
Fsync(w) ==
  /\ pc[w] = "written"
  /\ synced' = Flushed
  /\ pc' = [pc EXCEPT ![w] = "synced"]
  /\ UNCHANGED <<lines, torn, holder, head, acked, pollers, faults>>

(* The finally block, and the return of the stored event to the caller.    *)
Return(w) ==
  /\ pc[w] = "synced"
  /\ acked' = acked \cup {Line(w, head[w])}
  /\ Leave(w)
  /\ UNCHANGED <<file, head, pollers, faults>>

-----------------------------------------------------------------------------
(* Faults, and the operator's repair of a torn tail.                       *)

(* The process dies; the kernel closes its descriptors, which drops the    *)
(* flock. What it wrote stays in the page cache.                           *)
Crash(w) ==
  /\ pc[w] # "idle" /\ faults < MaxFaults
  /\ faults' = faults + 1
  /\ Leave(w)
  /\ UNCHANGED <<file, head, acked, pollers>>

(* The host stops: every process is gone, and the unsynced end of the file *)
(* survives whole, in part (a torn line) or not at all.                    *)
PowerLoss ==
  /\ faults < MaxFaults
  /\ faults' = faults + 1
  /\ \E n \in synced..Len(lines) :
       /\ lines' = SubSeq(lines, 1, n)
       /\ synced' = n
       /\ torn' \in IF torn \/ n < Len(lines) THEN BOOLEAN ELSE {FALSE}
  /\ holder' = NoOne
  /\ pc' = [w \in Writers |-> "idle"]
  /\ cursor' = [p \in Pollers |-> 0]
  /\ yielded' = [p \in Pollers |-> <<>>]
  /\ UNCHANGED <<head, acked>>

(* TruncatedLedgerError asks for it: the partial line is cut off by hand.  *)
Repair ==
  /\ torn
  /\ torn' = FALSE
  /\ UNCHANGED <<lines, synced, writers, pollers, faults>>

-----------------------------------------------------------------------------
(* tail_events(path, offset): the complete lines after the cursor, and the *)
(* cursor moved past them. A cursor beyond the end of the file is refused  *)
(* (TailOffsetError), and so is a complete line that is not JSON.          *)

FileEnd == Len(lines) + IF torn THEN 1 ELSE 0
NextOffset_PastTail == FileEnd
NextOffset == Len(lines)

Fresh(p) == SubSeq(lines, cursor[p] + 1, Len(lines))
Poll(p) ==
  /\ cursor[p] < NextOffset
  /\ \A i \in 1..Len(Fresh(p)) : Fresh(p)[i] # SplicedLine
  /\ yielded' = [yielded EXCEPT ![p] = @ \o Fresh(p)]
  /\ cursor' = [cursor EXCEPT ![p] = NextOffset]
  /\ UNCHANGED <<file, writers, faults>>

Step(w) == \/ OpenFile(w) \/ Lock(w) \/ CheckFinalLine(w) \/ ReadHead(w)
           \/ Write(w) \/ ShortWrite(w) \/ Fsync(w) \/ Return(w)

Next ==
  \/ \E w \in Writers : Step(w) \/ Crash(w)
  \/ \E p \in Pollers : Poll(p)
  \/ PowerLoss
  \/ Repair

Spec == Init /\ [][Next]_vars

(* A process inside append_event keeps running, flock queues its waiters,  *)
(* and a poller keeps polling. Nothing makes a process begin an append, a  *)
(* fault happen or an operator repair the file.                            *)
Progress(w) == \/ CheckFinalLine(w) \/ ReadHead(w) \/ Write(w) \/ ShortWrite(w)
               \/ Fsync(w) \/ Return(w)
FairSpec ==
  /\ Spec
  /\ \A w \in Writers : SF_vars(Lock(w)) /\ WF_vars(Progress(w))
  /\ \A p \in Pollers : WF_vars(Poll(p))

-----------------------------------------------------------------------------
Steps == {"idle", "opened", "locked", "checked", "headed", "written", "synced"}

(* Types. A line is a record; its prev_hash is the genesis mark or a hash. *)
IsLine(l) == l = [event |-> l.event, prev_hash |-> l.prev_hash]
TypeOK ==
  /\ lines \in Seq({lines[i] : i \in DOMAIN lines})
  /\ torn \in BOOLEAN
  /\ synced \in 0..Len(lines)
  /\ holder \in Writers \cup {NoOne}
  /\ pc \in [Writers -> Steps]
  /\ DOMAIN head = Writers
  /\ cursor \in [Pollers -> Nat]
  /\ DOMAIN yielded = Pollers
  /\ faults \in 0..MaxFaults

(* However many processes append, crash or stop short, the complete lines  *)
(* of the file are one hash chain: verify_chain never reports a break in a *)
(* ledger that only append_event has written.                              *)
ChainIntact == Chained(lines)

(* An event whose append_event returned is on disk, and stays there: no    *)
(* crash, power loss, later append or repair loses it.                     *)
AckedIsDurable == acked \subseteq {lines[i] : i \in 1..synced}

(* query.py tail_events: "every appended event is yielded exactly once" -  *)
(* what a poller was given is the file's lines up to its cursor, in order, *)
(* none skipped and none twice, torn tails and repairs notwithstanding.    *)
TailExactlyOnce ==
  \A p \in Pollers : /\ cursor[p] <= Len(lines)
                     /\ yielded[p] = SubSeq(lines, 1, cursor[p])

(* Every writer that reaches the file gets out of append_event again, with *)
(* its event recorded or refused: a refusal or a failed write never keeps  *)
(* the lock.                                                               *)
AppendsFinish == \A w \in Writers : pc[w] = "opened" ~> pc[w] = "idle"

(* The lines on disk implement the abstract log, whatever is lost above    *)
(* them.                                                                   *)
Durable == INSTANCE AppendOnlyLog WITH log <- SubSeq(lines, 1, synced)
ImplementsLog == Durable!Spec
=============================================================================
