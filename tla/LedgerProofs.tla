---------------------------- MODULE LedgerProofs ----------------------------
(***************************************************************************)
(* Proofs about Ledger for every number of writers, pollers, lines and     *)
(* faults. Inv is the inductive invariant: who may be inside the critical  *)
(* section of append_event, what that writer knows of the file, and the    *)
(* three properties that follow from it.                                   *)
(***************************************************************************)
EXTENDS Ledger, SequenceLemmas

Locked   == {"locked", "checked", "headed", "written", "synced"}
Cleared  == {"checked", "headed"}
Recorded == {"written", "synced"}

LockInv == \A w \in Writers : pc[w] \in Locked => holder = w

FileInv ==
  \A w \in Writers :
    /\ pc[w] \in Cleared => ~torn
    /\ pc[w] = "headed" => head[w] = HeadHash(lines)
    /\ pc[w] \in Recorded => Len(lines) > 0 /\ lines[Len(lines)] = Line(w, head[w])
    /\ pc[w] = "synced" => synced = Len(lines)


-----------------------------------------------------------------------------
(* Every variable keeps its type, and the lines stay a sequence.           *)
THEOREM TypeCorrect == Spec => []TypeOK
<1>1. Init => TypeOK
  <2> SUFFICES ASSUME Init
               PROVE  TypeOK
    OBVIOUS
  <2>1. lines \in Seq({}) /\ Len(lines) = 0
    BY DEF Init
  <2>2. lines \in Seq({lines[i] : i \in DOMAIN lines})
    BY <2>1, OwnElements
  <2>3. pc \in [Writers -> Steps] /\ cursor \in [Pollers -> Nat]
    BY DEF Init, Steps
  <2>4. DOMAIN head = Writers /\ DOMAIN yielded = Pollers
    BY DEF Init
  <2>5. synced \in 0..Len(lines) /\ faults \in 0..MaxFaults
    BY LedgerAssumption, <2>1 DEF Init
  <2>6. torn \in BOOLEAN /\ holder \in Writers \cup {NoOne}
    BY DEF Init
  <2>. QED  BY <2>2, <2>3, <2>4, <2>5, <2>6 DEF TypeOK
<1>2. TypeOK /\ [Next]_vars => TypeOK'
  <2> SUFFICES ASSUME TypeOK, [Next]_vars
               PROVE  TypeOK'
    OBVIOUS
  <2>. USE LedgerAssumption DEF TypeOK, Steps, file, writers, pollers, Leave
  <2>1. ASSUME NEW w \in Writers, OpenFile(w)
        PROVE  TypeOK'
    BY <2>1 DEF OpenFile
  <2>2. ASSUME NEW w \in Writers, Lock(w)
        PROVE  TypeOK'
    BY <2>2 DEF Lock
  <2>3. ASSUME NEW w \in Writers, CheckFinalLine(w)
        PROVE  TypeOK'
    BY <2>3 DEF CheckFinalLine
  <2>4. ASSUME NEW w \in Writers, ReadHead(w)
        PROVE  TypeOK'
    BY <2>4 DEF ReadHead
  <2>5. ASSUME NEW w \in Writers, Write(w)
        PROVE  TypeOK'
    <3>a. PICK e : lines' = Append(lines, e)
      BY <2>5 DEF Write
    <3>b. lines \in Seq({lines[i] : i \in DOMAIN lines})
      OBVIOUS
    <3>1. /\ lines' \in Seq({lines'[i] : i \in DOMAIN lines'})
          /\ Len(lines') = Len(lines) + 1
      BY ONLY <3>a, <3>b, AppendOwn
    <3>2. synced' \in 0..Len(lines')
      BY <2>5, <3>1 DEF Write
    <3>3. pc' \in [Writers -> Steps]
      BY <2>5 DEF Write
    <3>. QED  BY <2>5, <3>1, <3>2, <3>3 DEF Write
  <2>6. ASSUME NEW w \in Writers, ShortWrite(w)
        PROVE  TypeOK'
    BY <2>6 DEF ShortWrite
  <2>7. ASSUME NEW w \in Writers, Fsync(w)
        PROVE  TypeOK'
    BY <2>7 DEF Fsync, Flushed
  <2>8. ASSUME NEW w \in Writers, Return(w)
        PROVE  TypeOK'
    BY <2>8 DEF Return
  <2>9. ASSUME NEW w \in Writers, Crash(w)
        PROVE  TypeOK'
    BY <2>9 DEF Crash
  <2>10. ASSUME NEW p \in Pollers, Poll(p)
         PROVE  TypeOK'
    BY <2>10 DEF Poll, NextOffset
  <2>11. CASE PowerLoss
    <3>1. PICK n \in synced..Len(lines) :
            /\ lines' = SubSeq(lines, 1, n)
            /\ synced' = n
            /\ torn' \in IF torn \/ n < Len(lines) THEN BOOLEAN ELSE {FALSE}
      BY <2>11 DEF PowerLoss
    <3>a. n \in 0..Len(lines) /\ lines \in Seq({lines[i] : i \in DOMAIN lines})
      OBVIOUS
    <3>2. /\ lines' \in Seq({lines'[i] : i \in DOMAIN lines'})
          /\ Len(lines') = n
      BY ONLY <3>1, <3>a, PrefixOwn
    <3>3. synced' \in 0..Len(lines')
      BY <3>1, <3>2, <3>a
    <3>4. torn' \in BOOLEAN
      BY ONLY <3>1
    <3>. QED  BY <2>11, <3>2, <3>3, <3>4 DEF PowerLoss
  <2>12. CASE Repair
    BY <2>12 DEF Repair
  <2>13. CASE UNCHANGED vars
    BY <2>13 DEF vars
  <2>. QED
    BY <2>1, <2>2, <2>3, <2>4, <2>5, <2>6, <2>7, <2>8, <2>9, <2>10, <2>11, <2>12, <2>13
       DEF Next, Step
<1>. QED  BY <1>1, <1>2, PTL DEF Spec

-----------------------------------------------------------------------------
(* Lines and links: a chain stays one when a line linked to its head is    *)
(* added, and when it is cut.                                              *)
LEMMA Links ==
  ASSUME NEW s
  PROVE  Chained(s) <=> \A i \in 1..Len(s) : s[i].prev_hash = PrevHashOf(s, i)
BY DEF Chained, BrokenLinks

(* A line that names the head before it may be appended to a chain.        *)
LEMMA AppendChained ==
  ASSUME NEW s, s \in Seq({s[i] : i \in DOMAIN s}), Chained(s), NEW e
  PROVE  Chained(Append(s, Line(e, HeadHash(s))))
<1> DEFINE t == Append(s, Line(e, HeadHash(s)))
<1>1. /\ Len(t) = Len(s) + 1 /\ Len(s) \in Nat
      /\ \A i \in 1..Len(s) : t[i] = s[i]
      /\ t[Len(t)] = Line(e, HeadHash(s))
  BY AppendOwn
<1>. HIDE DEF t
<1>2. ASSUME NEW i \in 1..Len(t)
      PROVE  t[i].prev_hash = PrevHashOf(t, i)
  <2>1. CASE i = Len(t)
    BY <1>1, <2>1 DEF Line, HeadHash, PrevHashOf
  <2>2. CASE i # Len(t)
    <3>1. i \in 1..Len(s) /\ t[i] = s[i]
      BY <1>1, <2>2
    <3>2. PrevHashOf(t, i) = PrevHashOf(s, i)
      BY <1>1, <3>1 DEF PrevHashOf
    <3>. QED  BY <3>1, <3>2, Links
  <2>. QED  BY <2>1, <2>2
<1>. QED  BY <1>2, Links DEF t

(* A chain that is cut, by a power loss or a repair, is still a chain.     *)
LEMMA PrefixChained ==
  ASSUME NEW s, s \in Seq({s[i] : i \in DOMAIN s}), Chained(s), NEW n \in 0..Len(s)
  PROVE  Chained(SubSeq(s, 1, n))
<1> DEFINE t == SubSeq(s, 1, n)
<1>1. Len(t) = n /\ Len(s) \in Nat /\ \A i \in 1..n : t[i] = s[i]
  BY PrefixOwn
<1>. HIDE DEF t
<1>2. ASSUME NEW i \in 1..Len(t)
      PROVE  t[i].prev_hash = PrevHashOf(t, i)
  <2>1. i \in 1..Len(s) /\ t[i] = s[i]
    BY <1>1
  <2>2. PrevHashOf(t, i) = PrevHashOf(s, i)
    BY <1>1, <2>1 DEF PrevHashOf
  <2>. QED  BY <2>1, <2>2, Links
<1>. QED  BY <1>2, Links DEF t

-----------------------------------------------------------------------------
(* The flock admits one writer at a time to the steps between taking and   *)
(* leaving it.                                                             *)
THEOREM MutualExclusion == Spec => []LockInv
<1>1. Init => LockInv
  BY DEF Init, LockInv, Locked
<1>2. TypeOK /\ LockInv /\ [Next]_vars => LockInv'
  <2> SUFFICES ASSUME TypeOK, LockInv, [Next]_vars
               PROVE  LockInv'
    OBVIOUS
  <2>. USE LedgerAssumption DEF TypeOK, LockInv, Locked, Steps, file, writers, pollers, Leave
  <2>1. ASSUME NEW w \in Writers, OpenFile(w) PROVE LockInv'
    BY <2>1 DEF OpenFile
  <2>2. ASSUME NEW w \in Writers, Lock(w) PROVE LockInv'
    BY <2>2 DEF Lock, LockFree
  <2>3. ASSUME NEW w \in Writers, CheckFinalLine(w) PROVE LockInv'
    BY <2>3 DEF CheckFinalLine
  <2>4. ASSUME NEW w \in Writers, ReadHead(w) PROVE LockInv'
    BY <2>4 DEF ReadHead
  <2>5. ASSUME NEW w \in Writers, Write(w) PROVE LockInv'
    BY <2>5 DEF Write
  <2>6. ASSUME NEW w \in Writers, ShortWrite(w) PROVE LockInv'
    BY <2>6 DEF ShortWrite
  <2>7. ASSUME NEW w \in Writers, Fsync(w) PROVE LockInv'
    BY <2>7 DEF Fsync
  <2>8. ASSUME NEW w \in Writers, Return(w) PROVE LockInv'
    BY <2>8 DEF Return
  <2>9. ASSUME NEW w \in Writers, Crash(w) PROVE LockInv'
    BY <2>9 DEF Crash
  <2>10. CASE PowerLoss
    BY <2>10 DEF PowerLoss
  <2>11. CASE (\E p \in Pollers : Poll(p)) \/ Repair \/ UNCHANGED vars
    BY <2>11 DEF Poll, Repair, vars
  <2>. QED
    BY <2>1, <2>2, <2>3, <2>4, <2>5, <2>6, <2>7, <2>8, <2>9, <2>10, <2>11 DEF Next, Step
<1>. QED  BY <1>1, <1>2, TypeCorrect, PTL DEF Spec

-----------------------------------------------------------------------------
(* What the writer inside the lock knows of the file is still true when it *)
(* writes; so its line links to the head, and the file stays a chain.      *)
LEMMA FileStep ==
  ASSUME TypeOK, LockInv, FileInv, ChainIntact, [Next]_vars
  PROVE  FileInv' /\ ChainIntact'
<1>. USE LedgerAssumption
     DEF FileInv, ChainIntact, Locked, Cleared, Recorded, file, writers, pollers, Leave
<1>0. /\ lines \in Seq({lines[i] : i \in DOMAIN lines})
      /\ Len(lines) \in Nat /\ synced \in 0..Len(lines)
      /\ pc \in [Writers -> Steps] /\ DOMAIN head = Writers
  BY DEF TypeOK
<1>1. ASSUME NEW w \in Writers, OpenFile(w) PROVE FileInv' /\ ChainIntact'
  BY <1>0, <1>1 DEF OpenFile
<1>2. ASSUME NEW w \in Writers, Lock(w) PROVE FileInv' /\ ChainIntact'
  BY <1>0, <1>2 DEF Lock
<1>3. ASSUME NEW w \in Writers, CheckFinalLine(w) PROVE FileInv' /\ ChainIntact'
  BY <1>0, <1>3 DEF CheckFinalLine, Refused
<1>4. ASSUME NEW w \in Writers, ReadHead(w) PROVE FileInv' /\ ChainIntact'
  BY <1>0, <1>4 DEF ReadHead
<1>5. ASSUME NEW w \in Writers, Write(w) PROVE FileInv' /\ ChainIntact'
  <2>1. /\ ~torn /\ head[w] = HeadHash(lines) /\ pc[w] = "headed"
        /\ lines' = Append(lines, Line(w, head[w]))
        /\ torn' = FALSE /\ head' = head /\ synced' = synced
        /\ pc' = [pc EXCEPT ![w] = "written"]
    BY <1>5 DEF Write
  <2>2. \A v \in Writers \ {w} : pc[v] \notin Locked
    BY <2>1 DEF LockInv
  <2>3. /\ Len(lines') = Len(lines) + 1
        /\ lines'[Len(lines')] = Line(w, head[w])
    BY <1>0, <2>1, AppendOwn
  <2>4. ChainIntact'
    BY <1>0, <2>1, AppendChained
  <2>5. FileInv'
    BY <1>0, <2>1, <2>2, <2>3
  <2>. QED  BY <2>4, <2>5
<1>6. ASSUME NEW w \in Writers, ShortWrite(w) PROVE FileInv' /\ ChainIntact'
  <2>1. \A v \in Writers \ {w} : pc[v] \notin Locked
    BY <1>6 DEF LockInv, ShortWrite
  <2>. QED  BY <1>0, <1>6, <2>1 DEF ShortWrite
<1>7. ASSUME NEW w \in Writers, Fsync(w) PROVE FileInv' /\ ChainIntact'
  BY <1>0, <1>7 DEF Fsync, Flushed
<1>8. ASSUME NEW w \in Writers, Return(w) PROVE FileInv' /\ ChainIntact'
  BY <1>0, <1>8 DEF Return
<1>9. ASSUME NEW w \in Writers, Crash(w) PROVE FileInv' /\ ChainIntact'
  BY <1>0, <1>9 DEF Crash
<1>10. CASE PowerLoss
  <2>1. PICK n \in synced..Len(lines) : lines' = SubSeq(lines, 1, n)
    BY <1>10 DEF PowerLoss
  <2>2. n \in 0..Len(lines)
    BY <1>0
  <2>3. ChainIntact'
    BY <1>0, <2>1, <2>2, PrefixChained
  <2>4. FileInv'
    BY <1>10 DEF PowerLoss
  <2>. QED  BY <2>3, <2>4
<1>11. CASE (\E p \in Pollers : Poll(p)) \/ Repair \/ UNCHANGED vars
  BY <1>11 DEF Poll, Repair, vars
<1>. QED
  BY <1>1, <1>2, <1>3, <1>4, <1>5, <1>6, <1>7, <1>8, <1>9, <1>10, <1>11 DEF Next, Step

(* ledger/chain.py: whatever the processes do, verify_chain finds no break *)
(* in a ledger only append_event has written.                              *)
THEOREM ChainStaysIntact == Spec => []ChainIntact
<1>1. Init => FileInv /\ ChainIntact
  BY DEF Init, FileInv, ChainIntact, Chained, BrokenLinks, Cleared, Recorded
<1>2. TypeOK /\ LockInv /\ (FileInv /\ ChainIntact) /\ [Next]_vars
        => (FileInv /\ ChainIntact)'
  BY FileStep
<1>. QED  BY <1>1, <1>2, TypeCorrect, MutualExclusion, PTL DEF Spec

(* What a writer inside the lock knows of the file holds in every state.   *)
LEMMA FileInvariant == Spec => []FileInv
<1>1. Init => FileInv /\ ChainIntact
  BY DEF Init, FileInv, ChainIntact, Chained, BrokenLinks, Cleared, Recorded
<1>2. TypeOK /\ LockInv /\ (FileInv /\ ChainIntact) /\ [Next]_vars
        => (FileInv /\ ChainIntact)'
  BY FileStep
<1>. QED  BY <1>1, <1>2, TypeCorrect, MutualExclusion, PTL DEF Spec

-----------------------------------------------------------------------------
(* How a step may change the lines: below the synced mark never, and the   *)
(* mark never moves down.                                                  *)
LEMMA DurableStep ==
  ASSUME TypeOK, [Next]_vars
  PROVE  /\ synced <= synced' /\ synced' <= Len(lines')
         /\ \A i \in 1..synced : lines'[i] = lines[i]
<1>. USE DEF file, writers, pollers
<1>0. /\ lines \in Seq({lines[i] : i \in DOMAIN lines})
      /\ Len(lines) \in Nat /\ synced \in 0..Len(lines)
  BY DEF TypeOK
<1>1. ASSUME NEW w \in Writers, Write(w)
      PROVE  /\ synced <= synced' /\ synced' <= Len(lines')
             /\ \A i \in 1..synced : lines'[i] = lines[i]
  <2>1. PICK e : lines' = Append(lines, e)
    BY <1>1 DEF Write
  <2>. QED  BY <1>0, <1>1, <2>1, AppendOwn DEF Write
<1>2. ASSUME NEW w \in Writers, Fsync(w)
      PROVE  /\ synced <= synced' /\ synced' <= Len(lines')
             /\ \A i \in 1..synced : lines'[i] = lines[i]
  BY <1>0, <1>2 DEF Fsync, Flushed
<1>3. ASSUME PowerLoss
      PROVE  /\ synced <= synced' /\ synced' <= Len(lines')
             /\ \A i \in 1..synced : lines'[i] = lines[i]
  <2>1. PICK n \in synced..Len(lines) : lines' = SubSeq(lines, 1, n) /\ synced' = n
    BY <1>3 DEF PowerLoss
  <2>. QED  BY <1>0, <2>1, PrefixOwn
<1>4. ASSUME lines' = lines, synced' = synced
      PROVE  /\ synced <= synced' /\ synced' <= Len(lines')
             /\ \A i \in 1..synced : lines'[i] = lines[i]
  BY <1>0, <1>4
<1>5. \/ (\E w \in Writers : Write(w) \/ Fsync(w)) \/ PowerLoss
      \/ lines' = lines /\ synced' = synced
  BY DEF Next, Step, vars, OpenFile, Lock, CheckFinalLine, ReadHead, ShortWrite, Return,
         Crash, Poll, Repair
<1>. QED  BY <1>1, <1>2, <1>3, <1>4, <1>5

(* append_event returns only after the fsync: an event whose append was    *)
(* acknowledged survives every later crash, power loss and repair.         *)
THEOREM AckedStaysDurable == Spec => []AckedIsDurable
<1>1. Init => AckedIsDurable
  BY DEF Init, AckedIsDurable
<1>2. TypeOK /\ TypeOK' /\ FileInv /\ AckedIsDurable /\ [Next]_vars => AckedIsDurable'
  <2> SUFFICES ASSUME TypeOK, TypeOK', FileInv, AckedIsDurable, [Next]_vars
               PROVE  AckedIsDurable'
    OBVIOUS
  <2>0. synced \in Nat /\ synced' \in Nat
    <3>1. /\ lines \in Seq({lines[i] : i \in DOMAIN lines}) /\ synced \in 0..Len(lines)
          /\ lines' \in Seq({lines'[i] : i \in DOMAIN lines'}) /\ synced' \in 0..Len(lines')
      BY DEF TypeOK
    <3>. QED  BY <3>1
  <2>1. {lines[i] : i \in 1..synced} \subseteq {lines'[i] : i \in 1..synced'}
    BY <2>0, DurableStep
  <2>2. ASSUME NEW w \in Writers, Return(w)
        PROVE  AckedIsDurable'
    <3>1. /\ Line(w, head[w]) = lines[synced] /\ synced \in 1..synced
          /\ acked' = acked \cup {Line(w, head[w])}
      BY <2>0, <2>2 DEF FileInv, Recorded, Return
    <3>. QED  BY <2>1, <3>1 DEF AckedIsDurable
  <2>3. CASE acked' = acked
    BY <2>1, <2>3 DEF AckedIsDurable
  <2>. QED
    BY <2>2, <2>3 DEF Next, Step, vars, file, writers, pollers, OpenFile, Lock,
       CheckFinalLine, ReadHead, Write, ShortWrite, Fsync, Crash, PowerLoss, Poll, Repair
<1>. QED  BY <1>1, <1>2, TypeCorrect, FileInvariant, PTL DEF Spec

-----------------------------------------------------------------------------
(* Two files that agree up to n have the same first n lines, read directly *)
(* or out of a longer prefix.                                              *)
LEMMA AgreeingPrefix ==
  ASSUME NEW s, s \in Seq({s[i] : i \in DOMAIN s}), NEW n \in 0..Len(s),
         NEW t, t \in Seq({t[i] : i \in DOMAIN t}), NEW k \in n..Len(t),
         \A i \in 1..n : t[i] = s[i]
  PROVE  SubSeq(SubSeq(t, 1, k), 1, n) = SubSeq(s, 1, n)
<1> DEFINE a == SubSeq(s, 1, n)
           b == SubSeq(t, 1, k)
           c == SubSeq(b, 1, n)
           S == {a[i] : i \in DOMAIN a} \cup {c[i] : i \in DOMAIN c}
<1>0. Len(s) \in Nat /\ Len(t) \in Nat /\ n \in Nat /\ k \in 0..Len(t)
  OBVIOUS
<1>1. /\ a \in Seq({a[i] : i \in DOMAIN a}) /\ Len(a) = n
      /\ \A i \in 1..n : a[i] = s[i]
  BY PrefixOwn
<1>2. /\ b \in Seq({b[i] : i \in DOMAIN b}) /\ Len(b) = k
      /\ \A i \in 1..k : b[i] = t[i]
  BY <1>0, PrefixOwn
<1>. HIDE DEF a, b
<1>2a. n \in 0..Len(b)
  BY <1>0, <1>2
<1>3. /\ c \in Seq({c[i] : i \in DOMAIN c}) /\ Len(c) = n
      /\ \A i \in 1..n : c[i] = b[i]
  BY <1>2, <1>2a, PrefixOwn
<1>. HIDE DEF c
<1>4. ASSUME NEW i \in 1..n
      PROVE  c[i] = a[i]
  <2>1. i \in 1..k /\ i \in 1..n
    BY <1>0
  <2>2. c[i] = b[i] /\ b[i] = t[i] /\ a[i] = s[i] /\ t[i] = s[i]
    BY <1>1, <1>2, <1>3, <2>1
  <2>. QED  BY <2>2
<1>5. a \in Seq(S) /\ c \in Seq(S)
  BY <1>1, <1>3
<1>. HIDE DEF S
<1>6. c = a
  BY <1>1, <1>3, <1>4, <1>5, SeqEqual
<1>. QED  BY <1>6 DEF a, b, c

(* The durable lines implement the abstract log: a step either leaves them *)
(* alone or extends them at the end, and they stay a chain.                *)
THEOREM LedgerImplementsLog == Spec => ImplementsLog
<1> DEFINE log == SubSeq(lines, 1, synced)
<1>1. Init => log = <<>>
  BY DEF Init
<1>2. TypeOK /\ TypeOK' /\ ChainIntact' /\ [Next]_vars => [Durable!Extend]_log
  <2> SUFFICES ASSUME TypeOK, TypeOK', ChainIntact', [Next]_vars, log' # log
               PROVE  Durable!Extend
    OBVIOUS
  <2>0. /\ lines \in Seq({lines[i] : i \in DOMAIN lines}) /\ synced \in 0..Len(lines)
        /\ lines' \in Seq({lines'[i] : i \in DOMAIN lines'}) /\ synced' \in 0..Len(lines')
    BY DEF TypeOK
  <2>1. Len(log) = synced /\ \A i \in 1..synced : log[i] = lines[i]
    BY <2>0, PrefixOwn
  <2>2. Len(log') = synced' /\ \A i \in 1..synced' : log'[i] = lines'[i]
    BY <2>0, PrefixOwn
  <2>3. Chained(log')
    BY <2>0, PrefixChained DEF ChainIntact
  <2>4. /\ synced <= synced' /\ synced \in Nat /\ synced' \in Nat
        /\ \A i \in 1..synced : lines'[i] = lines[i]
    BY <2>0, DurableStep
  <2>5. synced' \in synced..Len(lines')
    BY <2>0, <2>4
  <2>6. SubSeq(log', 1, synced) = log
    <3>1. synced \in 0..Len(lines) /\ \A i \in 1..synced : lines'[i] = lines[i]
      BY <2>0, <2>4
    <3>. QED  BY ONLY <2>0, <2>5, <3>1, AgreeingPrefix
  <2>7. SubSeq(log', 1, synced') = log'
    <3>1. synced' \in 0..Len(lines') /\ synced' \in synced'..Len(lines')
      BY <2>0
    <3>2. \A i \in 1..synced' : lines'[i] = lines'[i]
      OBVIOUS
    <3>. QED  BY ONLY <2>0, <3>1, <3>2, AgreeingPrefix
  <2>8. synced' > synced
    <3>1. ASSUME synced' = synced PROVE FALSE
      <4>1. SubSeq(log', 1, synced') = SubSeq(log', 1, synced)
        BY ONLY <3>1
      <4>2. log' = log
        BY ONLY <2>6, <2>7, <4>1, Zenon
      <4>. QED  BY <4>2
    <3>2. synced' # synced
      BY <3>1
    <3>. QED  BY ONLY <2>4, <3>2
  <2>9. Durable!Chained(log')
    BY <2>3 DEF Chained, BrokenLinks, PrevHashOf, HashLine, GENESIS_PREV_HASH,
       Durable!Chained, Durable!BrokenLinks, Durable!PrevHashOf, Durable!HashLine,
       Durable!GENESIS_PREV_HASH
  <2>10. Len(log') > Len(log) /\ SubSeq(log', 1, Len(log)) = log
    BY <2>1, <2>2, <2>6, <2>8
  <2>. QED  BY <2>9, <2>10 DEF Durable!Extend
<1>. QED  BY <1>1, <1>2, TypeCorrect, ChainStaysIntact, PTL DEF Spec, ImplementsLog, Durable!Spec, Durable!Init

-----------------------------------------------------------------------------
(* query.py tail_events: "every appended event is yielded exactly once".   *)
THEOREM PollersSeeEachLineOnce == Spec => []TailExactlyOnce
<1>1. Init => TailExactlyOnce
  <2>1. \A s : SubSeq(s, 1, 0) = <<>>
    BY SubSeqEmpty
  <2>. QED  BY <2>1 DEF Init, TailExactlyOnce
<1>2. TypeOK /\ TypeOK' /\ TailExactlyOnce /\ [Next]_vars => TailExactlyOnce'
  <2> SUFFICES ASSUME TypeOK, TypeOK', TailExactlyOnce, [Next]_vars
               PROVE  TailExactlyOnce'
    OBVIOUS
  <2>. USE DEF file, writers, pollers
  <2>0. /\ lines \in Seq({lines[i] : i \in DOMAIN lines})
        /\ lines' \in Seq({lines'[i] : i \in DOMAIN lines'})
        /\ Len(lines) \in Nat
        /\ cursor \in [Pollers -> Nat] /\ DOMAIN yielded = Pollers
    BY DEF TypeOK
  <2>1. ASSUME NEW p \in Pollers, Poll(p)
        PROVE  TailExactlyOnce'
    <3>a. /\ yielded' = [yielded EXCEPT ![p] = yielded[p] \o Fresh(p)]
          /\ cursor' = [cursor EXCEPT ![p] = Len(lines)]
          /\ lines' = lines
      BY <2>1 DEF Poll, NextOffset
    <3>b. cursor[p] \in 0..Len(lines) /\ yielded[p] = SubSeq(lines, 1, cursor[p])
      BY <2>0 DEF TailExactlyOnce
    <3>c. 1 \in 1..Len(lines)+1 /\ cursor[p] \in 1-1..Len(lines)
          /\ Len(lines) \in cursor[p]..Len(lines)
      BY <2>0, <3>b
    <3>2. SubSeq(lines, 1, cursor[p]) \o SubSeq(lines, cursor[p] + 1, Len(lines))
            = SubSeq(lines, 1, Len(lines))
      BY ONLY <2>0, <3>c, ConcatAdjacentSubSeq
    <3>3. yielded'[p] = SubSeq(lines', 1, cursor'[p]) /\ cursor'[p] <= Len(lines')
      <4>1. yielded'[p] = yielded[p] \o Fresh(p) /\ cursor'[p] = Len(lines)
        BY <2>0, <3>a
      <4>2. yielded[p] \o Fresh(p) = SubSeq(lines, 1, Len(lines))
        BY <3>b, <3>2, Zenon DEF Fresh
      <4>. QED  BY <2>0, <3>a, <4>1, <4>2
    <3>4. ASSUME NEW q \in Pollers \ {p}
          PROVE  yielded'[q] = SubSeq(lines', 1, cursor'[q]) /\ cursor'[q] <= Len(lines')
      BY <2>0, <3>a DEF TailExactlyOnce
    <3>. QED  BY <3>3, <3>4 DEF TailExactlyOnce
  <2>2. ASSUME NEW w \in Writers, Write(w)
        PROVE  TailExactlyOnce'
    <3>1. PICK e : lines' = Append(lines, e)
      BY <2>2 DEF Write
    <3>2. Len(lines') = Len(lines) + 1 /\ \A i \in 1..Len(lines) : lines'[i] = lines[i]
      BY ONLY <2>0, <3>1, AppendOwn
    <3>3. ASSUME NEW p \in Pollers
          PROVE  SubSeq(lines', 1, cursor[p]) = SubSeq(lines, 1, cursor[p])
      <4>1. cursor[p] \in 0..Len(lines) /\ cursor[p] \in cursor[p]..Len(lines')
        BY <2>0, <3>2 DEF TailExactlyOnce
      <4>2. \A i \in 1..cursor[p] : lines'[i] = lines[i] /\ lines'[i] = lines'[i]
        BY <3>2, <4>1
      <4>3. SubSeq(SubSeq(lines', 1, cursor[p]), 1, cursor[p]) = SubSeq(lines, 1, cursor[p])
        BY <2>0, <4>1, <4>2, AgreeingPrefix
      <4>4. cursor[p] \in 0..Len(lines')
        BY <2>0, <3>2, <4>1
      <4>5. SubSeq(SubSeq(lines', 1, cursor[p]), 1, cursor[p]) = SubSeq(lines', 1, cursor[p])
        BY <2>0, <4>1, <4>2, <4>4, AgreeingPrefix
      <4>. QED  BY <4>3, <4>5
    <3>. QED  BY <2>0, <2>2, <3>2, <3>3 DEF Write, TailExactlyOnce
  <2>3. CASE PowerLoss
    <3>1. \A s : SubSeq(s, 1, 0) = <<>>
      BY SubSeqEmpty
    <3>2. Len(lines') \in Nat
      BY <2>0
    <3>3. cursor' = [p \in Pollers |-> 0] /\ yielded' = [p \in Pollers |-> <<>>]
      BY <2>3 DEF PowerLoss
    <3>. QED  BY <3>1, <3>2, <3>3 DEF TailExactlyOnce
  <2>4. CASE UNCHANGED <<lines, cursor, yielded>>
    BY <2>4 DEF TailExactlyOnce
  <2>. QED
    BY <2>1, <2>2, <2>3, <2>4 DEF Next, Step, vars, OpenFile, Lock, CheckFinalLine, ReadHead,
       ShortWrite, Fsync, Return, Crash, Repair
<1>. QED  BY <1>1, <1>2, TypeCorrect, PTL DEF Spec
=============================================================================
