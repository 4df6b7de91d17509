--------------------------- MODULE AppendOnlyLog ---------------------------
(***************************************************************************)
(* What the ledger promises its readers: a history that starts empty, only *)
(* ever grows at its end, and is at every moment one unbroken hash chain.  *)
(***************************************************************************)
EXTENDS Chain

VARIABLE log

Init == log = <<>>

(* One or more lines become part of the history; none that was there is    *)
(* changed, and the links stay intact.                                     *)
Extend == /\ Len(log') > Len(log)
          /\ SubSeq(log', 1, Len(log)) = log
          /\ Chained(log')

Spec == Init /\ [][Extend]_log
=============================================================================
