------------------------------- MODULE Chain -------------------------------
(***************************************************************************)
(* The pure part of src/harness/ledger/chain.py: what a ledger line is,    *)
(* how lines are linked, and what verify_chain accepts.                    *)
(*                                                                         *)
(* sha256 is modelled as an injection: the hash of a line is a tagged copy *)
(* of it, so two lines have one hash exactly when they are the same line,  *)
(* and (since a line carries the hash of the line before it) a hash stands *)
(* for the whole history it closes.                                        *)
(***************************************************************************)
EXTENDS Naturals, Sequences

GENESIS_PREV_HASH == <<"genesis">>
HashLine(line)    == <<"sha256", line>>

(* One canonical event line, the terminating newline left out.             *)
Line(event, prev) == [event |-> event, prev_hash |-> prev]

(* A complete line that is not one JSON object: what appending onto an     *)
(* unterminated tail would leave, two events run together.                 *)
SplicedLine == [event |-> <<"spliced">>, prev_hash |-> <<"unreadable">>]

PrevHashOf(lines, i) == IF i = 1 THEN GENESIS_PREV_HASH ELSE HashLine(lines[i - 1])
HeadHash(lines)      == PrevHashOf(lines, Len(lines) + 1)

(* Line numbers at which the walk of verify_chain would stop.              *)
BrokenLinks(lines) == {i \in 1..Len(lines) : lines[i].prev_hash # PrevHashOf(lines, i)}
Chained(lines)     == BrokenLinks(lines) = {}

(* verify_chain on a file that exists: torn says that its last byte is not *)
(* a newline. The line number it reports is the first broken link.         *)
VerifyChain(lines, torn) == ~torn /\ Chained(lines)
ReportedLine(lines, torn) ==
  IF torn THEN Len(lines) + 1
          ELSE CHOOSE i \in BrokenLinks(lines) : \A j \in BrokenLinks(lines) : i <= j
=============================================================================
