------------------------------- MODULE Parens -------------------------------
(***************************************************************************)
(* What every producer-consumer program of the repository promises.  The   *)
(* programs print "(" for a produced and ")" for a consumed item, and the  *)
(* printed text must be a prefix of a balanced string whose nesting never  *)
(* exceeds n (thread-synchronization/pc.c, lines 1-9).  pc-check.py is the *)
(* repository's own monitor of that promise: it keeps the nesting depth of *)
(* the text read so far and asserts 0 <= count <= limit after every        *)
(* character.  `depth' is that counter.                                    *)
(***************************************************************************)
EXTENDS Integers

CONSTANT n                      \* pc-check.py: limit; the programs: atoi(argv[1])

VARIABLE depth                  \* pc-check.py: count

Init == depth = 0

\* A "(" appears in the output.
Open == depth < n /\ depth' = depth + 1

\* A ")" appears in the output.
Close == depth > 0 /\ depth' = depth - 1

Next == Open \/ Close

\* Printing never stops: the monitor's `while True' always has a next character.
Spec == Init /\ [][Next]_depth /\ WF_depth(Next)
=============================================================================
