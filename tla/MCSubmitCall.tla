---------------------------- MODULE MCSubmitCall ----------------------------
(* Instances of SubmitCall for TLC. *)
EXTENDS SubmitCall

CONSTANTS a, b, c

\* A long message and a short one with manual ids, and a long message that
\* does not fit in the window at once.
Lengths == [x \in Calls |-> IF x = a THEN 2 ELSE IF x = b THEN 1 ELSE 3]
=============================================================================
