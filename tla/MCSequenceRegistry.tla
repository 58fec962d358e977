------------------------- MODULE MCSequenceRegistry -------------------------
(* Instances of SequenceRegistry for TLC, and the loop of reserve_next. *)
EXTENDS SequenceRegistry

(***************************************************************************)
(* reserve_next as the code writes it: one iteration per RECURSIVE call,   *)
(* on the record of the fields it changes.                                 *)
(***************************************************************************)
RECURSIVE Loop(_)
Loop(r) ==
    LET i     == r.next
        below == {s \in Ids : r.table[s] # NoRange /\ s <= i}
        start == CHOOSE s \in below : \A t \in below : t <= s
        hit   == below # {} /\ i <= r.table[start]
        end   == r.table[start]
        trimmed == [r.table EXCEPT ![start] = IF start < AutoStart THEN AutoStart - 1 ELSE NoRange]
    IN IF i = NoNext THEN [r EXCEPT !.result = NoNext]
       ELSE IF hit THEN Loop([r EXCEPT !.used = end, !.next = end + 1, !.table = trimmed])
       ELSE IF i \in reserved THEN Loop([r EXCEPT !.used = i, !.next = i + 1])
       ELSE [r EXCEPT !.used = i, !.next = i + 1, !.result = i]

LoopResult == Loop([next |-> next, used |-> used, table |-> retired, result |-> NoNext])

\* reserve_next's walk over the table ends where the loop of the code ends,
\* with the same prefix and the same table.
Walked(i) == [next |-> next', used |-> used', table |-> retired', result |-> i]
ReserveNextIsLoop ==
    [][/\ \A i \in Ids : ReserveNext(i) => LoopResult = Walked(i)
       /\ ReserveNextFails => LoopResult = Walked(NoNext)]_vars
=============================================================================
