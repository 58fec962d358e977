------------------------- MODULE MCConnectionClose -------------------------
(* Instances of ConnectionClose for TLC. *)
EXTENDS ConnectionClose

CONSTANTS c1, c2, r1, r2
\* Both callers on the runtime of the connection, or one on a runtime of its own.
HomeOne == [c \in Callers |-> r1]
HomeTwo == c1 :> r1 @@ c2 :> r2
=============================================================================
