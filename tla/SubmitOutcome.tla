---------------------------- MODULE SubmitOutcome ----------------------------
(***************************************************************************)
(* What CmppConnection::submit promises for one accepted sequence id: the  *)
(* consumer learns one final outcome, or the event is counted as dropped,  *)
(* and nothing happens to the id after that (Event::SubmitDropped).        *)
(***************************************************************************)
CONSTANT Ids

Terminals == {"resp", "timeout", "dropped"}
Final     == Terminals \cup {"lost"}

VARIABLE fate

TypeOK == fate \in [Ids -> {"none", "accepted"} \cup Final]

Init == fate = [i \in Ids |-> "none"]

Accept(i) == /\ fate[i] = "none"
             /\ fate' = [fate EXCEPT ![i] = "accepted"]

\* A failing step may conclude several ids at once: teardown publishes its
\* SubmitDropped events in batches.
Conclude(S, kind) == /\ \A i \in S : fate[i] = "accepted"
                     /\ fate' = [i \in Ids |-> IF i \in S THEN kind ELSE fate[i]]

Next == \/ \E i \in Ids : Accept(i)
        \/ \E S \in SUBSET Ids, kind \in Final : Conclude(S, kind)

ConcludeOne(i) == \E S \in SUBSET Ids, kind \in Final : i \in S /\ Conclude(S, kind)

Safety == Init /\ [][Next]_fate

Spec == Safety /\ \A i \in Ids : WF_fate(ConcludeOne(i))
=============================================================================
