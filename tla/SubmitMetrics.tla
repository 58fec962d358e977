--------------------------- MODULE SubmitMetrics ---------------------------
(***************************************************************************)
(* ConnectionMetrics (src/connection.rs) beside the SUBMIT pipeline: the   *)
(* counters that the pipeline's handlers increment, each in the step in    *)
(* which the code does.  Of events_dropped it keeps whose events were      *)
(* counted, so that what is missed can be told from what is extra.         *)
(***************************************************************************)
EXTENDS SubmitPipeline

VARIABLES admitted, responses, timeouts,  \* submits_admitted, submit_*
          dropped                           \* ids with an event in events_dropped

counters == <<admitted, responses, timeouts, dropped>>

InitMetrics ==
    /\ Init /\ admitted = 0 /\ responses = 0 /\ timeouts = 0
    /\ dropped = {}

\* metrics(): submits_in_flight is what is missing of the window.
SubmitsInFlight == Window - permits

-----------------------------------------------------------------------------
\* An event of every id of S is counted as dropped.
Drop(S) == dropped' = dropped \cup S

\* The ids whose terminal event the step gives up.
NewlyLost == {i \in Ids : lost[i] = "no" /\ lost'[i] # "no"}

CountAdmit(i) ==
    /\ Admit(i) /\ admitted' = admitted + 1
    /\ UNCHANGED <<responses, timeouts, dropped>>

\* Mutant of CountResp: a response whose event is given up is not a response.
CountRespDelivered(i) ==
    /\ EmitResp(i) /\ Drop(NewlyLost)
    /\ responses' = responses + IF NewlyLost = {} THEN 1 ELSE 0
    /\ UNCHANGED <<admitted, timeouts>>

\* flush_submit_resps: every matched response counts, delivered or not.
CountResp(i) ==
    /\ EmitResp(i) /\ Drop(NewlyLost) /\ responses' = responses + 1
    /\ UNCHANGED <<admitted, timeouts>>

\* emit_event counts the SubmitTimeout it refuses, although the entry stays
\* and its terminal is still owed.
CountTimeout(k) ==
    /\ TimeoutExhausted(k)
    /\ IF st'[k.id] = "absent"
       THEN timeouts' = timeouts + 1 /\ UNCHANGED dropped
       ELSE Drop({k.id}) /\ UNCHANGED timeouts
    /\ UNCHANGED <<admitted, responses>>

\* fail_all_pending counts the chunk it gives up.
CountCleanup ==
    /\ CleanupSend /\ Drop(NewlyLost)
    /\ UNCHANGED <<admitted, responses, timeouts>>

\* The steps that touch none of these counters.
Uncounted ==
    \/ \E i \in Ids : AcquirePermit(i) \/ ReserveSlot(i) \/ Abandon(i) \/ Refuse(i)
    \/ Writer \/ Match \/ PeerTerminateAnswered \/ Peer
    \/ TimerTick \/ TimerScan \/ TimerRest
    \/ \E k \in tkeys : TimeoutRetry(k) \/ TimeoutSkip(k) \/ TimeoutStop(k)
    \/ Backpressure \/ Overload \/ CloseCall \/ Close \/ OtherFinish
    \/ CleanupClear \/ CleanupFail \/ CleanupClose

NextMetrics ==
    \/ \E i \in Ids : CountAdmit(i) \/ CountResp(i)
    \/ \E k \in tkeys : CountTimeout(k)
    \/ CountCleanup
    \/ Uncounted /\ UNCHANGED counters

SpecMetrics == InitMetrics /\ [][NextMetrics]_<<vars, counters>>

\* The pipeline's fairness: counting blocks no step.
FairMetrics == SpecMetrics /\ Fairness

-----------------------------------------------------------------------------
\* Properties.

Having(P(_)) == Cardinality({i \in Ids : P(i)})
Unfinished(i) == st[i] \in Live \/ i \in remit \/ i \in dropList
Torn(i)       == outcome[i] = "dropped" \/ lost[i] = "budget"

\* The counters balance after every step: what was admitted is under way, was
\* answered, timed out, or was torn down, and nothing is counted twice
\* (submits_admitted, submit_responses, submit_timeouts).
CountersBalance == admitted = responses + timeouts + Having(Unfinished) + Having(Torn)

\* events_dropped misses no terminal that the consumer never gets.  It may
\* count an id that gets one all the same, but only in one way: its
\* SubmitTimeout was refused, once the spool had given up, and teardown then
\* reported the entry as dropped.
DropsCounted ==
    \A i \in Ids :
        /\ lost[i] # "no" => i \in dropped
        /\ i \in dropped /\ lost[i] = "no" => adm \notin Accepts
        /\ i \in dropped /\ delivered[i] > 0 => outcome[i] = "dropped"

\* What metrics() reports of SUBMITs is true: the counters balance, and
\* events_dropped misses nothing.
CountersTrue == CountersBalance /\ DropsCounted

\* Not true of the code, see the README.
\* submits_in_flight is documented as the SUBMITs admitted and not concluded.
InFlightAsDocumented ==
    SubmitsInFlight = Having(LAMBDA i : sub[i] = "admitted" /\ outcome[i] = "none" /\ lost[i] = "no")
=============================================================================
