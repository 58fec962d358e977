----------------------------- MODULE Heartbeat -----------------------------
(***************************************************************************)
(* ACTIVE_TEST keep-alives of one connection (src/connection.rs): the      *)
(* heartbeat task starts one when none is outstanding, the writer claims   *)
(* and writes it, the reader removes it when it is answered, and the       *)
(* timeout task sends it again or, after retry_count attempts, finishes    *)
(* the connection.                                                         *)
(*                                                                         *)
(* heartbeat_pending is pend[b] with the attempt att[b]; a heartbeat has a *)
(* sequence id of its own, so heartbeat_id is redundant.  The control      *)
(* queue also carries the reader's responses, which can fill it.  Time is  *)
(* a choice: an attempt that was written may expire at any scan.           *)
(***************************************************************************)
EXTENDS Integers, Sequences, FiniteSets

CONSTANTS RetryCount,  \* retry_count: attempts, the first included
          QueueCap,    \* CONTROL_CHANNEL_CAPACITY
          MaxBeats,    \* bound: heartbeats of the run
          MaxOther     \* bound: other control frames of the run

ASSUME HeartbeatAssumption ==
    /\ RetryCount \in Nat \ {0} /\ QueueCap \in Nat \ {0}
    /\ MaxBeats \in Nat /\ MaxOther \in Nat

Beats == 1 .. MaxBeats
Key   == [beat : Beats, attempt : 1 .. RetryCount]
Other == [other |-> TRUE]
None  == [none |-> TRUE]

VARIABLES
    connPhase,               \* ConnectionPhase
    pend, att,               \* heartbeat_pending
    queue, others,           \* control_tx; other frames queued so far
    hpc, lastBeat,           \* heartbeat task: step, number of the last heartbeat
    wstep, claimed, wbatch,  \* writer: step, frame just claimed, batch
    tpc, tkey,               \* timeout task: step, expired attempt it found
    claims, wrote,           \* history: claims and complete writes of a heartbeat
    answered                 \* history: heartbeats whose response was read

entry    == <<pend, att>>
ctl      == <<queue, others>>
beat     == <<hpc, lastBeat>>
wtr      == <<wstep, claimed, wbatch>>
tmo      == <<tpc, tkey>>
beatHist == <<claims, wrote, answered>>
beatVars == <<connPhase, entry, ctl, beat, wtr, tmo, beatHist>>

TypeBeats ==
    /\ connPhase \in {"Open", "Closing", "Closed"}
    /\ pend \in [Beats -> {"absent", "Queued", "Writing", "Awaiting"}]
    /\ att \in [Beats -> 0 .. RetryCount]
    /\ queue \in Seq(Key \cup {Other}) /\ Len(queue) <= QueueCap /\ others \in 0 .. MaxOther
    /\ hpc \in {"tick", "slot", "done"} /\ lastBeat \in 0 .. MaxBeats
    /\ wstep \in {"pick", "check", "write", "done"} /\ claimed \in SUBSET Key /\ wbatch \in SUBSET Key
    /\ tpc \in {"scan", "act", "finish", "done"} /\ tkey \in Key \cup {None}
    /\ claims \in [Beats -> Nat] /\ wrote \in [Beats -> Nat] /\ answered \in SUBSET Beats

InitBeats ==
    /\ connPhase = "Open"
    /\ pend = [b \in Beats |-> "absent"] /\ att = [b \in Beats |-> 0]
    /\ queue = <<>> /\ others = 0 /\ hpc = "tick" /\ lastBeat = 0
    /\ wstep = "pick" /\ claimed = {} /\ wbatch = {}
    /\ tpc = "scan" /\ tkey = None
    /\ claims = [b \in Beats |-> 0] /\ wrote = [b \in Beats |-> 0] /\ answered = {}

-----------------------------------------------------------------------------
Room == wstep # "done" /\ Len(queue) < QueueCap

\* Mutant of HasPending: a heartbeat that waits for its write is forgotten.
AwaitedOnly == \E b \in Beats : pend[b] = "Awaiting"

HasPending == \E b \in Beats : pend[b] # "absent"

Finish == connPhase' = "Closed"

-----------------------------------------------------------------------------
\* heartbeat_task

\* A tick with none outstanding takes a sequence id; without one, finish.
HeartbeatTick ==
    /\ hpc = "tick" /\ connPhase = "Open" /\ ~HasPending /\ lastBeat < MaxBeats
    /\ \/ hpc' = "slot" /\ lastBeat' = lastBeat + 1 /\ UNCHANGED connPhase
       \/ hpc' = "done" /\ Finish /\ UNCHANGED lastBeat
    /\ UNCHANGED <<entry, ctl, wtr, tmo, beatHist>>

\* A slot of the control queue; map and phase are looked at again under the
\* locks.  Nobody else inserts, so it is the phase that can have changed.
HeartbeatQueue ==
    /\ hpc = "slot" /\ Room
    /\ IF connPhase = "Open" /\ ~HasPending
       THEN /\ pend' = [pend EXCEPT ![lastBeat] = "Queued"] /\ att' = [att EXCEPT ![lastBeat] = 1]
            /\ queue' = Append(queue, [beat |-> lastBeat, attempt |-> 1])
       ELSE UNCHANGED <<entry, queue>>
    /\ hpc' = IF connPhase = "Open" THEN "tick" ELSE "done"
    /\ UNCHANGED <<connPhase, others, lastBeat, wtr, tmo, beatHist>>

\* Not Open any more, or the control channel is closed.
HeartbeatStop ==
    /\ hpc # "done" /\ hpc' = "done"
    /\ \/ connPhase # "Open" /\ UNCHANGED connPhase
       \/ hpc = "slot" /\ wstep = "done" /\ IF connPhase = "Open" THEN Finish ELSE UNCHANGED connPhase
    /\ UNCHANGED <<entry, ctl, lastBeat, wtr, tmo, beatHist>>

-----------------------------------------------------------------------------
\* writer_task, the control frames.

Claimable(k) == connPhase = "Open" /\ pend[k.beat] = "Queued" /\ att[k.beat] = k.attempt

\* Mutant of WriterPick: every frame taken from the queue is written.
PickUnclaimed ==
    /\ wstep = "pick" /\ queue # <<>> /\ queue' = Tail(queue)
    /\ IF Head(queue) # Other /\ connPhase = "Open"
       THEN /\ pend' = [pend EXCEPT ![Head(queue).beat] = "Writing"]
            /\ claims' = [claims EXCEPT ![Head(queue).beat] = @ + 1]
            /\ wstep' = "check" /\ claimed' = {Head(queue)}
       ELSE UNCHANGED <<pend, claims, wstep, claimed>>
    /\ UNCHANGED <<connPhase, att, others, beat, wbatch, tmo, wrote, answered>>

\* One frame of the queue: claim_heartbeat_attempt, or skip a stale one.
WriterPick ==
    /\ wstep = "pick" /\ queue # <<>> /\ queue' = Tail(queue)
    /\ IF Head(queue) # Other /\ Claimable(Head(queue))
       THEN /\ pend' = [pend EXCEPT ![Head(queue).beat] = "Writing"]
            /\ claims' = [claims EXCEPT ![Head(queue).beat] = @ + 1]
            /\ wstep' = "check" /\ claimed' = {Head(queue)}
       ELSE UNCHANGED <<pend, claims, wstep, claimed>>
    /\ UNCHANGED <<connPhase, att, others, beat, wbatch, tmo, wrote, answered>>

\* open_only: the phase is read again after the claim.
WriterCheck ==
    /\ wstep = "check" /\ wstep' = "pick" /\ claimed' = {}
    /\ wbatch' = IF connPhase = "Open" THEN wbatch \cup claimed ELSE wbatch
    /\ UNCHANGED <<connPhase, entry, ctl, beat, tmo, beatHist>>

WriterBegin ==
    /\ wstep = "pick" /\ wbatch # {} /\ wstep' = "write"
    /\ UNCHANGED <<connPhase, entry, ctl, beat, claimed, wbatch, tmo, beatHist>>

\* Mutant of WriterComplete: the wait for the answer does not start.
CompleteForgets ==
    /\ wstep = "write" /\ wstep' = "pick" /\ wbatch' = {}
    /\ wrote' = [b \in Beats |-> wrote[b] + IF \E k \in wbatch : k.beat = b THEN 1 ELSE 0]
    /\ UNCHANGED <<connPhase, entry, ctl, beat, claimed, tmo, claims, answered>>

\* complete_heartbeat_attempt: the timeout counts from the complete write.
WriterComplete ==
    /\ wstep = "write" /\ wstep' = "pick" /\ wbatch' = {}
    /\ pend' = [b \in Beats |->
                   IF pend[b] = "Writing" /\ \E k \in wbatch : k.beat = b /\ k.attempt = att[b]
                   THEN "Awaiting" ELSE pend[b]]
    /\ wrote' = [b \in Beats |-> wrote[b] + IF \E k \in wbatch : k.beat = b THEN 1 ELSE 0]
    /\ UNCHANGED <<connPhase, att, ctl, beat, claimed, tmo, claims, answered>>

\* A write error or a write timeout finishes; Closed ends the task.
WriterEnd ==
    /\ wstep \in {"pick", "write"} /\ wstep' = "done" /\ wbatch' = {}
    /\ \/ wstep = "write" /\ Finish
       \/ connPhase = "Closed" /\ UNCHANGED connPhase
    /\ UNCHANGED <<entry, ctl, beat, claimed, tmo, beatHist>>

-----------------------------------------------------------------------------
\* The reader, and the peer behind it.

\* The peer answers a heartbeat it has begun to receive.
Answer(b) ==
    /\ connPhase # "Closed" /\ b \notin answered
    /\ wrote[b] > 0 \/ (wstep = "write" /\ \E k \in wbatch : k.beat = b)
    /\ pend' = [pend EXCEPT ![b] = "absent"] /\ answered' = answered \cup {b}
    /\ UNCHANGED <<connPhase, att, ctl, beat, wtr, tmo, claims, wrote>>

\* A response of the reader to the peer enters the control queue.
QueueOther ==
    /\ connPhase # "Closed" /\ Room /\ others < MaxOther
    /\ queue' = Append(queue, Other) /\ others' = others + 1
    /\ UNCHANGED <<connPhase, entry, beat, wtr, tmo, beatHist>>

-----------------------------------------------------------------------------
\* timeout_task, the heartbeats.

Expired(k) == pend[k.beat] = "Awaiting" /\ att[k.beat] = k.attempt

TimeoutScan ==
    /\ tpc = "scan" /\ connPhase = "Open"
    /\ \E b \in Beats : /\ pend[b] = "Awaiting"
                        /\ tkey' = [beat |-> b, attempt |-> att[b]]
    /\ tpc' = "act"
    /\ UNCHANGED <<connPhase, entry, ctl, beat, wtr, beatHist>>

\* Mutant of TimeoutExhausted: the map is not looked at again.
ExhaustedUnchecked ==
    /\ tpc = "act" /\ tkey.attempt >= RetryCount
    /\ pend' = [pend EXCEPT ![tkey.beat] = "absent"] /\ tpc' = "finish"
    /\ UNCHANGED <<connPhase, att, ctl, beat, wtr, tkey, beatHist>>

\* Attempts used up, and still unanswered under the lock: remove, then finish.
TimeoutExhausted ==
    /\ tpc = "act" /\ tkey.attempt >= RetryCount
    /\ IF Expired(tkey)
       THEN pend' = [pend EXCEPT ![tkey.beat] = "absent"] /\ tpc' = "finish" /\ UNCHANGED tkey
       ELSE tpc' = "scan" /\ tkey' = None /\ UNCHANGED pend
    /\ UNCHANGED <<connPhase, att, ctl, beat, wtr, beatHist>>

TimeoutFinish ==
    /\ tpc = "finish" /\ tpc' = "done" /\ Finish
    /\ UNCHANGED <<entry, ctl, beat, wtr, tkey, beatHist>>

\* Queue the next attempt; a full queue, an answer or a close leaves it.
TimeoutRetry ==
    /\ tpc = "act" /\ tkey.attempt < RetryCount /\ wstep # "done" /\ tpc' = "scan" /\ tkey' = None
    /\ IF Room /\ connPhase = "Open" /\ Expired(tkey)
       THEN /\ pend' = [pend EXCEPT ![tkey.beat] = "Queued"]
            /\ att' = [att EXCEPT ![tkey.beat] = tkey.attempt + 1]
            /\ queue' = Append(queue, [tkey EXCEPT !.attempt = @ + 1])
       ELSE UNCHANGED <<entry, queue>>
    /\ UNCHANGED <<connPhase, others, beat, wtr, beatHist>>

\* Not Open at a tick, or the control channel is closed.
TimeoutStop ==
    /\ \/ tpc = "scan" /\ connPhase # "Open" /\ UNCHANGED connPhase
       \/ /\ tpc = "act" /\ tkey.attempt < RetryCount /\ wstep = "done"
          /\ IF connPhase = "Open" THEN Finish ELSE UNCHANGED connPhase
    /\ tpc' = "done"
    /\ UNCHANGED <<entry, ctl, beat, wtr, tkey, beatHist>>

-----------------------------------------------------------------------------
\* The rest of the connection.

BeginClosing ==
    /\ connPhase = "Open" /\ connPhase' = "Closing"
    /\ UNCHANGED <<entry, ctl, beat, wtr, tmo, beatHist>>

OtherFinish ==
    /\ connPhase # "Closed" /\ Finish
    /\ UNCHANGED <<entry, ctl, beat, wtr, tmo, beatHist>>

\* The cleanup of finish() clears the map.
CleanupClear ==
    /\ connPhase = "Closed" /\ HasPending
    /\ pend' = [b \in Beats |-> "absent"]
    /\ UNCHANGED <<connPhase, att, ctl, beat, wtr, tmo, beatHist>>

Writer   == WriterPick \/ WriterCheck \/ WriterBegin \/ WriterComplete \/ WriterEnd
Timeouts == TimeoutScan \/ TimeoutExhausted \/ TimeoutFinish \/ TimeoutRetry \/ TimeoutStop

NextBeats ==
    \/ HeartbeatTick \/ HeartbeatQueue \/ HeartbeatStop
    \/ Writer \/ (\E b \in Beats : Answer(b)) \/ QueueOther
    \/ Timeouts \/ BeginClosing \/ OtherFinish \/ CleanupClear

Safety == InitBeats /\ [][NextBeats]_beatVars

\* The writer and the timeout task go on while they can; a write has a timeout.
SpecBeats == /\ Safety /\ WF_beatVars(WriterPick) /\ WF_beatVars(WriterCheck) /\ WF_beatVars(WriterBegin)
             /\ WF_beatVars(WriterComplete \/ WriterEnd) /\ WF_beatVars(Timeouts)

-----------------------------------------------------------------------------
\* Properties.

\* At most one heartbeat is outstanding: the find_map of the timeout task, which
\* looks at one entry per tick, passes none by.
OneOutstanding == Cardinality({b \in Beats : pend[b] # "absent"}) <= 1

\* The timeout task decides to tear the connection down only for a heartbeat
\* that was written completely retry_count times and whose answer the reader
\* has not processed, whatever raced with the scan that found it.
ExhaustedUnanswered ==
    [][tpc # "finish" /\ tpc' = "finish" =>
           tkey.beat \notin answered /\ wrote[tkey.beat] = RetryCount]_beatVars

\* An answered heartbeat is never written again: a queued copy is skipped.
NoResendAfterAnswer == [][\A b \in answered : claims'[b] = claims[b]]_beatVars

\* An answer that was processed is the end of its heartbeat: it is not sent
\* again, and it is not what the connection is given up for.
AnswerHonoured == ExhaustedUnanswered /\ NoResendAfterAnswer

\* Every attempt is claimed once, and no attempt beyond the limit exists.
ClaimedOnce == \A b \in Beats : claims[b] <= att[b] /\ wrote[b] <= claims[b]

\* A silent peer is found: an outstanding heartbeat is answered, or it ends the
\* connection.
SilenceDetected == \A b \in Beats : pend[b] # "absent" ~> (b \in answered \/ connPhase # "Open")
=============================================================================
